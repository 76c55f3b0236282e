# CloudJoust, formally

TLA+ models of CloudJoust's coordination logic, checked with TLC on small
instances, with proofs that TLAPS checks for every instance. CloudJoust runs
motion-controller party games as a set of gRPC services; the models are about
what happens when those services, their threads and their streams meet in an
order nobody tested.

All paths below are relative to `src/services/`; `base.py` and the other game
files are in `game_coordinator/games/`.

## The system

| Part | State it keeps | Operations | Talks to | Modelled by |
|---|---|---|---|---|
| Game loop, `base.py` + `ffa.py` | players and who is alive, `running`, the gameplay stream, the loop's locals | `run()` (setup, countdown, warm-up, loop, teardown), kills, win check, `force_end()` | controller manager (bidirectional stream), audio, event bus | `FFAGame` |
| Team and role modes: teams, random teams, traitor, swapper, werewolf, zombie | sides, secret sides, who is in play, a reveal task, respawn tasks, a clock | their own deaths, win checks, celebrations | as FFA | `SideGames`, `Zombie` |
| Modes with fights: fight club, tournament | queue, defender, scores, a round timer; a bracket and its matches | rounds, face-off, advancing | as FFA | `FightClub`, `Tournament` |
| Game coordinator, `game_coordinator/servicer.py`, `event_bus.py`, `grpc_clients.py`, `game_factory.py` | `game_state`, `current_game`, the game's thread, subscribers' queues, shared channels | start, `ForceEndGame`, `StreamGameEvents`, `GetGameState`, `shutdown` | runs each game in a thread with its own event loop | `GameCoordinator`, `GameModes` (the factory) |
| Menu, `menu/servicer.py`, `state_manager.py`, `controller_events.py`, `handlers/`, `idle_monitor.py` | lobby state per controller, ready flag, lifecycle task, admin mode, idle mode | ready, admin, start a game, follow its events, return | controller manager, coordinator | `MenuLobby` |
| Feedback, `controller_manager/feedback_manager.py` | base colours, the effect running on each controller | effects with restore, cancel, base colour | back ends | `Feedback` |
| Discovery and events, `discovery_loop.py`, `button_detector.py`, `event_publisher.py` | tracked controllers, last buttons, subscribers' queues | scan, poll, fan-out, `StreamButtonEvents` | back ends, menu | `Discovery` (and `FFAGame` for the disconnect queue) |
| Back ends, `controller_manager/multiplexer/` | which adapter drives which controller, desired and sent outputs | routing, refresh, scan | HID services | `Backend` |
| HID services, `rust-hid/`, `python_hid/` | open handles, one command queue, streams | open, scan, poll, write, stream | Bluetooth devices | `HidService` |
| Audio, `audio/` | sound channels and their threads, the player's process, tempo tasks | `PlaySound`, `PlayMusic`, `StopMusic`, `ChangeTempo`, flags | menu and games call it | `Audio` |
| State cache, nonstop, analytics, pairing daemon, connect proxy, dashboard | memo, statistics, devices | - | - | not modelled, see below |

What is hard to get right here, and hard to test:

- **The update in the middle.** A frame carries several disconnects and several
  motions. Deaths, win checks and stream writes alternate while it is
  processed; any write may raise and drop the rest, and any sound or effect
  suspends the loop while other tasks run.
- **News that is read once.** Disconnects are drained from a queue into a
  frame, events from a bounded queue into a stream. Whoever reads and does not
  handle them, or finds the queue full, has lost them for good.
- **Threads around `current_game`.** Each accepted game has its own thread and
  event loop. The RPC handlers, the state sync and the previous game's cleanup
  share `game_state`, `current_game` and the channels with it.
- **A lobby that takes itself down.** The lifecycle task stops the loop that
  reads the controllers and must start it again on every path, though it may
  be cancelled anywhere.
- **Two tasks for one duty.** A Fight Club round is settled by the loop or its
  timer; a zombie is revived by a task of its own; a sound channel is taken
  over while its thread still plays.
- **Lights that several write.** Effects restore what they found; streams, games,
  the menu and the discovery loop all set colours; a thread brings them to the
  controllers later.

What makes each part correct is stated by the properties under "Runs".

## Modules

| Module | What it is |
|---|---|
| `EliminationGame` | The abstract promise of a last-player-standing mode: `Eliminate`, `Declare`, `Finish`. |
| `FFAGame` | One Free-For-All game from `run()` to its ending event, with the stream, the manager's queue and `force_end()`. |
| `GameCoordinator` | Servicer, event bus, shared clients, one thread per accepted game. |
| `BaseGame` | What the other modes share: phases, the running flag, the game loop's suspensions. |
| `SideGames`, `Zombie`, `FightClub`, `Tournament` | The other modes; each extends `BaseGame`. |
| `GameModes` | `create_game` picks one of them; their properties side by side. |
| `MenuLobby` | The menu service between two games. |
| `Feedback`, `Backend`, `HidService`, `Discovery`, `Audio` | The services around the controllers and the sound. |
| `Services` | Composes the five; they share no state that two of them change. |
| `FFAGame_proofs`, `GameCoordinator_proofs`, `MenuLobby_proofs` | Theorems of one module each. |
| `SideGames_proofs`, `FightClub_proofs`, `GameModes_proofs` | Theorems of the modes, as `GameModes` runs them; the last has the zombie game, the tournament and what holds of every mode. |
| `Discovery_proofs`, `Services_proofs` | Theorems of the button streams; of the lights, the sounds, the tempo, and the types of all five parts. |
| `MC*` | Instances for TLC. |

### FFAGame and the code

`phase` is where `run()` is: `created`, `setup` (stream not open), `countdown`,
`warmup` (`_warmup_ema`), `loop` (waiting in `async for`), `frame` (inside
`_process_gameplay_update`), `backoff` (the sleep of
`_handle_stream_reconnection`), `pause` (the second with the winner on display),
`teardown`, `failing` (an exception on its way through `run()`), and `ended` or
`failed` after the ending event. `cur` is what is left of the update at hand, so
an update is processed disconnect by disconnect and controller by controller,
with `CheckWin` after each as in the code, and an exception drops the rest.

`wire` holds the frames sent and not read. `tracked` and `discQ` are the
discovery loop's `tracked_controllers` and `_gameplay_disconnects`; `filter` is
the stream handler's `current_filter`, where the empty set is `None`.
`Disconnect` and `Connect` are the two halves of `_check_for_new_controllers`,
`EmitFrame` is `_build_gameplay_update` with the drain in it, `StreamFails` is
the call breaking or the handler leaving its loop, and `OrphanFrame` is the
handler of a broken call that has not yet noticed its cancellation.

Every stream write of the code may raise once the stream is not up: the
countdown's effects, the death effect after a kill (`Kill`), the warning
(`HandleController`), the filter (`SendAliveFilterUpdate`), the rainbow
(`EndGame`), and the first write of a new stream (`CreateStreamFails`).

A game without connection churn is not modelled as a special case: motion is
free, so any player may die in any frame, which covers the EMA, the
sensitivities, the tempo and the grace period. `verdict` is the event published
by `_check_win_condition`; `crowned` is the winner that `_end_game_impl` finds
again for itself. `lost` and `left` are history variables that no guard reads.

### GameCoordinator and the code

A game is its thread's `pc`: `spawned`, `connected` (`clients.connect()` done),
`created` (factory done), `installed` (`current_game` set), `setup` and `play`
inside `run()`, `raised` between the two `game_error` events of a failed game,
`refused` and `closing1` for the early returns, then `finally`, `close`,
`closing2`, `done`. Threads step at any time; the handlers run on the RPC
loop and are atomic up to where they wait, so `Start` and `Subscribe` are two
steps for the threads and one for other handlers (`subscribing`), and
`ForceEnd`/`ForceEnded` surround the join, which may time out.
`PublishEnding` is `EventBus.publish` with `_on_event_state_sync`: the state
changes and every listener takes the event for the end of its own game, because
the menu does not compare game ids. `client` is the channel the shared clients
hold, `uses` the one behind a game's stub; `close()` is two steps with the await
between them. `ForceEndGame` holds no lock while it joins, so several calls may be
in theirs at once: `force` has the thread each call waits for.

### The other modes and the code

`BaseGame` leaves out what `FFAGame` has: the stream's frames and reconnections
are one step each there (`Reconnect`, `GiveUp`, `StreamEnds`). In exchange
`loop` says what the game loop is suspended on (`sound`, `flash`, `convert`,
`effect`, ...), so that the other tasks of the game's event loop run in between.

- `SideGames`: `team` and `secret` are `Player.team` and the side a player wins
  with; `Verdict` is each mode's `_check_win_condition`, `Celebrated` the second
  count in `_end_game_impl`. `reveal` is the werewolves' task. `light` is what the
  controller shows: the countdown of the team games leaves every controller green
  and nothing gives the team's colour back (`CountdownLights`), so in play a light
  tells only that its player is in; `excused` and `lost` are histories of the races
  that make it wrong and of deaths a broken stream interrupted.
- `Zombie`: `zombies`, `humans` and `alive` are the three places that say what a
  player is, `respawns` counts the respawn tasks of each player, `time` is
  `time_remaining` in ticks.
- `FightClub`: `timer` is the round timer's task, which settles a round and
  starts the next by itself; `settled` counts what was settled.
- `Tournament`: `Slots`, `Byes`, `Seated`, `Place` are `_generate_bracket` and
  `_advance_winner` as operators, `Doubled` is the slots after so many rounds of the
  loop that doubles them until they suffice; `BracketIsFair` compares them with what
  a bracket is for every field of 2 to 16 players.

### MenuLobby and the code

`lobby` is `controller_states`, with `AWAY` for a controller that is not a key.
`loop` is the controllers' event loop: connecting, listening, waiting for the
sound of a press, for the ready feedback, or for a cancelled lifecycle to end.
Each lifecycle task has a name; `current` is `_game_lifecycle_task`, and `waits`
counts the `ProcessInput` calls that wait for a cancelled one. A step is what runs
between two awaits: putting colours on a queue never suspends, so `transition_to`
is atomic except into READY. A cancelled lifecycle runs no more code of its own,
unless it is awaiting the end of the event loop: `stop()` suppresses the
cancellation (`controller_events.py:139`), and the lifecycle goes on (`Cancel`).

Of the button stream the model keeps the connects and disconnects. `greet` are the
initial ones of a new stream, all with the same list; `news` those published since,
each with the list of controllers captured when it was published
(`discovery_loop.py:361`, `394`), for that list and not the present one is what
`_reconcile_controllers` prunes by (`Pruned`): an event queued before a controller
left still names it. An event the full queue refused stays in `news` with
`kept = FALSE`, so that what it would have told keeps its place in the order; its
reader passes over it. `seen` is the list as of what has been read. `ComeOrGo` is a
scan's find, `SetUpFails` a controller that is announced and never tracked.
`ghosts` is a history: who left unheard, or was announced and never tracked, with
no list read since.

The stream of game events is opened once. `_run_game_event_stream` looks as if it
reconnected, but `_consume_game_events` keeps `game_started` to itself, and it is
lost with the error; `_check_retry_eligible` then raises always
(`menu/servicer.py:611`, `747`), and the lobby is restarted at once while the game
may go on. The model has that one way out (`StreamGivesUp`) and no retries.

`stranded` and `remote` are histories: the accidents after which nobody may
bring the lobby back, and whether a start came by RPC. The pages of admin mode
(`ChangeSensitivity`, `ToggleInstructions`, `ChangeValue`) write flags and colours
no other state depends on; what they do to the lobby is to keep the event loop
waiting for a voice, with the news piling up behind it. The page that chooses a
game does nothing: nobody sets `game_options` (`menu/servicer.py:156`,
`admin.py:527`).

### The services and the code

- `Feedback`: `entry` is `active_effects`, `task` the effect tasks, `reader` the
  streams whose commands they serve. Setting a light never suspends; a step is
  what runs up to an `await` of a cancelled effect or the sleep of a death.
- `Backend`: `route` is `_serial_to_adapter`, `lit`/`motor` what is wanted,
  `sent` `_last_sent_color`; the thread that scans and refreshes runs beside the
  event loop, holding `_led_lock` for one write, whose rumble it has read before it
  took the lock.
- `HidService`: one device thread and its command queue; `kind` chooses between
  the Rust and the Python service, which treat dead handles, a full stream and
  the end of a stream differently, so their differences are the disjuncts of
  the same actions.
- `Discovery`: `scan` is where `_check_for_new_controllers` is suspended; each
  stream has the queue the publisher fills and what its reader knows. `Offered`
  and `Heard` go through events and queue one by one, as functions of the
  position, so that they can be proved about.
- `Audio`: channels with the thread that believes to own each, the player's
  shared `Values` and its process, tempo requests and transitions, each with the
  track it is for, or `None` if it named none while nothing played or its track was
  stopped meanwhile. A song is over (`SongEnds`) or broken off by the look at the
  stop flag and the generation after each chunk (`BrokenOff`,
  `music_player.py:192`). Names of threads and transitions are interchangeable, so
  a new one gets the same one of the unused names every time (`AName`, as in
  `Feedback`).

## Runs

| Run | Instance | Shows |
|---|---|---|
| `ffa_safety` | 3 players, 2 reconnects, 2 frames in flight, 3 stream failures, 2 churns; 1.2 million states up to symmetry | the safety of a game, and that it is a game of elimination |
| `ffa_live` | 2 players, the code's 3 reconnects, 4 stream failures, 2 churns | `EndsWhenToldTo` |
| `ffa_last` | 2 players, 1 failure | counterexample to "the last player standing can never die" |
| `ffa_ghost` | 2 players, 1 disconnect, sound stream | counterexample to "a disconnect kills the player" |
| `coordinator` | 2 games, 2 force ends that may overlap, fairness; 53,000 states | its safety, and that starting settles |
| `coordinator_force` | 1 game, 1 force end, fairness | counterexample to "forces the current game to end" |
| `coordinator_starter` | 1 game, fairness | counterexample to hearing one's own game's end |
| `modes` | 3 players (4 zombies or tournament), 2 teams, clock of 2, up to 6 rounds; 228,000 states | the rules of eight modes |
| `tournament` | 4 players | counterexample to "losers are eliminated" |
| `lobby` | 2 controllers with up to 3 disturbances or 3 with 1, 3 lifecycle tasks; 545,000 states | that the lobby always comes back, and that no controller stays in it that has left |
| `lobby_start` | 2 controllers, no disturbance | counterexample to "all ready starts the game" |
| `services` | five parts, each alone; 269,000 states | that lights, motors, readings, news and music come to what was asked for |

The properties of a game:

- `LastPlayerStands`: without a stream failure somebody survives, whatever mix
  of disconnects and motion a frame carries.
- `VerdictIsFinal`: after the verdict nobody dies, the rest of the update
  included, and failures included.
- `EndingIsExplained`: on a sound stream, leaving the loop means a verdict or a
  forced end, and the second look at the survivors crowns the same winner.
- `DisconnectsAreAccounted`: a living player without a controller is known to
  somebody, or the place that dropped the news (`lost`) can be named.
- `StaleDisconnectsNeverKill`: disconnects queued in the lobby, where nobody
  drains them, do not kill players who are back. It is the warm-up that makes it
  true, the same code that makes `NoGhostPlayer` false.
- `RefinesElimination`: across reconnections and failures the game is a game of
  elimination.
- `EndsWhenToldTo`: told to stop, or decided, the game publishes its ending event.

The properties of the coordinator:

- `NoPhantomGame`: when the last thread is done no state, game or channel is
  left over that would block the next start.
- `SoloGameIsSound`: a game that overlapped with no other thread or pending
  `ForceEndGame` (`met`) is current while it runs, on its own open channel,
  which is closed in the end.
- `StarterHearsOwnEnd`: such a game's starter is not sent home by another
  game's news.
- `StartingSettles`: an accepted start leaves `STARTING`.

Games in `met` are outside `SoloGameIsSound` and `StarterHearsOwnEnd` because the
code does not keep these promises for overlapping games: a thread that outlives the
two-second join may forget the newer game or close its channel, and a
`ForceEndGame` or a second `game_error` of the old game may end the newer one for
its starter. Those races are in the model, and what is said of them is
`NoPhantomGame` and `StartingSettles`: they leave nothing behind for later starts.
The hazards name the lines.

The properties of the other modes (`modes`):

- `VerdictsAgree`: the winner announced is the one celebrated, although both are
  counted separately and tasks run in between.
- `SomebodySurvives`: simultaneous deaths do not empty a game of sides.
- `LightsTellWhoPlays`: with a reveal task, reconnections and effects all writing
  colours, a controller is dark exactly when its player is out, but for the players
  a named race is about. It does not say that a player sees the team's colour, which
  the docstrings promise and the code does not do (see "Disagreements").
- `SwappersComeBack`, `ZombiesComeBack`: who is put out of play for a while comes
  back, and not twice.
- `HumansAreHuman`: the list, the flag and the alive flag agree.
- `EveryPlayerHasOnePlace`, `RoundsSettleOnce`, `SomebodyWatchesTheRound`: Fight
  Club's loop and timer do not lose or duplicate a player, settle a round twice
  or leave one unwatched.
- `BracketIsFair`: the bracket's arithmetic: who is seated where, and where a winner
  belongs. That winners of byes get to their place it does not say, and they do not:
  a bye is complete from the start and is never run (`tournament.py:176`, `222`).
- `ForcedGamesEnd`, `TimeEndsTheGame`: a forced game ends in every mode, and the
  zombie game by its clock.

The properties of the menu (`lobby`):

- `SomebodyBringsTheLobbyBack`: a menu that does not listen, or believes in a game,
  has a lifecycle on its way to restart it, or one of two accidents is on
  record: a forced start, or a start by RPC that cancelled a lifecycle while it had
  the lobby taken down.
- `LobbyComesBack`: and so it does restart.
- `ControllersStartOneGame`: two presses in a row never make two lifecycles.
- `GhostsDoNotStay`: who is shown and not tracked has news to come, or no list of
  controllers has been read since its departure was dropped. The lists in the queue
  may be old; the first one captured after the controller left removes it.
- `SleepersWakeTogether`: the idle monitor does not forget a sleeper.

The properties of the services (`services`):

- `ColoursSettle`: with its effects over, a controller shows its base colour or one
  of the named leftovers (charge, tint, countdown, red), which their effects leave by
  design. A leftover is excused by the kind of its colour, so an effect of
  one of these kinds that should restore and does not would pass.
- `EffectsLetGo`: every entry of an effect has a running effect, and the refresh of
  the LEDs skips a controller only while an effect runs or is about to.
- `ControllersConverge` (of `Services`: `LightsConverge` of `Backend` and
  `ReadingsArrive` of `HidService`): a controller that stays comes to show what was
  set last, and its readings come to the manager.
- `ReadersKnowWhoIsThere`: a reader's controllers and held buttons are the tracked
  ones, up to its queue, what a full queue dropped, and the ghosts of controllers
  whose state never came.
- `ChannelsAreHonest`: a channel marked busy has a thread that will clear the mark;
  unless a critical sound took the channel from another, one sound plays on it and
  it is not cut short. One that was taken over is excused, since there the code does
  let the old thread clear the flag.
- `TempoStaysWithTheTrack`: a tempo change asked for one track does not stay on
  another: a stop and the next start shake off the transition underway. A request
  that was not yet a transition when its track stopped is late by the code's own
  doing and excused.
- `NewestTrackIsHeard`: the last track asked for, if it can be played, is heard,
  and without waiting for the end of a song that is known to be outdated.

### Bounds and why they are enough

Three players are the fewest for a death that decides nothing, one that decides, and
one in between, and for a frame in which all three matter; Fight Club needs three
for a queue. A zombie game of four has two zombies and two humans, and a tournament
of four a second round. A clock of two ticks lets a conversion fall before, between
and after them. Six rounds exceed the minimum of three, so a tie, a face-off and a
sole leader occur. Two frames in flight are one with old news and one with new.
Three failures exceed the two reconnects of the safety run, four the three of the
liveness run, so giving up happens, as do recovery after a failure and failure after
recovery. Two churns let a controller leave and return, or two leave. Two games are
the fewest that overlap and two force ends the fewest that follow each other or
meet; three games with two force ends were explored once (5.6 million states, before
the calls could meet) without a violation of the safety properties.

In the menu, two ready controllers are the fewest that start a game, and the
third is one whose leaving makes the rest all ready. The disturbances are of three
kinds (`Kinds`): of the links to the controllers, RPCs, and what players and time
may do; `MCStarts` names how many of each kind an instance has. Three faults of the
link are a departure, another while its event waits, and a return, which is what it
takes for a list in the queue to be old twice over; two RPCs are a start that
cancels a start; one of each of two kinds is a fault while another task is amid its
work. Three tasks are what two overlapping starts and the current game need.

Services: one controller is enough where controllers are independent (lights, back
end, HID), two where they meet in a list (discovery). Three commands are an effect,
one that cuts it short, and a colour. Larger instances were explored once per
module, in earlier versions of them, and held: Feedback with four commands and two
colours (740,000 states) and with five and one (4.1 million), Discovery with three
controllers and five news (2.1 million), Audio with four calls (558,000), Backend
with a pipe of two (323,000), HidService with two mishaps (143,000).

Symmetry is used only for safety runs: the players are interchangeable, and
`CHOOSE` is applied to singletons. In `FFAGame` controllers are followed only
while the game still reads frames (`Watched`). Deadlock is not checked: a
finished game, an empty lobby and a coordinator that has seen `MaxGames` starts
stop.

### Fairness

`ffa_live` assumes that the game's coroutine keeps running, which its event loop
does; that the warm-up leaves its loop, which the 0.1 s clock makes it do at its
next frame; and that the manager sends frames while the stream is up, which its
fixed-rate loop does. It does not assume that anybody dies, that the stream
fails or recovers, or that anyone calls `force_end()`.

The coordinator assumes fair threads and a fair RPC loop, and of a game only what
`EndsWhenToldTo` gives: one that was told to stop, or whose channel was closed,
ends. Other games may go on for ever.

`modes`: the loop's own steps are taken. For the zombie game the timer ticks too,
and strongly fair are `Frame` and `EffectSent`: a stream that breaks for ever is
given up, so frames come again and again, and not every single death's write fails.
`lobby`: the event loop and the lifecycles are taken (timers, answers, and the end
of the game or of its stream); nobody has to press a button, and who waits for a
cancelled task goes on before anything that waits for time (`Joining`). `services`:
threads and tasks run; scans and refreshes, being periodic, happen again and again
while they can (strong fairness); a song ends, but of an outdated one only
`BrokenOff` is fair, not `SongEnds`.

`HidService` makes one timing assumption: the service notices that a client has
gone before that client scans again, unless the connection broke
(`leaving \subseteq late`). Without it TLC finds a livelock for the Rust service,
which forgets its one stream when *any* stream ends
(`rust-hid/src/device_manager.rs:159`, `controller_io_service.rs:154`).

## What is proved

For every set of players, controllers, clients, tasks, threads and channels and
every bound: all the invariants and action properties the passing runs check, and
one refinement, rest on the inductive invariants below. Each was checked with TLC
on its run's instance first.

- `FFAGame_proofs`. The inductive invariant `IInv` adds two facts to the
  properties. `Undecided`: there is no verdict before the loop has been left.
  `SoundGame`: without a failure the stream is open from the countdown to the
  end, and without a verdict at least two players are alive. The second is the
  heart of the argument: a death leaves at least one of two, and if it leaves
  just one, `CheckWin` in the same step gives the verdict, so no state has one
  living player and an update still to process. `VerdictIsFinal` alone is not
  inductive because a kill is guarded by the phase and not by the verdict;
  `Undecided` links them. From `IInv` follow `TypeCorrect`,
  `LastPlayerSurvives`, `VerdictStands`, `EndingExplained`, and the refinement
  `FFAIsElimination`: `HandleDisconnect` and `HandleController` map to
  `Eliminate`, `Declare` or a stutter, `EndGame` and `GameError` to `Finish` or
  a stutter, everything else stutters. Its second part is about the news of
  disconnects: lemmas say what those on the wire become when a frame is read or
  sent; `NewsIsAccounted` follows with `Idle` (no update outside `frame`).
  `StaleNewsIsHarmless` needs `NewsIsFresh`: before the warm-up has read a frame
  only the *first* frame on the wire can carry old news, after that none can,
  because the first frame drained the queue.
- `GameCoordinator_proofs`. `NoPhantomGame` speaks of states in which all
  threads are done; the invariant says what is true before: while the
  coordinator is busy some thread has yet to publish an ending event
  (`BusyHasThread`), while a game is current some thread has yet to forget it
  (`CurrentHasThread`), while a channel is held some thread has yet to close it
  (`ClientHasThread`). Each step hands the duty on or does it. `SoloGameIsSound`
  and `StarterHearsOwnEnd` follow from `SoloInv`, which says of each game outside
  `met` that it is the newest and the only thread alive (`Alone`), where its
  channel is at each point of its thread (`OwnChannel`), that nobody else has
  written the state (`OwnState`), and that its starter is free only after its own
  end or a `ForceEndGame` of it (`OwnEnd`). `Alone` is what makes the others
  inductive: every step that could disturb them is of another thread, and the
  two games would both be in `met`.
- `MenuLobby_proofs`. `SomebodyBringsTheLobbyBack` is inductive with the types: a
  lifecycle leaves `Away` only through `RestartLobby`, and `Cancel` there is
  recorded. The other three need strengthening. `GhostsDoNotStay` is about the
  present controllers, while what prunes are lists of some time ago, and does not
  say anything of what happens when such a list is read. `StreamTells` does:
  a list in the queue differs from the present controllers only in those with an
  event behind it (`ListsAgree`), from the list before it only in its own event's
  controller (`ListsFollow`), and the lobby shows, but for `ghosts`, only who was
  there as of what has been read (`LobbyIsSeen`). The controller of a press whose
  sound the loop waits for is included, since `transition_to` puts it back into the
  table. So who is shown, no ghost and not present has an event in the queue.
  `ControllersStartOneGame`: `OneLifecycle` says that every living lifecycle is
  `current`, and that a loop which waits for a cancelled one leaves none alive.
  `SleepersWakeTogether`: a lifecycle stops the idle monitor without waking
  anybody, so `NobodySleeps` says that from the last press to that moment nobody
  is asleep. The step lemmas have one step per action that touches the
  property's variables.
- `SideGames_proofs`. `SomebodySurvives` needs `Survivors`: whenever the loop
  takes up the next player of an update two players are in play, because the win
  condition, asked after every death, has found two sides or stopped the loop.
  `VerdictsAgree` needs that both ways of counting sides agree and that nothing
  changes the sides between announcement and celebration (`SideOutcome`);
  `LightsTellWhoPlays` whom a suspended reveal is about to light, and that nothing is
  dark before play, whatever colour the countdown has come to (`Lights`);
  `SwappersComeBack` which player the loop is in the middle of (`Swappers`).
- `FightClub_proofs`. Timer and loop both settle rounds and start them; `ClubRounds`
  says who may: a round is under way exactly while there is a fighter (but for
  the challenger a face-off has just named), and the timer is off whenever the
  loop is settling or starting. From it `RoundsSettleOnce` and
  `SomebodyWatchesTheRound`, with `ClubPlaces` that every player keeps its one
  place through popping, queueing and rematches, with `ClubOutcome` that no score
  changes after the verdict.
- `GameModes_proofs`. First the zombie game: `ZombiesComeBack` needs that a zombie
  that falls was in play: `UpdateInPlay` says that what is left of an update is
  in play and names nobody twice, `TasksBringBack` that only zombies out of play
  have a task, and only one. `VerdictsAgree` needs `ZombieVerdictHolds`: a verdict
  stays true until it is celebrated, because the clock stays at 0 and tasks bring
  back zombies only. Then the tournament. `BracketIsFair` is arithmetic: from
  `Doubled` twice itself follow how many rounds a field needs (`RoundsAre`), that
  byes and pairs use up the seeds (`SeatsAreFair`), which round a match is in
  (`RoundOfIs`), and, because the matches of a later round divide those of an
  earlier one (`DoubledDivides`), that a place is half the match's own number away
  (`PlaceIs`); so no two matches share a place and none is left over
  (`PlacesAreFair`). The types need `MatchHasTwo`: a match being played has two
  different players, so a fall leaves one to advance. Last the modes together:
  `ModesAreTyped` and `OneVerdict` combine the invariants, since `create_game`
  picks one mode for good.
- `Discovery_proofs`. `ReadersKnowWhoIsThere` is about what a client *will* know
  when it has read its queue, a fold over the queue; nothing can be said of the
  fold's last value directly when an event is added at one end or taken at the
  other. `DiscInv` therefore keeps the whole reading: there is a sequence of
  views, from what the client knows now, each following from the one before by
  the next event in the queue, and the last agrees with the tracked controllers
  and their buttons (`Told`). An event read shortens that sequence
  (`LearnsLess`), one that is queued lengthens it (`LearnsMore`), and `Tells`
  says for each kind of event that who knew what was true before knows what is
  true after it; several events of one step go through intermediate truths
  (`OfferedGood`). It also needs that nobody untracked holds a button, and that
  who is still to be spawned is not tracked (`ScanInv`). `HeardIsLearnt` equates
  the reading with the function `Heard`.
- `Services_proofs`. Lights: `EntriesRun` and `TasksServe` say that whoever holds a
  controller's entry is alive and works on that controller, `ReadersWait` for whom
  and for which task a stream's command waits. With them `ActiveForEffects` and
  `LightsSettle` say whose duty it is to set a light that is not yet right: an
  effect that runs or a command in the middle; when there is none it is right
  (`EffectsLetGo`, `ColoursSettle`). Sounds: `VoicesSing` and `ProbeIsClear` link
  each thread to a channel and the channel about to be taken to a clear flag;
  from these `ChannelsAreHonest`. Tempo: `RequestsAreFresh`, `FadesAreFresh` and
  `RatioIsFresh` say that every call, every transition and the tempo itself are
  about the track that plays or on record as late, and `TrackPlays` that there is
  no track while the player is stopped; a stop puts all that is under way on
  record (`StopKeeps`). Types (`TypeCorrect`): those of the audio need that a
  started track was counted as a call (`TracksCount`); those of the back end that
  the refresh writes to an adapter it has found, since only the same thread takes
  routes away (`ThreadTypes`), and how long the pipes are; those of the HID
  services which commands each of the two puts on its queue (`Commands`).

The type invariant of every module is proved.

The assumptions are the named `ASSUME`s of the modules: at least two players,
distinct kinds of verdict, names distinct from `None` (Python's own, never a
serial or a task), natural bounds, finite sets of controllers and buttons, at
least one sound channel.

Only model-checked:

- Liveness and fairness (`EndsWhenToldTo`, `StartingSettles`, `LobbyComesBack`,
  `ForcedGamesEnd`, `TimeEndsTheGame`, `ControllersConverge`,
  `NewestTrackIsHeard`), which are out of the prover's reach.

Three definitions are recursive functions: `Offered`, `Heard` and `Doubled`. That
they have a value everywhere is proved by looking at the least number for which
there is none (`OfferedIs`, `HeardIs`, `DoubledIs`); the same argument replaces
induction in `OfferedGood`, `HeardIsLearnt` and `DoubledGrows`. `Doubled` takes the
place of powers of two, since the provers know too little of `^`.

## Disagreements found

With a run that shows them:

- A death effect that cannot be written skips the win check, and the last player
  can die (`ffa_last`; `base.py:1208` against the docstring at `base.py:563`).
- A disconnect during the countdown is dropped by the warm-up and leaves a player
  whom nothing can kill (`ffa_ghost`; `base.py:542`).
- `ForceEndGame` on a starting game reports success and does not stop it
  (`coordinator_force`; `game_coordinator/servicer.py:275`, `base.py:1306`).
- A game that fails before its starter has subscribed ends unheard
  (`coordinator_starter`; `game_coordinator/servicer.py:344`).
- A start refused because a controller is no longer ready leaves the lobby unable
  to start one (`lobby_start`; `menu/handlers/ready.py:97` against
  `menu/README.md:109`).
- The loser of a match is never eliminated, nor its winner advanced
  (`tournament`; `tournament.py:460` against the docstring at `tournament.py:83`).

Met while modelling, and in the models as the code has them:

- Menu: `ConnectedHandler` reads a `settings` attribute the state manager has not,
  and the error ends the controllers' stream (tests set it on a mock). The admin
  timeout may un-ready a controller after a reset. Force start only publishes an
  event and leaves the menu in `GAME_STARTING`. `menu_auto_start` never starts the
  idle monitor. A start by RPC during a game cancels its lifecycle. The event stream
  of a game has no "reconnection logic", against the docstring at
  `menu/servicer.py:591`: any error brings the lobby back while the game goes on.
  The page of admin mode that chooses a game has no games to choose from.
- Modes: "Players see their colors when the game starts (after countdown)"
  (`teams.py:107-109`, `127-128`, `swapper.py:114-115`), but `teams_base.py:260-297`
  shows the team's colours first, then white and green as base colours, and leaves
  every controller green; only a skipped countdown keeps the colours. Traitors' hint
  and the formation pulse are sent before the stream exists. In Swapper the base
  class's death effect darkens a player that stays in play. A stream failing amid a
  swap leaves the player out. A werewolf may be coloured after it died. A zombie
  game cut short is always the zombies'. In Fight Club a face-off leaves its
  fighters queued as well, and a write that fails while the timer starts a round
  leaves it without one. The tournament ignores disconnects, its timeout names an
  effect that does not exist, and no champion is ever crowned.
- Controller manager: DEATH fades to black where the proto file says it stays red.
  A new colour reaches the controller only when it differs from the last sent one
  or after two seconds, and a motor without a colour change not before; a write
  that was refused counts as sent. A failed `Discover` makes all controllers of
  an adapter look gone. A controller whose first state fails is announced again
  with every scan. An empty list of connected controllers prunes nobody.
- HID services: the Rust one has one stream and forgets it when any ends; a dead
  handle is removed at verification only. The Python one runs a command whose
  caller has timed out; `Close` leaves the lamp lit.
- Audio: taking over a channel does not stop its sound, and the old thread's cleanup
  then cuts the new one. A late tempo transition reaches a newer track. The process
  reads the generation that is to break off a song only as the song begins
  (`music_player.py:329`): a track asked for between its last looks and that line
  waits for the end of the old one. A service started with `play_audio` off stays
  silent whatever the flag says.

## What is not modelled, and the plan

Not modelled:

- The state cache is a memo in one task; a property would restate its key.
- Nonstop Joust cannot start at this commit: it passes a field that
  `controller_manager.proto` reserves (`nonstop_joust.py:268`), so every start is a
  `game_error`, which `GameCoordinator` has.
- The EMA, thresholds and the music tempo: motion is free in every model.
- Analytics, pairing daemon, connect proxy, dashboard, tracing and the
  observability stack: I/O, statistics and third-party services with little
  coordination of their own. The mock and chaos adapters are for demonstrations.
- Within modelled parts: the event bus's lock and queue limit (`publish()` is one
  step), `shutdown()`, `GetGameState` and streams that only listen; what the
  pages of admin mode set, the sentinels of the idle monitor, the health counters of
  the adapters, frames of effects, sample decoding.

Next, in this order: an abstract lobby that alternates between gathering and
playing, refined by `MenuLobby`; an abstract coordinator that runs one game at a
time, refined by `GameCoordinator` outside `met`.
