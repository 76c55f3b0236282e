------------------------------- MODULE MenuLobby -------------------------------
(***************************************************************************)
(* The menu service between two games: the state manager's table of        *)
(* controllers, the event loop that reads the controller manager's button  *)
(* stream, the lifecycle task that takes the lobby down for a game and     *)
(* brings it back, the RPCs, the idle monitor and admin mode.              *)
(*                                                                         *)
(* All of them are tasks of one asyncio loop, so a step here is what runs  *)
(* from one suspension to the next.  The colours and effects are put on an *)
(* unbounded queue under a lock nobody holds across an await: they never   *)
(* suspend, and so transition_to does not, except into READY.              *)
(*                                                                         *)
(* Abstracted: of the stream's queue only the connects and disconnects are *)
(* kept, each with the list of controllers it was published with; a button *)
(* may be read between any two of them.  The debouncers only drop presses, *)
(* and nobody has to press; admin mode's pages write flag files and        *)
(* colours, which no state here depends on, and make the event loop wait   *)
(* for their voices.                                                       *)
(***************************************************************************)
EXTENDS Naturals, Sequences, FiniteSets

CONSTANTS Serials,        \* the controllers
          Tasks,          \* names for the lifecycle tasks alive at one time
          None,           \* no controller, no task
          Starts          \* bounds: who is there at first, and how often each kind of
                          \* disturbance may come

\* Of the links to the controllers, the RPCs, and what players and time may do.
Kinds == {"link", "call", "whim"}

ASSUME LobbyConstants ==
  /\ None \notin Serials /\ None \notin Tasks
  /\ Starts \subseteq (SUBSET Serials) \X [Kinds -> Nat]

VARIABLES
  menu,      \* MenuState
  lobby,     \* controller_states; "AWAY" for a controller that is not a key
  starting,  \* ReadyHandler._game_start_in_progress
  present,   \* the controllers the controller manager tracks
  greet,     \* the connects of a new stream that are still to be read
  news,      \* the connects and disconnects published after them, unread
  seen,      \* the controllers as of what has been read: the last event's list
  ghosts,    \* history: who left unheard, or was announced and never tracked,
             \* with no list of controllers read since
  loop,      \* the event loop task: where it is, and for which controller
  waits,     \* how many ProcessInput calls wait for which cancelled lifecycle
  task,      \* the lifecycle tasks
  current,   \* MenuServicer._game_lifecycle_task
  idle,      \* IdleMonitor: its task runs, _idle_active
  admin,     \* AdminModeHandler: controller_serial, its two timers, combo_shown
  left,      \* disturbances left
  stranded,  \* history: why nobody may bring the lobby back
  remote     \* history: a start was asked for by RPC

stream == <<greet, news, seen, ghosts>>
vars   == <<menu, lobby, starting, present, greet, news, seen, ghosts, loop, waits, task,
            current, idle, admin, left, stranded, remote>>

States   == {"AWAY", "CONNECTED", "READY", "ADMIN", "IDLE"}
LoopAt   == {"off", "connect", "listen", "sound", "feedback", "joining", "voice"}
TaskAt   == {"done", "sleep", "music", "stopping", "stream", "waiting", "lights"}
Away     == {"stopping", "stream"}  \* the lobby's loop is stopped
Courses  == [at : TaskAt, started : BOOLEAN]
Events   == [serial : Serials, connect : BOOLEAN, names : SUBSET Serials, kept : BOOLEAN]
Admins   == {a \in [serial : Serials \cup {None}, timer : Serials \cup {None},
                    hold : Serials \cup {None}, fired : BOOLEAN, combo : BOOLEAN] :
               a.fired => a.hold # None}
NoTask   == [at |-> "done", started |-> FALSE]

InLobby  == {s \in Serials : lobby[s] # "AWAY"}
Ready    == {s \in Serials : lobby[s] = "READY"}
AllReady == Cardinality(Ready) >= 2 /\ Ready = InLobby
Live     == {t \in Tasks : task[t].at # "done"}

\* A task that waits for a cancelled one to end goes on within a turn or two
\* of the loop: nothing that waits for time or for an answer overtakes it.
Joining  == loop.at = "joining" \/ \E t \in Tasks : waits[t] > 0 /\ task[t].at = "done"

Init ==
  /\ menu \in {"STOPPED", "RUNNING"}  \* menu_auto_start
  /\ lobby = [s \in Serials |-> "AWAY"] /\ starting = FALSE
  /\ \E st \in Starts : present = st[1] /\ left = st[2]
  /\ greet = {} /\ news = <<>> /\ seen = {} /\ ghosts = {}
  /\ loop = [at |-> "connect", serial |-> None]
  /\ task = [t \in Tasks |-> NoTask] /\ current = None /\ waits = [t \in Tasks |-> 0]
  /\ idle = [runs |-> FALSE, active |-> FALSE]
  /\ admin = [serial |-> None, timer |-> None, hold |-> None, fired |-> FALSE, combo |-> FALSE]
  /\ stranded = {} /\ remote = FALSE

Disturb(kind) == left[kind] > 0 /\ left' = [left EXCEPT ![kind] = @ - 1]

LoopGoes(at, s) == loop' = [at |-> at, serial |-> s]

\* Every controller in one of the states goes back to CONNECTED.
Reconnected(from) == [s \in Serials |-> IF lobby[s] \in from THEN "CONNECTED" ELSE lobby[s]]

-----------------------------------------------------------------------------
(* The controllers and their stream, as the menu sees them. *)

\* publish_connection_event: the event carries the controllers tracked by now,
\* and a full queue drops it.
Publish(s, connect, now, kept) ==
  news' = IF loop.at \in {"off", "connect"} THEN news
          ELSE Append(news, [serial |-> s, connect |-> connect, names |-> now, kept |-> kept])

\* A controller comes or goes.
ComeOrGo(s) ==
  /\ Disturb("link") /\ present' = IF s \in present THEN present \ {s} ELSE present \cup {s}
  /\ \E kept \in BOOLEAN : Publish(s, s \notin present, present', kept)
  /\ UNCHANGED <<menu, lobby, starting, greet, seen, ghosts, loop, waits, task, current, idle,
                 admin, stranded, remote>>

\* A new controller gives no first state: it is announced, and not tracked.
SetUpFails(s) ==
  /\ Disturb("link") /\ s \notin present /\ Publish(s, TRUE, present, TRUE)
  /\ UNCHANGED <<menu, lobby, starting, present, greet, seen, ghosts, loop, waits, task,
                 current, idle, admin, stranded, remote>>

\* _run_stream_connection up to the first wait: the table is emptied, and the
\* server sends a connect event for every controller it tracks, with all of them.
Connect ==
  /\ loop.at = "connect" /\ LoopGoes("listen", None)
  /\ lobby' = [s \in Serials |-> "AWAY"]
  /\ greet' = present /\ news' = <<>> /\ seen' = present /\ ghosts' = {}
  /\ UNCHANGED <<menu, starting, present, waits, task, current, idle, admin, left, stranded,
                 remote>>

\* The event loop leaves its stream, and what is unread is lost.
LoopLeaves(at) ==
  LoopGoes(at, None) /\ greet' = {} /\ news' = <<>> /\ seen' = {} /\ ghosts' = {}

\* The stream ends or fails: _handle_connection_error, then the next attempt.
StreamBreaks ==
  /\ loop.at = "listen" /\ Disturb("link") /\ LoopLeaves("connect")
  /\ UNCHANGED <<menu, lobby, starting, present, waits, task, current, idle, admin, stranded,
                 remote>>

\* AdminModeHandler.exit(), whichever controller leaves ADMIN.
AdminExits == [admin EXCEPT !.serial = None, !.timer = IF admin.serial = None THEN @ ELSE None]

\* Mutant: nobody looks at the list of controllers that comes with an event.
PruneNothing(e, known) == {x \in Serials : ~e.connect /\ x = e.serial}

\* Whom the event removes from the table: the one that is gone, and with
\* _reconcile_controllers every ghost its list does not name; an empty list
\* prunes nobody.
Pruned(e, known) ==
  {x \in Serials : \/ ~e.connect /\ x = e.serial
                   \/ e.names # {} /\ known[x] # "AWAY" /\ x \notin e.names}

\* What _dispatch_event makes of a connect or disconnect.
Dispatch(e) ==
  LET known == IF e.connect THEN [lobby EXCEPT ![e.serial] = "CONNECTED"] ELSE lobby
      gone  == Pruned(e, known)
  IN
  /\ lobby' = [x \in Serials |-> IF x \in gone THEN "AWAY" ELSE known[x]]
  /\ admin' = IF \E x \in gone : known[x] = "ADMIN" THEN AdminExits ELSE admin

\* A connect event of the new stream; they all carry the same list.
ReceiveGreeting(s) ==
  /\ loop.at = "listen" /\ s \in greet /\ greet' = greet \ {s}
  /\ Dispatch([serial |-> s, connect |-> TRUE, names |-> seen, kept |-> TRUE])
  /\ UNCHANGED <<menu, starting, present, news, seen, ghosts, loop, waits, task, current, idle,
                 left, stranded, remote>>

\* The ghosts after the event e: any list exposes all of them, and without one
\* a lost disconnect or the connect of an untracked controller adds its own.
GhostsAfter(e) ==
  CASE e.kept /\ e.names # {}              -> {}
    [] e.kept /\ e.names = {} /\ ~e.connect -> ghosts \ {e.serial}
    [] ~e.kept /\ e.serial \in e.names      -> ghosts \ {e.serial}
    [] OTHER                               -> ghosts \cup {e.serial}

\* The next event; one the full queue dropped is only passed over.
ReceiveNews ==
  /\ loop.at = "listen" /\ greet = {} /\ news # <<>>
  /\ LET e == Head(news) IN
     /\ IF e.kept THEN Dispatch(e) ELSE UNCHANGED <<lobby, admin>>
     /\ news' = Tail(news) /\ seen' = e.names /\ ghosts' = GhostsAfter(e)
  /\ UNCHANGED <<menu, starting, present, greet, loop, waits, task, current, idle, left,
                 stranded, remote>>

-----------------------------------------------------------------------------
(* Starting a game: what the last ready player, a trigger or an RPC calls. *)

Busy == current # None /\ task[current].at # "done"

\* asyncio.create_task(_run_game_lifecycle()), under a name nobody waits for.
Spawn ==
  /\ \E t \in Tasks \ Live : waits[t] = 0
  /\ LET t == CHOOSE t \in Tasks \ Live : waits[t] = 0
     IN task' = [task EXCEPT ![t].at = "sleep"] /\ current' = t
  /\ UNCHANGED stranded

\* Cancelling the lifecycle at its await.  It runs no code of its own any more,
\* unless it awaits the end of the event loop: stop() suppresses the error.
Cancel ==
  /\ IF task[current].at = "stopping" THEN UNCHANGED <<task, stranded>>
     ELSE /\ task' = [task EXCEPT ![current] = NoTask]
          /\ stranded' = IF task[current].at \in Away THEN stranded \cup {"cancelled"}
                                                      ELSE stranded
  /\ UNCHANGED current

\* Mutant: the lifecycle that is still restarting the lobby is not cancelled.
LoopStartsAnyway == Spawn /\ LoopGoes("listen", None)

\* _start_game from the event loop task.
LoopStarts ==
  IF Busy THEN Cancel /\ LoopGoes("joining", None)
          ELSE Spawn /\ LoopGoes("listen", None)

\* The cancelled lifecycle has ended; current is not looked at again.
LoopJoined ==
  /\ loop.at = "joining" /\ Spawn /\ LoopGoes("listen", None)
  /\ UNCHANGED <<menu, lobby, starting, present, stream, waits, idle, admin, left, remote>>

\* ProcessInput: a web command, or a trigger press from the dashboard.  Any
\* number of calls may wait for the same lifecycle.
RemoteStart ==
  /\ Disturb("call") /\ remote' = TRUE
  /\ IF Busy THEN Cancel /\ waits' = [waits EXCEPT ![current] = @ + 1]
             ELSE Spawn /\ UNCHANGED waits
  /\ UNCHANGED <<menu, lobby, starting, present, stream, loop, idle, admin>>

RemoteJoined ==
  /\ \E t \in Tasks : /\ waits[t] > 0 /\ task[t].at = "done"
                      /\ waits' = [waits EXCEPT ![t] = @ - 1]
  /\ Spawn
  /\ UNCHANGED <<menu, lobby, starting, present, stream, loop, idle, admin, left, remote>>

-----------------------------------------------------------------------------
(* Button events: on_button and the handler of the controller's state. *)

\* A button event of s is next in the stream, published before the next connect
\* or disconnect was, and not dropped for the menu's state.
Heard(s) == loop.at = "listen" /\ menu = "RUNNING" /\ greet = {} /\ s \in seen

\* A trigger of a CONNECTED controller: the event loop waits for the sound RPC.
TriggerConnected(s) ==
  /\ Heard(s) /\ lobby[s] \in {"AWAY", "CONNECTED"}
  /\ lobby' = [lobby EXCEPT ![s] = "CONNECTED"] /\ LoopGoes("sound", s)
  /\ UNCHANGED <<menu, starting, present, stream, waits, task, current, idle, admin,
                 left, stranded, remote>>

\* transition_to(READY), whatever became of the table during the RPC, and
\* ReadyHandler.on_enter: the last one makes the loop sleep before the start.
SoundPlayed ==
  LET now == [lobby EXCEPT ![loop.serial] = "READY"]
      all == Cardinality({s \in Serials : now[s] = "READY"}) >= 2
             /\ \A s \in Serials : now[s] \in {"AWAY", "READY"}
  IN
  /\ loop.at = "sound" /\ lobby' = now
  /\ IF all /\ ~starting THEN starting' = TRUE /\ LoopGoes("feedback", loop.serial)
                         ELSE UNCHANGED starting /\ LoopGoes("listen", None)
  /\ UNCHANGED <<menu, present, stream, waits, task, current, idle, admin, left,
                 stranded, remote>>

\* The feedback delay is over; whether all are still ready is not asked.
FeedbackOver ==
  /\ loop.at = "feedback" /\ LoopStarts
  /\ UNCHANGED <<menu, lobby, starting, present, stream, waits, idle, admin, left, remote>>

\* ReadyHandler._handle_trigger.
TriggerReady(s) ==
  /\ Heard(s) /\ lobby[s] = "READY" /\ AllReady /\ ~starting
  /\ starting' = TRUE /\ LoopStarts
  /\ UNCHANGED <<menu, lobby, present, stream, waits, idle, admin, left, remote>>

\* ReadyHandler._handle_move.
MoveReady(s) ==
  /\ Heard(s) /\ lobby[s] = "READY"
  /\ lobby' = [lobby EXCEPT ![s] = "CONNECTED"]
  /\ UNCHANGED <<menu, starting, present, stream, loop, waits, task, current, idle,
                 admin, left, stranded, remote>>

\* ConnectedHandler._handle_select reads a settings attribute the state manager
\* has not: the error ends the stream's connection.
SelectConnected(s) ==
  /\ Heard(s) /\ lobby[s] \in {"AWAY", "CONNECTED"} /\ Disturb("whim")
  /\ lobby' = [lobby EXCEPT ![s] = "CONNECTED"] /\ LoopLeaves("connect")
  /\ UNCHANGED <<menu, starting, present, waits, task, current, idle, admin,
                 stranded, remote>>

\* Any button of a controller the table does not know, or of one in ADMIN that
\* admin mode has left behind (its entry time is zero, hence long ago).
AnyButton(s) ==
  /\ Heard(s)
  /\ \/ lobby[s] = "AWAY"
     \/ lobby[s] = "ADMIN" /\ admin.serial = None
  /\ lobby' = [lobby EXCEPT ![s] = "CONNECTED"]
  /\ UNCHANGED <<menu, starting, present, stream, loop, waits, task, current, idle,
                 admin, left, stranded, remote>>

\* Mutant: only the controller whose button it was wakes.
WakeOne(s) ==
  /\ Heard(s) /\ lobby[s] = "IDLE"
  /\ lobby' = [lobby EXCEPT ![s] = "CONNECTED"]
  /\ idle' = [idle EXCEPT !.active = FALSE]
  /\ UNCHANGED <<menu, starting, present, stream, loop, waits, task, current, admin,
                 left, stranded, remote>>

\* IdleHandler.handle_button, with wake_all.
Wake(s) ==
  /\ Heard(s) /\ lobby[s] = "IDLE"
  /\ lobby' = IF idle.active THEN Reconnected({"IDLE"}) ELSE [lobby EXCEPT ![s] = "CONNECTED"]
  /\ idle' = [idle EXCEPT !.active = FALSE]
  /\ UNCHANGED <<menu, starting, present, stream, loop, waits, task, current, admin,
                 left, stranded, remote>>

\* _enter_idle_mode: no button for long, so neither is the loop amid a press nor
\* a start under way that one asked for (nor, here, one that an RPC asked for).
EnterIdle ==
  /\ idle.runs /\ ~idle.active /\ loop.at \in {"off", "connect", "listen"} /\ Disturb("whim")
  /\ \A t \in Tasks : task[t].at # "sleep"
  /\ \E s \in Serials : lobby[s] = "CONNECTED"
  /\ lobby' = [s \in Serials |-> IF lobby[s] = "CONNECTED" THEN "IDLE" ELSE lobby[s]]
  /\ idle' = [idle EXCEPT !.active = TRUE]
  /\ UNCHANGED <<menu, starting, present, stream, loop, waits, task, current, admin,
                 stranded, remote>>

-----------------------------------------------------------------------------
(* Admin mode. *)

\* The four face buttons: once per combo, until one of them is let go.
Combo(s) ==
  /\ Heard(s) /\ ~admin.combo /\ lobby[s] # "ADMIN" /\ Disturb("whim")
  /\ lobby' = [lobby EXCEPT ![s] = "ADMIN"]
  /\ admin' = [admin EXCEPT !.serial = s, !.timer = s, !.combo = TRUE]
  /\ UNCHANGED <<menu, starting, present, stream, loop, waits, task, current, idle,
                 stranded, remote>>

ComboReleased ==
  /\ loop.at = "listen" /\ menu = "RUNNING" /\ admin.combo
  /\ admin' = [admin EXCEPT !.combo = FALSE]
  /\ UNCHANGED <<menu, lobby, starting, present, stream, loop, waits, task, current,
                 idle, left, stranded, remote>>

\* The PS button leaves admin mode; exit() does not ask for whom it is active.
LeaveAdmin(s) ==
  /\ Heard(s) /\ lobby[s] = "ADMIN" /\ admin.serial # None
  /\ lobby' = [lobby EXCEPT ![s] = "CONNECTED"] /\ admin' = AdminExits
  /\ UNCHANGED <<menu, starting, present, stream, loop, waits, task, current, idle,
                 left, stranded, remote>>

\* A page of admin mode has its new value announced: the event loop waits for
\* the sound RPC, whose failure is only logged.
Announces(s) ==
  /\ Heard(s) /\ lobby[s] = "ADMIN" /\ admin.serial # None /\ LoopGoes("voice", None)
  /\ UNCHANGED <<menu, lobby, starting, present, stream, waits, task, current, idle,
                 admin, left, stranded, remote>>

\* Circle: the next sensitivity.
ChangeSensitivity(s) == Announces(s)

\* Square: the instructions on or off.
ToggleInstructions(s) == Announces(s)

\* Select and start, for an option whose values have voices.
ChangeValue(s) == Announces(s)

Announced ==
  /\ loop.at = "voice" /\ LoopGoes("listen", None)
  /\ UNCHANGED <<menu, lobby, starting, present, stream, waits, task, current, idle,
                 admin, left, stranded, remote>>

\* _start_trigger_hold_tracking: the task for the last trigger goes.
HoldTrigger(s) ==
  /\ Heard(s) /\ lobby[s] = "ADMIN" /\ admin.serial # None
  /\ admin' = [admin EXCEPT !.hold = s, !.fired = FALSE]
  /\ UNCHANGED <<menu, lobby, starting, present, stream, loop, waits, task, current,
                 idle, left, stranded, remote>>

\* Mutant: letting go forgets the trigger, and its force start goes on.
ReleaseNoFire(s) ==
  /\ Heard(s) /\ lobby[s] = "ADMIN" /\ admin.serial = s /\ admin.hold # None
  /\ admin' = [admin EXCEPT !.hold = None]
  /\ UNCHANGED <<menu, lobby, starting, present, stream, loop, waits, task, current,
                 idle, left, stranded, remote>>

\* Letting the trigger go cancels the hold task, wherever it is.
ReleaseTrigger(s) ==
  /\ Heard(s) /\ lobby[s] = "ADMIN" /\ admin.serial = s /\ admin.hold # None
  /\ admin' = [admin EXCEPT !.hold = None, !.fired = FALSE]
  /\ UNCHANGED <<menu, lobby, starting, present, stream, loop, waits, task, current,
                 idle, left, stranded, remote>>

\* timeout_exit after a minute: it asks the handler, not the table, whether the
\* controller is in ADMIN.
AdminTimeout ==
  LET s == admin.timer IN
  /\ s # None
  /\ IF admin.serial = s /\ lobby[s] \notin {"AWAY", "CONNECTED"}
     THEN /\ lobby' = [lobby EXCEPT ![s] = "CONNECTED"]
          /\ admin' = IF lobby[s] = "ADMIN" THEN AdminExits ELSE [admin EXCEPT !.timer = None]
     ELSE admin' = [admin EXCEPT !.timer = None] /\ UNCHANGED lobby
  /\ UNCHANGED <<menu, starting, present, stream, loop, waits, task, current, idle,
                 left, stranded, remote>>

\* The trigger was held for three seconds: handle_force_start up to its sleep.
HoldOver ==
  /\ admin.hold # None /\ ~admin.fired
  /\ admin' = IF admin.serial = admin.hold THEN [AdminExits EXCEPT !.fired = TRUE]
                                           ELSE [admin EXCEPT !.hold = None]
  /\ UNCHANGED <<menu, lobby, starting, present, stream, loop, waits, task, current,
                 idle, left, stranded, remote>>

\* The rest: the menu is told that a game starts, and game_requested is
\* published; no game is started.
ForceStart ==
  /\ admin.fired /\ menu' = "GAME_STARTING"
  /\ admin' = [admin EXCEPT !.hold = None, !.fired = FALSE]
  /\ stranded' = stranded \cup {"forced"}
  /\ UNCHANGED <<lobby, starting, present, stream, loop, waits, task, current, idle,
                 left, remote>>

-----------------------------------------------------------------------------
(* The lifecycle task t: _run_game_lifecycle. *)

TaskGoes(t, at) == task' = [task EXCEPT ![t].at = at]

\* The brief delay is over; the ready ones are counted now, and without two of
\* them the task returns and leaves everything as it is.
Slept(t) ==
  /\ task[t].at = "sleep" /\ ~Joining
  /\ IF Cardinality(Ready) < 2
     THEN TaskGoes(t, "done") /\ UNCHANGED idle
     ELSE TaskGoes(t, "music") /\ idle' = [runs |-> FALSE, active |-> FALSE]
  /\ UNCHANGED <<menu, lobby, starting, present, stream, loop, waits, current, admin,
                 left, stranded, remote>>

\* The music has stopped: ControllerEventLoop.stop cancels the event loop.
MusicStopped(t) ==
  /\ task[t].at = "music" /\ ~Joining
  /\ LoopLeaves("off") /\ TaskGoes(t, "stopping")
  /\ UNCHANGED <<menu, lobby, starting, present, waits, current, idle, admin,
                 left, stranded, remote>>

\* The event loop has ended: StreamGameEvents is called with the start_config.
LoopStopped(t) ==
  /\ task[t].at = "stopping" /\ TaskGoes(t, "stream") /\ menu' = "GAME_STARTING"
  /\ UNCHANGED <<lobby, starting, present, stream, loop, waits, current, idle, admin,
                 left, stranded, remote>>

\* Mutant: the lobby restarts without its event loop.
RestartDeaf(t) ==
  /\ menu' = "RUNNING" /\ task' = [task EXCEPT ![t] = [NoTask EXCEPT !.at = "waiting"]]
  /\ UNCHANGED loop

\* _restart_lobby up to wait_for_connection.
RestartLobby(t) ==
  /\ menu' = "RUNNING" /\ task' = [task EXCEPT ![t] = [NoTask EXCEPT !.at = "waiting"]]
  /\ IF loop.at = "off" THEN LoopGoes("connect", None) ELSE UNCHANGED loop

\* The first event: the game starts, and nobody is ready any more.
FirstEvent(t) ==
  /\ task[t].at = "stream" /\ ~task[t].started
  /\ task' = [task EXCEPT ![t].started = TRUE] /\ lobby' = Reconnected({"READY"})
  /\ UNCHANGED <<menu, starting, present, stream, loop, waits, current, idle, admin,
                 left, stranded, remote>>

\* Mutant: a refused start leaves the lobby as it is.
StartRefusedQuietly(t) ==
  /\ task[t].at = "stream" /\ ~task[t].started /\ TaskGoes(t, "done")
  /\ UNCHANGED <<menu, lobby, starting, present, stream, loop, waits, current, idle, admin,
                 left, stranded, remote>>

\* Or it is a game_start_error.
StartRefused(t) ==
  /\ task[t].at = "stream" /\ ~task[t].started /\ RestartLobby(t)
  /\ UNCHANGED <<lobby, starting, present, stream, waits, current, idle, admin, left,
                 stranded, remote>>

\* An ending event.
GameEnded(t) ==
  /\ task[t].at = "stream" /\ task[t].started /\ RestartLobby(t)
  /\ UNCHANGED <<lobby, starting, present, stream, waits, current, idle, admin, left,
                 stranded, remote>>

\* The stream ends or fails, with the game still running or not.  That it had
\* started is lost with the error, and so _check_retry_eligible raises it again
\* and the reconnection after it is never reached.
StreamGivesUp(t) ==
  /\ task[t].at = "stream" /\ RestartLobby(t)
  /\ UNCHANGED <<lobby, starting, present, stream, waits, current, idle, admin, left,
                 stranded, remote>>

\* Connected, or five seconds later: StateManager.reset.
ResetLobby(t) ==
  /\ task[t].at = "waiting" /\ ~Joining /\ TaskGoes(t, "lights")
  /\ lobby' = Reconnected(States \ {"AWAY"}) /\ starting' = FALSE
  /\ UNCHANGED <<menu, present, stream, loop, waits, current, idle, admin, left,
                 stranded, remote>>

\* IdleMonitor.start does nothing while its task runs.
IdleStarts == idle' = IF idle.runs THEN idle ELSE [runs |-> TRUE, active |-> FALSE]

\* The lobby music plays again, and the task is done.
LobbyBack(t) ==
  /\ task[t].at = "lights" /\ ~Joining /\ TaskGoes(t, "done") /\ IdleStarts
  /\ UNCHANGED <<menu, lobby, starting, present, stream, loop, waits, current, admin,
                 left, stranded, remote>>

-----------------------------------------------------------------------------
(* The other RPCs. *)

StartMenu ==
  /\ menu # "RUNNING" /\ menu' = "RUNNING" /\ Disturb("call")
  /\ lobby' = Reconnected({"READY"}) /\ IdleStarts
  /\ UNCHANGED <<starting, present, stream, loop, waits, task, current, admin, stranded,
                 remote>>

StopMenu ==
  /\ menu # "STOPPED" /\ menu' = "STOPPED" /\ Disturb("call")
  /\ lobby' = [s \in Serials |-> "AWAY"] /\ idle' = [runs |-> FALSE, active |-> FALSE]
  /\ UNCHANGED <<starting, present, stream, loop, waits, task, current, admin, stranded,
                 remote>>

\* ProcessInput with reset_menu.
ResetMenu ==
  /\ menu = "GAME_STARTING" /\ menu' = "RUNNING" /\ Disturb("call")
  /\ UNCHANGED <<lobby, starting, present, stream, loop, waits, task, current, idle,
                 admin, stranded, remote>>

-----------------------------------------------------------------------------
LoopStep == Connect \/ SoundPlayed \/ FeedbackOver \/ LoopJoined \/ Announced

Button(s) ==
  \/ TriggerConnected(s) \/ TriggerReady(s) \/ MoveReady(s) \/ SelectConnected(s)
  \/ AnyButton(s) \/ Wake(s) \/ Combo(s) \/ LeaveAdmin(s) \/ HoldTrigger(s)
  \/ ReleaseTrigger(s) \/ ChangeSensitivity(s) \/ ToggleInstructions(s)
  \/ ChangeValue(s)

\* What a lifecycle does by itself, if its game or its stream ends some day.
Lifecycle(t) ==
  \/ Slept(t) \/ MusicStopped(t) \/ LoopStopped(t) \/ FirstEvent(t) \/ StartRefused(t)
  \/ GameEnded(t) \/ StreamGivesUp(t) \/ ResetLobby(t) \/ LobbyBack(t)

Next ==
  \/ LoopStep \/ RemoteJoined \/ RemoteStart \/ StreamBreaks \/ ComboReleased
  \/ AdminTimeout \/ HoldOver \/ ForceStart \/ EnterIdle \/ StartMenu \/ StopMenu \/ ResetMenu
  \/ ReceiveNews
  \/ \E s \in Serials : ComeOrGo(s) \/ SetUpFails(s) \/ ReceiveGreeting(s) \/ Button(s)
  \/ \E t \in Tasks : Lifecycle(t)

Spec == Init /\ [][Next]_vars

\* The event loop and the lifecycle wait for timers, answers and, at last, for
\* the game, and nothing else takes their turn from them.
FairSpec ==
  /\ Spec /\ WF_vars(LoopStep) /\ WF_vars(RemoteJoined) /\ WF_vars(ForceStart)
  /\ \A t \in Tasks : WF_vars(Lifecycle(t))

-----------------------------------------------------------------------------
\* Every variable has its type; a force start that goes on has its trigger held.
TypeOK ==
  /\ menu \in {"STOPPED", "RUNNING", "GAME_STARTING"}
  /\ lobby \in [Serials -> States] /\ starting \in BOOLEAN
  /\ present \subseteq Serials /\ greet \subseteq seen /\ seen \subseteq Serials
  /\ news \in Seq(Events) /\ ghosts \subseteq Serials
  /\ loop \in [at : LoopAt, serial : Serials \cup {None}]
  /\ waits \in [Tasks -> Nat]
  /\ task \in [Tasks -> Courses]
  /\ current \in Tasks \cup {None}
  /\ idle \in [runs : BOOLEAN, active : BOOLEAN]
  /\ admin \in Admins
  /\ left \in [Kinds -> Nat]
  /\ stranded \subseteq {"forced", "cancelled"} /\ remote \in BOOLEAN

\* A menu that does not listen to its controllers has a lifecycle that will
\* restart the event loop, and one in GAME_STARTING has one that will leave it,
\* unless a force start or a second start by RPC stranded it.
SomebodyBringsTheLobbyBack ==
  /\ loop.at = "off" => stranded # {} \/ \E t \in Tasks : task[t].at \in Away
  /\ menu = "GAME_STARTING" => stranded # {} \/ \E t \in Tasks : task[t].at \in Away

\* The buttons alone never have two lifecycles alive: _game_start_in_progress
\* and the cancelling of the last lifecycle keep them apart.
ControllersStartOneGame == remote \/ Cardinality(Live) <= 1

\* A controller the menu shows and the controller manager does not track has
\* its disconnect still in the queue, or that was dropped (or never was one) and
\* no event with a list of controllers has been read since: reconciliation
\* removes it with the first such list that was captured after it left.
GhostsDoNotStay ==
  \/ loop.at \in {"off", "connect"}
  \/ \A g \in InLobby \ present :
       g \in ghosts \/ \E i \in DOMAIN news : news[i].serial = g

\* While the idle monitor runs, a controller asleep has idle mode active, so
\* that the first button wakes all of them.  A start by RPC may take the lobby
\* away from under controllers asleep, and StartMenu then forgets them.
SleepersWakeTogether ==
  remote \/ (idle.runs /\ ~idle.active => \A s \in Serials : lobby[s] # "IDLE")

\* A menu in GAME_STARTING opens again when the game is over or its stream ends,
\* unless one of the two accidents stranded it: every other path through
\* _run_game_event_stream restarts the lobby.
LobbyComesBack == menu = "GAME_STARTING" ~> menu # "GAME_STARTING" \/ stranded # {}

\* When all connected controllers are ready, and there are at least two, the
\* game starts (menu README.md:109).
AllReadyStartsGame == menu = "RUNNING" /\ AllReady ~> menu # "RUNNING" \/ ~AllReady
=============================================================================
