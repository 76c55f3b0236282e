------------------------------- MODULE Feedback -------------------------------
(***************************************************************************)
(* The controller manager's lights: the FeedbackManager, the tasks that    *)
(* read the commands of the button stream and of the gameplay stream, the  *)
(* effect tasks they create, and the discovery loop that forgets a         *)
(* controller and gives it its colour back when it returns.                *)
(*                                                                         *)
(* Everything runs in one asyncio loop, and setting a light never          *)
(* suspends: the back end only queues the output.  So effect_lock is never *)
(* contended, and a step here is what runs up to the next suspension: the  *)
(* wait for a cancelled effect, or the sleep of a death.                   *)
(*                                                                         *)
(* Abstracted: an effect's frames show one colour, named for the kind of   *)
(* effect; the warning stands for the winner's rainbow and the battery     *)
(* display, which restore as it does; a broadcast is one command for each  *)
(* controller; the motors are left out, and so are NONE, RESPAWN and       *)
(* LOW_BATTERY, which nobody sends.                                        *)
(***************************************************************************)
EXTENDS Naturals, FiniteSets

CONSTANTS Serials,     \* the controllers
          Readers,     \* the streams that may be open at one time
          Colours,     \* what the menu and the games send as base colours
          Tasks,       \* names for the effect tasks alive at one time
          None,        \* no colour, no task
          MaxCommands  \* bound on the commands, streams and disconnects

VARIABLES
  tracked,  \* tracked_controllers
  shown,    \* the back end's _led_colors
  base,     \* base_colors
  entry,    \* active_effects: the task, None for the placeholder, and effect_type
  active,   \* the back end's _effect_active
  task,     \* the effect tasks
  reader,   \* the tasks that read commands, and the command each is amid
  left      \* commands left

vars == <<tracked, shown, base, entry, active, task, reader, left>>

\* GAME_EFFECT_*: the kinds that play an effect with play_effect_with_restore.
Played   == {"warning", "tint", "charge", "enter"}
Kinds    == Played \cup {"countdown", "death"}
Shades   == Kinds \cup Colours \cup {"black", "white", "red", None}
NoTask   == [at |-> "done", serial |-> None, kind |-> None, restores |-> FALSE]
NoEntry  == [here |-> FALSE, task |-> None, kind |-> None]
Free     == [at |-> "free", serial |-> None, kind |-> None, restores |-> FALSE, for |-> None]

Live(t)      == task[t].at # "done"
\* A name may be used again when nobody waits for the task that had it.
Unused       == {t \in Tasks : ~Live(t) /\ \A r \in Readers : reader[r].for # t}
EffectsOn(s) == {t \in Tasks : Live(t) /\ task[t].serial = s}

Init ==
  /\ tracked = Serials /\ base = [s \in Serials |-> None] /\ shown = base
  /\ entry = [s \in Serials |-> NoEntry] /\ active = {}
  /\ task = [t \in Tasks |-> NoTask]
  /\ reader = [r \in Readers |-> [Free EXCEPT !.at = "closed"]]
  /\ left = MaxCommands

Command == left > 0 /\ left' = left - 1

\* A light is set for a controller that is tracked; the others keep none.
Shows(s, c) == shown' = IF s \in tracked THEN [shown EXCEPT ![s] = c] ELSE shown

\* Cancelling an effect: one that has not run yet never runs, finally included.
Cancelled(t) ==
  [task EXCEPT ![t] = IF @.at = "new" THEN NoTask ELSE [@ EXCEPT !.at = "cancelling"]]

-----------------------------------------------------------------------------
(* The effect tasks. *)

\* The effect's first or next frame.
Frame(t) ==
  /\ task[t].at \in {"new", "running"}
  /\ task' = [task EXCEPT ![t].at = "running"]
  /\ Shows(task[t].serial, task[t].kind)
  /\ active' = IF task[t].kind = "countdown" /\ task[t].at = "new"
               THEN active \cup {task[t].serial} ELSE active
  /\ UNCHANGED <<tracked, base, entry, reader, left>>

\* Mutant: the entry stays until the next effect.
EndKeepsEntry(t) ==
  LET s == task[t].serial IN
  /\ task[t].at \in {"running", "cancelling"}
  /\ task' = [task EXCEPT ![t] = NoTask] /\ active' = active \ {s}
  /\ Shows(s, IF task[t].restores /\ base[s] # None THEN base[s] ELSE task[t].kind)
  /\ UNCHANGED <<tracked, base, entry, reader, left>>

\* Over or cancelled, the finally block: whatever entry there is goes, and the
\* base colour of this moment comes back.
End(t) ==
  LET s == task[t].serial IN
  /\ task[t].at \in {"running", "cancelling"}
  /\ task' = [task EXCEPT ![t] = NoTask] /\ active' = active \ {s}
  /\ entry' = [entry EXCEPT ![s] = NoEntry]
  /\ Shows(s, IF task[t].restores /\ base[s] # None THEN base[s] ELSE task[t].kind)
  /\ UNCHANGED <<tracked, base, reader, left>>

-----------------------------------------------------------------------------
(* What a reader does with a command, from one suspension to the next. *)

\* The reader waits for the effect t, to go on with at.
Waits(r, at, s, k, restores, t) ==
  reader' = [reader EXCEPT ![r] = [at |-> at, serial |-> s, kind |-> k, restores |-> restores,
                                   for |-> t]]

\* Names are alike, so that one of them will do.
AName(names) == {t \in names : t = CHOOSE x \in names : TRUE}

\* A new task for s takes the entry; one of the names nobody uses is its name.
Launch(s, k, restores, names) ==
  \E t \in AName(names) :
    /\ task' = [task EXCEPT ![t] = [at |-> "new", serial |-> s, kind |-> k,
                                    restores |-> restores]]
    /\ entry' = [entry EXCEPT ![s] = [here |-> TRUE, task |-> t, kind |-> k]]

\* play_effect_with_restore: the effect that has the entry is cancelled, and
\* the reader waits for it; without one, or with the placeholder, it does not.
Play(r, s, k, restores) ==
  /\ active' = IF entry[s].task = None THEN active \cup {s} ELSE active
  /\ IF entry[s].task = None
     THEN Launch(s, k, restores, Unused) /\ reader' = [reader EXCEPT ![r] = Free]
     ELSE /\ task' = Cancelled(entry[s].task) /\ entry' = [entry EXCEPT ![s] = NoEntry]
          /\ Waits(r, "play", s, k, restores, entry[s].task)

\* Whether the effect gives back the base colour when it is over: PULSE and
\* FLASH only if there is one now, FORCE_START_CHARGE never.
Restores(s, k) == IF k = "tint" THEN base[s] # None ELSE k # "charge"

\* Mutant: a warning restores the base colour only if there is one already.
PlayEffectIfKnown(r, s, k) ==
  /\ reader[r].at = "free" /\ s \in tracked /\ Command
  /\ base' = IF k = "enter" THEN [base EXCEPT ![s] = "white"] ELSE base
  /\ Play(r, s, k, k # "charge" /\ base[s] # None)
  /\ UNCHANGED <<tracked, shown>>

\* PLAYER_WARNING and its like, PULSE and FLASH, FORCE_START_CHARGE, and
\* ADMIN_ENTER, which changes the base colour first.
PlayEffect(r, s, k) ==
  /\ reader[r].at = "free" /\ s \in tracked /\ Command
  /\ base' = IF k = "enter" THEN [base EXCEPT ![s] = "white"] ELSE base
  /\ Play(r, s, k, Restores(s, k))
  /\ UNCHANGED <<tracked, shown>>

\* The cancelled effect has ended: the new one takes the entry, whoever has it.
PlayGoesOn(r) ==
  LET s == reader[r].serial IN
  /\ reader[r].at = "play" /\ ~Live(reader[r].for)
  /\ Launch(s, reader[r].kind, reader[r].restores, Unused \cup {reader[r].for})
  /\ active' = active \cup {s} /\ reader' = [reader EXCEPT ![r] = Free]
  /\ base' = IF reader[r].kind = "death" THEN [base EXCEPT ![s] = "black"] ELSE base
  /\ UNCHANGED <<tracked, shown, left>>

\* COUNTDOWN takes the entry and leaves the effect that had it running.
Countdown(r, s) ==
  /\ reader[r].at = "free" /\ s \in tracked /\ Command
  /\ Launch(s, "countdown", base[s] # None, Unused)
  /\ UNCHANGED <<tracked, shown, base, active, reader>>

\* RUMBLE and ADMIN_EXIT drop the entry, not the effect; ADMIN_EXIT shows the
\* base colour.
DropEntry(r, s) ==
  /\ reader[r].at = "free" /\ s \in tracked /\ Command
  /\ entry' = [entry EXCEPT ![s] = NoEntry]
  /\ \/ UNCHANGED shown
     \/ base[s] # None /\ Shows(s, base[s])
  /\ UNCHANGED <<tracked, base, active, task, reader>>

\* PLAYER_DEATH: cancel_effect, then red for 0.3 s, asleep in the reader.
Death(r, s) ==
  /\ reader[r].at = "free" /\ s \in tracked /\ Command
  /\ entry' = [entry EXCEPT ![s] = NoEntry] /\ active' = active \ {s}
  /\ IF entry[s].task = None
     THEN Waits(r, "red", s, "death", TRUE, None) /\ Shows(s, "red") /\ UNCHANGED task
     ELSE /\ Waits(r, "cancel", s, "death", TRUE, entry[s].task)
          /\ task' = Cancelled(entry[s].task) /\ UNCHANGED shown
  /\ UNCHANGED <<tracked, base>>

DeathGoesOn(r) ==
  /\ reader[r].at = "cancel" /\ ~Live(reader[r].for)
  /\ Waits(r, "red", reader[r].serial, "death", TRUE, None) /\ Shows(reader[r].serial, "red")
  /\ UNCHANGED <<tracked, base, entry, active, task, left>>

\* Mutant: the dead stay red.
RedStays(r) ==
  LET s == reader[r].serial IN
  /\ reader[r].at = "red" /\ Play(r, s, "death", TRUE)
  /\ base' = IF entry[s].task = None THEN [base EXCEPT ![s] = "red"] ELSE base
  /\ UNCHANGED <<tracked, shown, left>>

\* The fade to black begins, and black is the base colour from now on.
RedOver(r) ==
  LET s == reader[r].serial IN
  /\ reader[r].at = "red" /\ Play(r, s, "death", TRUE)
  /\ base' = IF entry[s].task = None THEN [base EXCEPT ![s] = "black"] ELSE base
  /\ UNCHANGED <<tracked, shown, left>>

\* The locked part of apply_base_color: an effect that has the entry restores
\* the colour when it ends.
Store(s, c) ==
  /\ base' = [base EXCEPT ![s] = c]
  /\ IF entry[s].here THEN UNCHANGED shown ELSE Shows(s, c)

\* apply_base_color: only FORCE_START_CHARGE is cancelled for it.
BaseColour(r, s, c) ==
  /\ reader[r].at = "free" /\ s \in tracked /\ Command
  /\ IF entry[s].kind = "charge"
     THEN /\ Waits(r, "base", s, c, FALSE, entry[s].task) /\ task' = Cancelled(entry[s].task)
          /\ entry' = [entry EXCEPT ![s] = NoEntry] /\ active' = active \ {s}
          /\ UNCHANGED <<base, shown>>
     ELSE Store(s, c) /\ UNCHANGED <<entry, active, task, reader>>
  /\ UNCHANGED tracked

BaseGoesOn(r) ==
  /\ reader[r].at = "base" /\ ~Live(reader[r].for)
  /\ Store(reader[r].serial, reader[r].kind) /\ reader' = [reader EXCEPT ![r] = Free]
  /\ UNCHANGED <<tracked, entry, active, task, left>>

\* The first message of a gameplay stream: no effect and no lock is asked.
Configure(r, s, c) ==
  /\ reader[r].at = "free" /\ Command
  /\ base' = [base EXCEPT ![s] = c] /\ Shows(s, c)
  /\ UNCHANGED <<tracked, entry, active, task, reader>>

-----------------------------------------------------------------------------
(* The streams and the controllers. *)

OpenStream(r) ==
  /\ reader[r].at = "closed" /\ reader' = [reader EXCEPT ![r] = Free]
  /\ UNCHANGED <<tracked, shown, base, entry, active, task, left>>

\* The stream ends and its reader is cancelled.  A reader that waits for an
\* effect swallows that, and ends after the command; one asleep dies there.
CloseStream(r) ==
  /\ reader[r].at \in {"free", "red"} /\ Command
  /\ reader' = [reader EXCEPT ![r] = [Free EXCEPT !.at = "closed"]]
  /\ UNCHANGED <<tracked, shown, base, entry, active, task>>

\* Discovery misses the controller: the back end drops its output state; the
\* base colour, the entry and the effect stay.
Disconnect(s) ==
  /\ s \in tracked /\ Command /\ tracked' = tracked \ {s}
  /\ shown' = [shown EXCEPT ![s] = None] /\ active' = active \ {s}
  /\ UNCHANGED <<base, entry, task, reader>>

\* _discover_controllers finds it again, and restores its base colour.
Reconnect(s) ==
  /\ s \notin tracked /\ tracked' = tracked \cup {s}
  /\ shown' = [shown EXCEPT ![s] = base[s]]
  /\ UNCHANGED <<base, entry, active, task, reader, left>>

-----------------------------------------------------------------------------
ReaderGoesOn(r) == PlayGoesOn(r) \/ DeathGoesOn(r) \/ RedOver(r) \/ BaseGoesOn(r)

Message(r, s) ==
  \/ \E k \in Played : PlayEffect(r, s, k)
  \/ Countdown(r, s) \/ DropEntry(r, s) \/ Death(r, s)
  \/ \E c \in Colours : BaseColour(r, s, c) \/ Configure(r, s, c)

Next ==
  \/ \E t \in Tasks : Frame(t) \/ End(t)
  \/ \E r \in Readers : ReaderGoesOn(r) \/ OpenStream(r) \/ CloseStream(r)
  \/ \E r \in Readers, s \in Serials : Message(r, s)
  \/ \E s \in Serials : Disconnect(s) \/ Reconnect(s)

Spec == Init /\ [][Next]_vars

-----------------------------------------------------------------------------
\* Every variable has its type.
TypeOK ==
  /\ tracked \subseteq Serials /\ active \subseteq Serials
  /\ shown \in [Serials -> Shades]
  /\ base \in [Serials -> Colours \cup {"black", "white", None}]
  /\ entry \in [Serials -> [here : BOOLEAN, task : Tasks \cup {None}, kind : Kinds \cup {None}]]
  /\ task \in [Tasks -> [at : {"done", "new", "running", "cancelling"},
                         serial : Serials \cup {None}, kind : Kinds \cup {None},
                         restores : BOOLEAN]]
  /\ reader \in [Readers -> [at : {"closed", "free", "play", "cancel", "red", "base"},
                             serial : Serials \cup {None}, kind : Kinds \cup Colours \cup {None},
                             restores : BOOLEAN, for : Tasks \cup {None}]]
  /\ left \in 0..MaxCommands

\* What an effect leaves behind when nothing restores the base colour: the end
\* of a charge, an effect begun before there was a base colour, the red of a
\* death whose stream ended.
Leftovers == {"charge", "tint", "countdown", "red"}

Quiet(s) == EffectsOn(s) = {} /\ \A r \in Readers : reader[r].serial # s

\* When no effect runs on a controller and no command is amid, it shows its
\* base colour: no effect, however it was cancelled, overtaken or orphaned, and
\* no disconnect loses a colour that was set meanwhile.
ColoursSettle ==
  \A s \in tracked :
    Quiet(s) /\ base[s] # None => shown[s] = base[s] \/ shown[s] \in Leftovers

\* Nothing is held for good: an entry, which keeps a base colour back, has an
\* effect that runs and will let it go; and the LED refresh skips a controller
\* only while an effect runs there or is about to.
EffectsLetGo ==
  /\ \A s \in Serials : entry[s].here => Live(entry[s].task)
  /\ \A s \in active : EffectsOn(s) # {} \/ \E r \in Readers : reader[r].serial = s
=============================================================================
