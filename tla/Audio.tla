-------------------------------- MODULE Audio --------------------------------
(***************************************************************************)
(* The audio service: the sound channels with their play threads, and the  *)
(* music player, whose songs a process of its own plays.                   *)
(*                                                                         *)
(* Who runs beside whom: the asyncio loop, which handles PlaySound,        *)
(* PlayMusic and StopMusic without suspending and runs the tempo           *)
(* transitions; the threads that handle ChangeTempo; one thread per sound; *)
(* the thread that hears of changed flags; and the audio process, which    *)
(* shares only the player's Values with the rest.                          *)
(*                                                                         *)
(* Abstracted: tempos (what is kept is for which track one was asked, or   *)
(* None if it was asked for no track or for one that stopped meanwhile),   *)
(* the volume, and samples; a pattern stands for its files, and some       *)
(* patterns have none that can be played.  A service that is started with  *)
(* play_audio off has neither channels nor a player, whatever the flag     *)
(* says later; this is one that was started with it on.                    *)
(***************************************************************************)
EXTENDS Naturals, FiniteSets

CONSTANTS Channels,    \* the sound channels, numbered
          Voices,      \* names for the play threads alive at one time
          Patterns,    \* the patterns of PlayMusic
          Playable,    \* those with a file that can be decoded
          Requests,    \* the ChangeTempo calls underway at one time
          Fades,       \* names for the transitions alive at one time
          None,
          MaxCalls,    \* bound on the calls
          MaxCrashes   \* bound on the errors of the audio process

VARIABLES
  enabled,    \* audio_enabled
  muting,     \* the flag's thread is about to stop the music
  channel,    \* the channels: playing, priority, and history: robbed of a sound
  voice,      \* the play threads
  loop,       \* the call the asyncio loop is in the middle of
  player,     \* MusicPlayer: _stop_proc, _song_array, _generation, _track_id, _ratio
  transition, \* _transition_task
  fade,       \* the transition tasks
  request,    \* the ChangeTempo calls
  proc,       \* the audio process
  calls, crashes \* calls and errors left

soundVars == <<channel, voice>>
tempoVars == <<transition, fade, request>>
audioVars == <<enabled, muting, soundVars, loop, player, tempoVars, proc, calls, crashes>>

\* Names are alike, so that one that is not in use will do.
AName(S)   == {x \in S : x = CHOOSE y \in S : TRUE}
Lowest(S)  == CHOOSE x \in S : \A y \in S : x <= y
Priorities == 0..3
Critical   == 3
NoFade     == [at |-> "done", track |-> None]
NoRequest  == [at |-> "done", track |-> None, for |-> None]
Free       == [at |-> "idle", what |-> None, priority |-> 0]
NewProcess == [at |-> "head", song |-> None, loaded |-> None, gen |-> None, plays |-> None]

\* A name is used again when no ChangeTempo waits for the task that had it.
UnusedFades == {f \in Fades : fade[f].at = "done" /\ \A q \in Requests : request[q].for # f}

Init ==
  /\ enabled = TRUE /\ muting = FALSE /\ loop = Free
  /\ channel = [c \in Channels |-> [busy |-> FALSE, priority |-> 0, robbed |-> FALSE]]
  /\ voice = [v \in Voices |-> [at |-> "done", on |-> None]]
  /\ player = [stopped |-> TRUE, pattern |-> None, gen |-> 0, track |-> None, ratio |-> None]
  /\ transition = None /\ fade = [f \in Fades |-> NoFade]
  /\ request = [q \in Requests |-> NoRequest]
  /\ proc = NewProcess /\ calls = MaxCalls /\ crashes = MaxCrashes

Idle == loop.at = "idle"
Call == calls > 0 /\ calls' = calls - 1

-----------------------------------------------------------------------------
(* Sounds. *)

Singing(c) == {v \in Voices : voice[v].on = c}

\* _find_channel: a free channel, or for a critical sound the one that matters
\* least, if it matters less.
Found(p) ==
  LET free  == {c \in Channels : ~channel[c].busy}
      least == {c \in Channels : \A d \in Channels : channel[c].priority <= channel[d].priority}
  IN IF free # {} THEN {Lowest(free)}
     ELSE {c \in {Lowest(least)} : p = Critical /\ channel[c].priority < p}

\* PlaySound up to the look at the file: the channel's flag is cleared.
PlaySound(p) ==
  /\ Idle /\ enabled /\ Call
  /\ \E c \in Found(p) :
       /\ loop' = [at |-> "probe", what |-> c, priority |-> p]
       /\ channel' = [channel EXCEPT
            ![c].busy = FALSE, ![c].robbed = channel[c].busy \/ (@ /\ Singing(c) # {})]
  /\ UNCHANGED <<enabled, muting, voice, player, tempoVars, proc, crashes>>

\* Mutant: the flag is left to the thread, which has yet to begin.
ProbedThreadSets ==
  LET c == loop.what IN
  /\ loop.at = "probe" /\ loop' = Free
  /\ \/ /\ \E v \in AName({w \in Voices : voice[w].at = "done"}) :
             voice' = [voice EXCEPT ![v] = [at |-> "playing", on |-> c]]
        /\ channel' = [channel EXCEPT ![c].priority = loop.priority]
     \/ UNCHANGED soundVars
  /\ UNCHANGED <<enabled, muting, player, tempoVars, proc, calls, crashes>>

\* The rest of SoundChannel.play: the flag is set and a thread begins, or the
\* file cannot be read.
Probed ==
  LET c == loop.what IN
  /\ loop.at = "probe" /\ loop' = Free
  /\ \/ /\ \E v \in AName({w \in Voices : voice[w].at = "done"}) :
             voice' = [voice EXCEPT ![v] = [at |-> "playing", on |-> c]]
        /\ channel' = [channel EXCEPT ![c] =
                         [@ EXCEPT !.busy = TRUE, !.priority = loop.priority]]
     \/ UNCHANGED soundVars
  /\ UNCHANGED <<enabled, muting, player, tempoVars, proc, calls, crashes>>

\* _wait_for_playback returns: the sound is over, or its flag was clear at one
\* of the looks, 50 ms apart.
SoundEnds(v) ==
  /\ voice[v].at = "playing"
  /\ \E at \in {"over"} \cup (IF channel[voice[v].on].busy THEN {} ELSE {"cut"}) :
       voice' = [voice EXCEPT ![v].at = at]
  /\ UNCHANGED <<enabled, muting, channel, loop, player, tempoVars, proc, calls, crashes>>

\* The device is closed; the finally clause clears the flag.
ThreadEnds(v) ==
  /\ voice[v].at \in {"over", "cut"}
  /\ voice' = [voice EXCEPT ![v] = [at |-> "done", on |-> None]]
  /\ channel' = [channel EXCEPT ![voice[v].on].busy = FALSE]
  /\ UNCHANGED <<enabled, muting, loop, player, tempoVars, proc, calls, crashes>>

-----------------------------------------------------------------------------
(* Music. *)

\* play_music holds music_lock from its first step to its last.
Locked == loop.at \in {"load", "start", "go"}

\* History: a ChangeTempo that is underway will outlive its track.
Outlive == request' = [q \in Requests |-> [request[q] EXCEPT !.track = None]]

\* Mutant: the transition underway is left alone.
StopKeepsTempo ==
  /\ player' = [player EXCEPT !.stopped = TRUE, !.pattern = None, !.track = None]
  /\ Outlive /\ UNCHANGED fade

\* stop(): the process is told, and the transition underway is cancelled.
Stop ==
  /\ player' = [player EXCEPT !.stopped = TRUE, !.pattern = None, !.track = None]
  /\ fade' = IF transition # None /\ fade[transition].at # "done"
             THEN [fade EXCEPT ![transition].at = "cancelling"] ELSE fade
  /\ Outlive

\* PlayMusic has seen that audio is enabled, and waits for the lock.
PlayMusic(x) ==
  /\ Idle /\ enabled /\ Call /\ loop' = [Free EXCEPT !.at = "asked", !.what = x]
  /\ UNCHANGED <<enabled, muting, soundVars, player, tempoVars, proc, crashes>>

StopIfPlaying ==
  /\ loop.at = "asked" /\ loop' = [loop EXCEPT !.at = "load"]
  /\ IF player.stopped THEN UNCHANGED <<player, fade, request>> ELSE Stop
  /\ UNCHANGED <<enabled, muting, soundVars, transition, proc, calls, crashes>>

\* load and set_ratio: the tempo belongs to the track that is about to start.
Load ==
  /\ loop.at = "load" /\ loop' = [loop EXCEPT !.at = "start"]
  /\ player' = [player EXCEPT !.pattern = loop.what, !.ratio = player.gen + 1]
  /\ UNCHANGED <<enabled, muting, soundVars, tempoVars, proc, calls, crashes>>

\* start: a dead process is replaced, and the generation tells the process
\* that there is a new track.
Start ==
  /\ loop.at = "start" /\ loop' = [loop EXCEPT !.at = "go"]
  /\ proc' = IF proc.at = "dead" THEN NewProcess ELSE proc
  /\ player' = [player EXCEPT !.gen = @ + 1, !.track = player.gen + 1]
  /\ UNCHANGED <<enabled, muting, soundVars, tempoVars, calls, crashes>>

Go ==
  /\ loop.at = "go" /\ loop' = Free /\ player' = [player EXCEPT !.stopped = FALSE]
  /\ UNCHANGED <<enabled, muting, soundVars, tempoVars, proc, calls, crashes>>

StopMusic ==
  /\ Idle /\ Call /\ Stop
  /\ UNCHANGED <<enabled, muting, soundVars, loop, transition, proc, crashes>>

\* _on_flags_changed: play_audio goes off, and then the music, under the lock.
FlagChanges ==
  /\ ~muting /\ Call /\ enabled' = ~enabled /\ muting' = enabled
  /\ UNCHANGED <<soundVars, loop, player, tempoVars, proc, crashes>>

Mute ==
  /\ muting /\ ~Locked /\ Stop /\ muting' = FALSE
  /\ UNCHANGED <<enabled, soundVars, loop, transition, proc, calls, crashes>>

-----------------------------------------------------------------------------
(* Tempo. *)

\* change_tempo, in a thread of its own: the track is the one asked for.  A call
\* that names none is taken even if nothing plays, and is for no track.
ChangeTempo(q) ==
  /\ request[q].at = "done" /\ Call
  /\ request' = [request EXCEPT ![q] = [at |-> "checked", track |-> player.track, for |-> None]]
  /\ UNCHANGED <<enabled, muting, soundVars, loop, player, transition, fade, proc, crashes>>

\* run_coroutine_threadsafe.
Scheduled(q) ==
  /\ request[q].at = "checked" /\ request' = [request EXCEPT ![q].at = "scheduled"]
  /\ UNCHANGED <<enabled, muting, soundVars, loop, player, transition, fade, proc, calls, crashes>>

\* create_task; a transition that somebody else created meanwhile is forgotten,
\* and no stop will reach it.
Begins(q) ==
  \E f \in AName(UnusedFades) \cup {request[q].for} :
    /\ f # None /\ transition' = f /\ request' = [request EXCEPT ![q] = NoRequest]
    /\ fade' = [g \in Fades |->
         CASE g = f -> [at |-> "running", track |-> request[q].track]
           [] g = transition /\ g # f /\ fade[g].at = "running" -> [fade[g] EXCEPT !.track = None]
           [] OTHER -> fade[g]]

\* transition_ratio: the transition underway is cancelled and waited for.
Transition(q) ==
  /\ Idle /\ request[q].at = "scheduled"
  /\ IF transition = None \/ fade[transition].at = "done" THEN Begins(q)
     ELSE /\ fade' = [fade EXCEPT ![transition].at = "cancelling"]
          /\ request' = [request EXCEPT ![q].at = "waiting", ![q].for = transition]
          /\ UNCHANGED transition
  /\ UNCHANGED <<enabled, muting, soundVars, loop, player, proc, calls, crashes>>

TransitionGoesOn(q) ==
  /\ Idle /\ request[q].at = "waiting" /\ fade[request[q].for].at = "done" /\ Begins(q)
  /\ UNCHANGED <<enabled, muting, soundVars, loop, player, proc, calls, crashes>>

\* One of the 20 steps: it ends when the music has stopped.
FadeStep(f) ==
  /\ Idle /\ fade[f].at = "running" /\ ~player.stopped
  /\ player' = [player EXCEPT !.ratio = fade[f].track]
  /\ UNCHANGED <<enabled, muting, soundVars, loop, tempoVars, proc, calls, crashes>>

FadeEnds(f) ==
  /\ Idle /\ fade[f].at # "done" /\ fade' = [fade EXCEPT ![f] = NoFade]
  /\ UNCHANGED <<enabled, muting, soundVars, loop, player, transition, request, proc, calls,
                 crashes>>

-----------------------------------------------------------------------------
(* _linux_audio_loop, from one look at the shared values to the next. *)

ProcStep(at) == proc.at = at /\ UNCHANGED
  <<enabled, muting, soundVars, loop, player, tempoVars, calls, crashes>>

Restarted == [proc EXCEPT !.loaded = None]

\* A new generation: whatever is loaded has to be loaded again.
SeesGeneration ==
  /\ ProcStep("head")
  /\ proc' = [(IF proc.gen = player.gen THEN proc ELSE Restarted) EXCEPT
                !.gen = player.gen, !.at = "stop?"]

SeesStop ==
  /\ ProcStep("stop?")
  /\ proc' = IF player.stopped THEN [Restarted EXCEPT !.at = "head"]
             ELSE [proc EXCEPT !.at = "song?"]

\* Another pattern is loaded; one that has no song is tried again and again.
SeesPattern ==
  /\ ProcStep("song?")
  /\ proc' = CASE player.pattern = None -> [Restarted EXCEPT !.at = "head"]
               [] player.pattern # None /\ player.pattern = proc.loaded ->
                    [proc EXCEPT !.at = "play"]
               [] player.pattern \in Playable \ {proc.loaded} ->
                    [proc EXCEPT !.at = "head", !.loaded = player.pattern, !.song = proc.gen]
               [] OTHER -> [proc EXCEPT !.at = "head"]

\* play_gen is read, and the device opened.
Plays ==
  /\ ProcStep("play") /\ proc' = [proc EXCEPT !.at = "playing", !.plays = player.gen]

ToHead == proc' = [proc EXCEPT !.at = "head", !.plays = None]

\* The last chunk is written.
SongEnds == ProcStep("playing") /\ ToHead

\* Mutant: the generation is not looked at.
BrokenOffByStop == ProcStep("playing") /\ player.stopped /\ ToHead

\* After every chunk: the music was stopped, or there is a track that is newer
\* than play_gen.
Outdated  == player.stopped \/ player.gen # proc.plays
BrokenOff == ProcStep("playing") /\ Outdated /\ ToHead

\* An error of the device: the loop goes on half a second later.
DeviceFails ==
  /\ proc.at \in {"play", "playing"} /\ crashes > 0 /\ crashes' = crashes - 1
  /\ proc' = [Restarted EXCEPT !.at = "head", !.plays = None]
  /\ UNCHANGED <<enabled, muting, soundVars, loop, player, tempoVars, calls>>

ProcessDies ==
  /\ proc.at # "dead" /\ crashes > 0 /\ crashes' = crashes - 1
  /\ proc' = [NewProcess EXCEPT !.at = "dead"]
  /\ UNCHANGED <<enabled, muting, soundVars, loop, player, tempoVars, calls>>

-----------------------------------------------------------------------------
\* What the process is sure to do.  A song ends, but one that is outdated need
\* not do so in time: breaking it off is left to the process's own look.
Process ==
  \/ SeesGeneration \/ SeesStop \/ SeesPattern \/ Plays \/ BrokenOff
  \/ ~Outdated /\ SongEnds

Underway == Probed \/ StopIfPlaying \/ Load \/ Start \/ Go

Asyncio ==
  \/ \E p \in Priorities : PlaySound(p)
  \/ \E x \in Patterns : PlayMusic(x)
  \/ StopMusic \/ Underway
  \/ \E q \in Requests : Transition(q) \/ TransitionGoesOn(q)
  \/ \E f \in Fades : FadeStep(f) \/ FadeEnds(f)

Next ==
  \/ Asyncio \/ Process \/ SongEnds \/ DeviceFails \/ ProcessDies \/ FlagChanges \/ Mute
  \/ \E v \in Voices : SoundEnds(v) \/ ThreadEnds(v)
  \/ \E q \in Requests : ChangeTempo(q) \/ Scheduled(q)

\* The loop and the process run on.
Fairness == WF_audioVars(Underway) /\ WF_audioVars(Process) /\ WF_audioVars(Mute)

Spec == Init /\ [][Next]_audioVars /\ Fairness

-----------------------------------------------------------------------------
\* Every variable has its type.
TypeOK ==
  /\ enabled \in BOOLEAN /\ muting \in BOOLEAN
  /\ channel \in [Channels -> [busy : BOOLEAN, priority : Priorities, robbed : BOOLEAN]]
  /\ voice \in [Voices -> [at : {"done", "playing", "over", "cut"}, on : Channels \cup {None}]]
  /\ loop.at \in {"idle", "probe", "asked", "load", "start", "go"}
  /\ player.gen \in 0..MaxCalls /\ player.pattern \in Patterns \cup {None}
  /\ player.track \in 1..MaxCalls \cup {None} /\ player.stopped \in BOOLEAN
  /\ transition \in Fades \cup {None}
  /\ \A f \in Fades : fade[f].at \in {"done", "running", "cancelling"}
  /\ \A q \in Requests : request[q].at \in {"done", "checked", "scheduled", "waiting"}
  /\ proc.at \in {"dead", "head", "stop?", "song?", "play", "playing"}
  /\ proc.loaded \in Playable \cup {None}

\* A channel that is marked busy has a thread that will clear the mark; and
\* unless a critical sound has taken it from another, one sound plays on it,
\* and is not cut short.
ChannelsAreHonest ==
  \A c \in Channels :
    /\ channel[c].busy => Singing(c) # {}
    /\ ~channel[c].robbed =>
         /\ Cardinality(Singing(c)) <= 1
         /\ \A v \in Singing(c) : voice[v].at # "cut"

\* The tempo is the one asked for the track that plays.  Only a ChangeTempo
\* that was underway when the music stopped or came while it was, or a
\* transition that another has replaced unseen, can bring another tempo.
TempoStaysWithTheTrack ==
  ~player.stopped => player.ratio \in {player.track, None}

\* When the calls are over, the process comes to play a song that was loaded
\* for the last track, however the calls met its looks at the shared values,
\* and without waiting for the end of a song it knows to be outdated.
NewestTrackIsHeard ==
  <>[](Idle /\ ~player.stopped /\ proc.at # "dead" /\ player.pattern \in Playable
         => proc.loaded = player.pattern /\ proc.song = player.gen)
=============================================================================
