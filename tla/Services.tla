------------------------------ MODULE Services ------------------------------
(***************************************************************************)
(* The parts of the controller manager and the audio service beside the    *)
(* gameplay stream.  They share no state with each other that they both    *)
(* change while they run, so that one of them is followed at a time: the   *)
(* lights (FeedbackManager), the back end (MultiplexerBackend), a HID       *)
(* service, discovery and the streams of button events, or the audio.      *)
(***************************************************************************)
EXTENDS Naturals, Sequences, FiniteSets

CONSTANTS Parts, None,
          Serials, Readers, Colours, Tasks, MaxCommands,           \* the lights
          Adapters, Preferences, MaxPipe, MaxOutputs, MaxFaults,   \* the back end
          Implementations, Paths, Links, MaxFeed, MaxRequests, MaxMishaps,   \* a HID service
          Controllers, Buttons, Streams, MaxQueue, MaxNews,        \* discovery
          Channels, Voices, Patterns, Playable, Requests, Fades, MaxCalls, MaxCrashes

ASSUME ServicesConstants ==
  /\ Parts \subseteq {"lights", "backend", "hid", "discovery", "audio"}
  /\ None \notin Serials \cup Controllers \cup Tasks \cup Adapters \cup Colours
  /\ None \notin Patterns \cup Fades \cup Voices /\ None \notin Channels /\ None # "charge"
  /\ Colours \cap {"black", "white", "red", "warning", "tint", "countdown", "charge"} = {}
  /\ Implementations \subseteq {"rust", "python"} /\ None \notin Paths \cup Links
  /\ Preferences \subseteq Adapters \cup {None} /\ Preferences # {}
  /\ IsFiniteSet(Controllers) /\ IsFiniteSet(Buttons) /\ None \notin Buttons
  /\ Channels \subseteq Nat /\ Channels # {} /\ Playable \subseteq Patterns
  /\ {MaxCommands, MaxOutputs, MaxFaults, MaxRequests, MaxMishaps, MaxNews} \subseteq Nat
  /\ {MaxCalls, MaxCrashes} \subseteq Nat /\ {MaxPipe, MaxFeed, MaxQueue} \subseteq Nat \ {0}

VARIABLES
  part,                                                        \* the part that is followed
  tracked, shown, base, entry, active, task, reader, left,     \* the lights
  present, preferred, route, lit, motor, sent, effects, thread, setter, opened, up,
  pipe, lamp, outputs, faults,                                 \* the back end
  kind, there, press, handle, inbox, registered, feed, leaving, late, linked, known, asking,
  listed, requests, mishaps,                                   \* a HID service
  trackedControllers, buttonStates, scan, stream, news,        \* discovery
  enabled, muting, channel, voice, loop, player, transition, fade, request, proc, calls,
  crashes                                                      \* the audio

lightsVars   == <<tracked, shown, base, entry, active, task, reader, left>>
outputVars   == <<present, preferred, route, lit, motor, sent, effects, thread, setter,
                  opened, up, pipe, lamp, outputs, faults>>
hidVars      == <<kind, there, press, handle, inbox, registered, feed, leaving, late, linked,
                  known, asking, listed, requests, mishaps>>
newsVars     == <<trackedControllers, buttonStates, scan, stream, news>>
audioVars    == <<enabled, muting, channel, voice, loop, player, transition, fade, request,
                  proc, calls, crashes>>
servicesVars == <<part, lightsVars, outputVars, hidVars, newsVars, audioVars>>

Lights == INSTANCE Feedback
Back   == INSTANCE Backend
Hid    == INSTANCE HidService
Disc   == INSTANCE Discovery
Sound  == INSTANCE Audio

\* The choices of a part that is not followed are of no interest.
Init ==
  /\ part \in Parts /\ Lights!Init /\ Back!Init /\ Hid!Init /\ Disc!Init /\ Sound!Init
  /\ part # "backend" => /\ present = {} /\ preferred = CHOOSE f \in [Serials -> Preferences] : TRUE
                         /\ opened = [a \in Adapters |-> {}]
  /\ part # "hid" => kind = CHOOSE k \in Implementations : TRUE

LightsOnly == UNCHANGED <<part, outputVars, hidVars, newsVars, audioVars>>
BackOnly   == UNCHANGED <<part, lightsVars, hidVars, newsVars, audioVars>>
HidOnly    == UNCHANGED <<part, lightsVars, outputVars, newsVars, audioVars>>
DiscOnly   == UNCHANGED <<part, lightsVars, outputVars, hidVars, audioVars>>
SoundOnly  == UNCHANGED <<part, lightsVars, outputVars, hidVars, newsVars>>

Next ==
  \/ part = "lights"    /\ Lights!Next /\ LightsOnly
  \/ part = "backend"   /\ Back!Next   /\ BackOnly
  \/ part = "hid"       /\ Hid!Next    /\ HidOnly
  \/ part = "discovery" /\ Disc!Next   /\ DiscOnly
  \/ part = "audio"     /\ Sound!Next  /\ SoundOnly

\* Each part's own fairness; as only one part is followed, those of two parts
\* can be said in one condition.
Running  == \/ part = "backend" /\ Back!ThreadStep /\ BackOnly
            \/ part = "hid" /\ Hid!Handles /\ HidOnly
            \/ part = "audio" /\ Sound!Process /\ SoundOnly
Calling  == \/ part = "backend" /\ (Back!Stored \/ Back!Written) /\ BackOnly
            \/ part = "hid" /\ Hid!Leaves /\ HidOnly
            \/ part = "audio" /\ Sound!Underway /\ SoundOnly
Awaiting == \/ part = "backend" /\ (\E a \in Adapters : Back!Delivered(a)) /\ BackOnly
            \/ part = "hid" /\ Hid!Takes /\ HidOnly
            \/ part = "audio" /\ Sound!Mute /\ SoundOnly
Scanning == \/ part = "backend" /\ Back!ScanDiscovers(TRUE) /\ BackOnly
            \/ part = "hid" /\ Hid!Scan("full", {}) /\ HidOnly
Refreshing(s) == \/ part = "backend" /\ Back!RefreshNext(s, TRUE) /\ BackOnly
                 \/ part = "hid" /\ Hid!Polls(s) /\ HidOnly
RefreshBegins == part = "backend" /\ Back!RefreshBegins /\ BackOnly

Fairness ==
  /\ WF_servicesVars(Running) /\ WF_servicesVars(Calling) /\ WF_servicesVars(Awaiting)
  /\ SF_servicesVars(RefreshBegins) /\ SF_servicesVars(Scanning)
  /\ \A s \in Serials : SF_servicesVars(Refreshing(s))

Spec == Init /\ [][Next]_servicesVars /\ Fairness

-----------------------------------------------------------------------------
\* Every variable has its type.
TypeOK ==
  /\ part = "lights"    => Lights!TypeOK
  /\ part = "backend"   => Back!TypeOK
  /\ part = "hid"       => Hid!TypeOK
  /\ part = "discovery" => Disc!TypeOK
  /\ part = "audio"     => Sound!TypeOK

\* A controller settles on the base colour it was last given
\* (feedback_manager.py: every effect restores the colour of the moment).
ColoursSettle == part = "lights" => Lights!ColoursSettle

\* An effect lets go of its controller, however it ends or is cancelled.
EffectsLetGo == part = "lights" => Lights!EffectsLetGo

\* The manager and the controllers come to agree: what a controller shows comes
\* to be what was set (multiplexer_backend.py), and its readings come to be known
\* (the HID services' device_manager.py, device_manager.rs).
ControllersConverge == Back!LightsConverge /\ Hid!ReadingsArrive

\* A client of the button events knows which controllers are there.
ReadersKnowWhoIsThere == part = "discovery" => Disc!ReadersKnowWhoIsThere

\* A sound channel's flag says whether its thread plays (servicer.py).
ChannelsAreHonest == part = "audio" => Sound!ChannelsAreHonest

\* No transition made for one track sets the tempo of another.
TempoStaysWithTheTrack == part = "audio" => Sound!TempoStaysWithTheTrack

\* The audio process comes to play the newest track (music_player.py).
NewestTrackIsHeard == Sound!NewestTrackIsHeard
=============================================================================
