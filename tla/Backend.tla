------------------------------- MODULE Backend -------------------------------
(***************************************************************************)
(* The multiplexer back end: which adapter drives which controller, the    *)
(* colour and rumble each should have, and the refresh that brings them to *)
(* the controller, 20 times a second.                                      *)
(*                                                                         *)
(* Two run beside each other: the asyncio loop, which sets lights and      *)
(* motors, and the thread to which the discovery loop hands the scan for   *)
(* controllers and the refresh, one at a time.  _led_lock is held for one  *)
(* write.  The adapters only queue the output for their stream to the HID  *)
(* service, which drops what is for a controller it has not opened.        *)
(*                                                                         *)
(* Abstracted: an adapter that answers finds what is there and is not      *)
(* claimed by another; opening finds it whenever it is there; the rust and *)
(* the python adapter are alike; the mock adapter, and the health          *)
(* counters, are left out.                                                 *)
(***************************************************************************)
EXTENDS Naturals, Sequences, FiniteSets

CONSTANTS Serials, Adapters, Colours, None,
          Preferences, \* what the routing flag may say: adapters, or None
          MaxPipe,    \* the command queue's size
          MaxOutputs, \* bound on the lights and motors set
          MaxFaults   \* bound on what goes wrong outside

VARIABLES
  present,   \* the controllers that are there
  preferred, \* the routing flag
  route,     \* _serial_to_adapter
  lit,       \* _led_colors
  motor,     \* _rumble
  sent,      \* _last_sent_color
  effects,   \* _effect_active
  thread,    \* what the discovery loop's thread does
  setter,    \* the call of the asyncio loop in set_led_color or set_rumble
  opened,    \* the controllers the adapters' services have opened
  up,        \* the adapters whose stream runs
  pipe,      \* their command queues
  lamp,      \* what the controllers show, and how they rumble
  outputs, faults \* outputs and faults left

routeVars == <<present, preferred, route, opened>>
stateVars == <<lit, motor, sent, effects>>
wireVars  == <<up, pipe, lamp>>
backendVars == <<routeVars, stateVars, wireVars, thread, setter, outputs, faults>>

Off       == [colour |-> None, motor |-> 0]
Rest      == [at |-> "idle", rest |-> {}, colour |-> None, motor |-> 0, found |-> None]
Calm      == [at |-> "idle", serial |-> None, colour |-> None, adapter |-> None]

\* initialize: the adapters that answer open all they find, and the last of them
\* has the route.
Init ==
  /\ preferred \in [Serials -> Preferences] /\ present \in SUBSET Serials
  /\ \E answer \in SUBSET Adapters : \E last \in answer :
       /\ opened = [a \in Adapters |-> IF a \in answer THEN present ELSE {}]
       /\ route = [s \in Serials |-> IF s \in present THEN last ELSE None]
  /\ lit = [s \in Serials |-> None] /\ sent = lit /\ motor = [s \in Serials |-> 0]
  /\ effects = {} /\ thread = Rest /\ setter = Calm
  /\ up = Adapters /\ pipe = [a \in Adapters |-> <<>>] /\ lamp = [s \in Serials |-> Off]
  /\ outputs = MaxOutputs /\ faults = MaxFaults

Fault == faults > 0 /\ faults' = faults - 1

-----------------------------------------------------------------------------
(* Outputs. *)

\* set_output: without a stream, or with a full queue, it answers False.
Accepts(a) == a \in up /\ Len(pipe[a]) < MaxPipe
Output(a, s, c, x) ==
  pipe' = IF Accepts(a)
          THEN [pipe EXCEPT ![a] = Append(@, [serial |-> s, colour |-> c, motor |-> x])]
          ELSE pipe

\* set_led_color and set_rumble look for the adapter first.
SetLight(s, c) ==
  /\ setter.at = "idle" /\ route[s] # None /\ outputs > 0 /\ outputs' = outputs - 1
  /\ setter' = [at |-> "light", serial |-> s, colour |-> c, adapter |-> route[s]]
  /\ UNCHANGED <<routeVars, stateVars, wireVars, thread, faults>>

SetMotor(s, x) ==
  /\ setter.at = "idle" /\ route[s] # None /\ outputs > 0 /\ outputs' = outputs - 1
  /\ setter' = [at |-> "motor", serial |-> s, colour |-> None, adapter |-> route[s]]
  /\ motor' = [motor EXCEPT ![s] = x]
  /\ UNCHANGED <<routeVars, lit, sent, effects, wireVars, thread, faults>>

Stored ==
  /\ setter.at = "light" /\ setter' = [setter EXCEPT !.at = "lit"]
  /\ lit' = [lit EXCEPT ![setter.serial] = setter.colour]
  /\ UNCHANGED <<routeVars, motor, sent, effects, wireVars, thread, outputs, faults>>

\* The lock is tried: while the refresh has it, this write is left to it.  The
\* refresh that is about to write may have it, or not yet.
Written ==
  LET s == setter.serial  a == setter.adapter IN
  /\ setter.at \in {"lit", "motor"} /\ setter' = Calm
  /\ \/ thread.at = "write" /\ UNCHANGED <<pipe, sent>>
     \/ /\ Output(a, s, IF setter.at = "lit" THEN setter.colour ELSE lit[s], motor[s])
        /\ IF setter.at = "lit" /\ Accepts(a)
           THEN sent' = [sent EXCEPT ![s] = setter.colour] ELSE UNCHANGED sent
  /\ UNCHANGED <<routeVars, lit, motor, effects, up, lamp, thread, outputs, faults>>

\* set_effect_active: the refresh leaves the controller to the effect.
SetEffect(s) ==
  /\ setter.at = "idle" /\ outputs > 0 /\ outputs' = outputs - 1
  /\ effects' = IF s \in effects THEN effects \ {s} ELSE effects \cup {s}
  /\ UNCHANGED <<routeVars, lit, motor, sent, wireVars, thread, setter, faults>>

-----------------------------------------------------------------------------
(* update_all_leds. *)

RefreshBegins ==
  LET coloured == {s \in Serials : lit[s] # None} IN
  /\ thread.at = "idle" /\ coloured # {}
  /\ thread' = [Rest EXCEPT !.at = "refresh", !.rest = coloured, !.colour = lit]
  /\ UNCHANGED <<routeVars, stateVars, wireVars, setter, outputs, faults>>

\* The thread when it is done with s.
Past(s) == IF thread.rest = {s} THEN Rest
           ELSE [thread EXCEPT !.at = "refresh", !.rest = @ \ {s}, !.found = None]

\* Mutant: only a colour that has changed is sent.
WantsChanged(s, late) == thread.colour[s] # sent[s]

\* A colour that has changed, or that was sent two seconds ago.
Wants(s, late) == thread.colour[s] # sent[s] \/ late

\* The next controller of the list of the colours as they were: it is passed
\* over, or its rumble is read, before the lock is taken for it.
RefreshNext(s, late) ==
  /\ thread.at = "refresh" /\ s \in thread.rest
  /\ thread' = IF s \notin effects /\ route[s] # None /\ Wants(s, late)
               THEN [thread EXCEPT !.at = "write", !.found = s, !.motor = motor[s]] ELSE Past(s)
  /\ UNCHANGED <<routeVars, stateVars, wireVars, setter, outputs, faults>>

RefreshWrites ==
  /\ thread.at = "write" /\ thread' = [thread EXCEPT !.at = "mark", !.motor = 0]
  /\ Output(route[thread.found], thread.found, thread.colour[thread.found], thread.motor)
  /\ UNCHANGED <<routeVars, stateVars, up, lamp, setter, outputs, faults>>

\* The colour counts as sent, whether the adapter took it or not.
RefreshMarks ==
  LET s == thread.found IN
  /\ thread.at = "mark" /\ thread' = Past(s)
  /\ sent' = [sent EXCEPT ![s] = thread.colour[s]]
  /\ UNCHANGED <<routeVars, lit, motor, effects, wireVars, setter, outputs, faults>>

-----------------------------------------------------------------------------
(* get_connected_controllers. *)

\* What an adapter that answers finds: what it has open and, in a full scan, what
\* is there and no other claims.
Finds(a, full) ==
  present \cap (opened[a] \cup IF full THEN {s \in Serials : route[s] \in {None, a}} ELSE {})

\* _ensure_stream, of every adapter.
EnsureStreams == up' = Adapters

\* open: the service finds what is there.
Opens(s) == s \in present

\* Every adapter starts its stream, and answers or fails; what it finds it
\* opens.  Twice a second the scan is full.
ScanDiscovers(full) ==
  /\ thread.at = "idle" /\ EnsureStreams
  /\ \E answer \in SUBSET Adapters :
       LET found == [a \in Adapters |-> IF a \in answer THEN Finds(a, full) ELSE {}] IN
       /\ IF answer = Adapters THEN UNCHANGED faults ELSE Fault
       /\ opened' = [a \in Adapters |-> opened[a] \cup found[a]]
       /\ thread' = [Rest EXCEPT !.at = "scan", !.found = found]
  /\ UNCHANGED <<present, preferred, route, stateVars, pipe, lamp, setter, outputs>>

\* The winner for s among those that found it: the adapter the flag prefers,
\* opened now if it did not find it, or else one of the others.
Winners(s) ==
  LET who == {a \in Adapters : s \in thread.found[a]}  p == preferred[s] IN
  IF who = {} THEN {None}
  ELSE IF p \in Adapters /\ (p \in who \/ Opens(s)) THEN {p} ELSE who

\* _route_controllers: the losers, and an adapter that no longer finds it,
\* close the controller.
ScanRoutes ==
  /\ thread.at = "scan" /\ thread' = [Rest EXCEPT !.at = "clean"]
  /\ route' \in {r \in [Serials -> Adapters \cup {None}] : \A s \in Serials : r[s] \in Winners(s)}
  /\ opened' = [a \in Adapters |->
       {s \in Serials : IF route'[s] = None THEN s \in opened[a]
                        ELSE route'[s] = a \/ (s \in opened[a] /\ s \notin thread.found[a]
                                               /\ route[s] # a)}]
  /\ UNCHANGED <<present, preferred, stateVars, wireVars, setter, outputs, faults>>

\* _cleanup_stale_state: those with a colour and no adapter are forgotten.
ScanCleans ==
  LET stale == {s \in Serials : lit[s] # None /\ route[s] = None}
      Without(f, x) == [s \in Serials |-> IF s \in stale THEN x ELSE f[s]] IN
  /\ thread.at = "clean" /\ thread' = Rest
  /\ lit' = Without(lit, None) /\ sent' = Without(sent, None) /\ motor' = Without(motor, 0)
  /\ effects' = effects \ stale
  /\ UNCHANGED <<routeVars, wireVars, setter, outputs, faults>>

-----------------------------------------------------------------------------
(* The streams, the services and the controllers. *)

Delivered(a) ==
  LET x == Head(pipe[a]) IN
  /\ a \in up /\ pipe[a] # <<>> /\ pipe' = [pipe EXCEPT ![a] = Tail(@)]
  /\ lamp' = IF x.serial \in opened[a] \cap present
             THEN [lamp EXCEPT ![x.serial] = [colour |-> x.colour, motor |-> x.motor]] ELSE lamp
  /\ UNCHANGED <<routeVars, stateVars, up, thread, setter, outputs, faults>>

\* The stream breaks; the iterator of the old one may still take a command.
StreamBreaks(a) ==
  /\ a \in up /\ Fault /\ up' = up \ {a}
  /\ \/ UNCHANGED pipe
     \/ pipe[a] # <<>> /\ pipe' = [pipe EXCEPT ![a] = Tail(@)]
  /\ UNCHANGED <<routeVars, stateVars, lamp, thread, setter, outputs>>

\* A controller goes, dark and closed, or comes.
Goes(s) ==
  /\ s \in present /\ Fault /\ present' = present \ {s}
  /\ opened' = [a \in Adapters |-> opened[a] \ {s}] /\ lamp' = [lamp EXCEPT ![s] = Off]
  /\ UNCHANGED <<preferred, route, stateVars, up, pipe, thread, setter, outputs>>

Comes(s) ==
  /\ s \notin present /\ present' = present \cup {s}
  /\ UNCHANGED <<preferred, route, opened, stateVars, wireVars, thread, setter, outputs, faults>>

FlagChanges(s, a) ==
  /\ a # preferred[s] /\ Fault /\ preferred' = [preferred EXCEPT ![s] = a]
  /\ UNCHANGED <<present, route, opened, stateVars, wireVars, thread, setter, outputs>>

-----------------------------------------------------------------------------
ThreadStep ==
  \/ \E s \in Serials, late \in BOOLEAN : RefreshNext(s, late)
  \/ RefreshWrites \/ RefreshMarks \/ ScanRoutes \/ ScanCleans

Next ==
  \/ RefreshBegins \/ ThreadStep \/ Stored \/ Written
  \/ \E s \in Serials : SetEffect(s) \/ Goes(s) \/ Comes(s)
  \/ \E s \in Serials, c \in Colours : SetLight(s, c)
  \/ \E s \in Serials, x \in {0, 1} : SetMotor(s, x)
  \/ \E s \in Serials, a \in Preferences : FlagChanges(s, a)
  \/ \E a \in Adapters : Delivered(a) \/ StreamBreaks(a)
  \/ \E full \in BOOLEAN : ScanDiscovers(full)

\* Scans and refreshes take turns by the clock; everything else runs on, and
\* again and again a refresh comes two seconds after the last output.
Fairness ==
  /\ SF_backendVars(RefreshBegins) /\ SF_backendVars(ScanDiscovers(TRUE))
  /\ WF_backendVars(ThreadStep) /\ WF_backendVars(Stored \/ Written)
  /\ \A s \in Serials : SF_backendVars(RefreshNext(s, TRUE))
  /\ WF_backendVars(\E a \in Adapters : Delivered(a))

Spec == Init /\ [][Next]_backendVars /\ Fairness

-----------------------------------------------------------------------------
\* Every variable has its type.
TypeOK ==
  /\ present \subseteq Serials /\ effects \subseteq Serials
  /\ up \subseteq Adapters /\ opened \in [Adapters -> SUBSET Serials]
  /\ preferred \in [Serials -> Preferences] /\ route \in [Serials -> Adapters \cup {None}]
  /\ lit \in [Serials -> Colours \cup {None}] /\ sent \in [Serials -> Colours \cup {None}]
  /\ motor \in [Serials -> {0, 1}]
  /\ lamp \in [Serials -> [colour : Colours \cup {None}, motor : {0, 1}]]
  /\ thread.at \in {"idle", "refresh", "write", "mark", "scan", "clean"}
  /\ setter.at \in {"idle", "light", "lit", "motor"}
  /\ \A a \in Adapters : Len(pipe[a]) <= MaxPipe

\* When nothing is set any more and nothing fails, every controller that is
\* there comes to show the colour it should have, and to rumble as it should,
\* whatever writes were passed over, refused, lost or overtaken.
LightsConverge ==
  \A s \in Serials :
    <>[](s \in present /\ s \notin effects /\ lit[s] # None =>
           lamp[s] = [colour |-> lit[s], motor |-> motor[s]])
=============================================================================
