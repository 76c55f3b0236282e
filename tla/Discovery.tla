------------------------------ MODULE Discovery ------------------------------
(***************************************************************************)
(* The discovery task of the controller manager and the streams of button  *)
(* and connection events it feeds.                                         *)
(*                                                                         *)
(* Once a second the task asks the back end who is connected; a hundred    *)
(* times a second it polls every tracked controller and reports the        *)
(* buttons that changed.  The streams and the task share one asyncio loop: *)
(* the task is suspended only while it asks, while it waits for the first  *)
(* state of a new controller, and while it restores that one's colour.     *)
(*                                                                         *)
(* Abstracted: names, batteries and readings; the back end's answer is any *)
(* set of controllers; a poll, which is not suspended, is one step for     *)
(* each controller whose buttons changed.                                  *)
(***************************************************************************)
EXTENDS Naturals, Sequences, FiniteSets, SequencesExt

CONSTANTS Controllers, Buttons,
          Streams,  \* the clients of StreamButtonEvents
          None,
          MaxQueue, \* the size of event_queue
          MaxNews   \* bound on what is new: answers, buttons, ended streams, restarts

VARIABLES
  trackedControllers, \* tracked_controllers
  buttonStates,       \* the detector's _button_states
  scan,               \* _check_for_new_controllers: who is left, whose state it waits for
  stream,             \* the clients: what they know, and event_queue
  news                \* news left

discoveryVars == <<trackedControllers, buttonStates, scan, stream, news>>

Released == [s \in Controllers |-> {}]
Idle     == [rest |-> {}, spawning |-> None]

Init ==
  /\ trackedControllers = {} /\ buttonStates = Released /\ scan = Idle
  /\ stream = [r \in Streams |-> [open |-> FALSE, queue |-> <<>>, here |-> {}, held |-> Released,
                                  missed |-> FALSE, ghosts |-> FALSE]]
  /\ news = MaxNews

News == news > 0 /\ news' = news - 1

-----------------------------------------------------------------------------
(* ButtonEvent: its publication, and what the client makes of it. *)

Event(k, s, b, all) == [kind |-> k, serial |-> s, button |-> b, all |-> all]

\* publish_to_queue; history: what a full queue made the client miss, until a
\* list of all controllers, or a new stream, makes up for it.
Offer(x, e) ==
  IF Len(x.queue) < MaxQueue
  THEN [x EXCEPT !.queue = Append(@, e), !.ghosts = @ /\ e.all = {}]
  ELSE [x EXCEPT !.missed = TRUE, !.ghosts = @ \/ e.kind \in {"connect", "disconnect"}]

\* One event after the other.
Offered(x, events) ==
  LET after[i \in 0..Len(events)] == IF i = 0 THEN x ELSE Offer(after[i - 1], events[i])
  IN after[Len(events)]

\* publish_to_subscribers.
Publish(events) ==
  stream' = [r \in Streams |-> IF stream[r].open THEN Offered(stream[r], events) ELSE stream[r]]

\* _dispatch_event with _reconcile_controllers: those a list does not name are
\* gone, unless it is empty.
Hears(x, e) ==
  LET named == CASE e.kind = "connect"    -> x.here \cup {e.serial}
                 [] e.kind = "disconnect" -> x.here \ {e.serial}
                 [] OTHER                 -> x.here
      left  == IF e.all = {} THEN named ELSE named \cap e.all
      held  == CASE e.kind = "press"   -> [x.held EXCEPT ![e.serial] = @ \cup {e.button}]
                 [] e.kind = "release" -> [x.held EXCEPT ![e.serial] = @ \ {e.button}]
                 [] OTHER -> [s \in Controllers |-> IF s \in (x.here \cup named) \ left THEN {}
                                                ELSE x.held[s]]
  IN [x EXCEPT !.here = left, !.held = held]

\* _send_initial_connection_events: one connect event for each controller.
Initial ==
  LET order == SetToSeq(trackedControllers)
  IN [i \in DOMAIN order |-> Event("connect", order[i], None, trackedControllers)]

\* A client opens its stream with what it knew when the last one ended.
\* History: the buttons held now count as known to it.
Subscribe(r) ==
  /\ ~stream[r].open
  /\ stream' = [stream EXCEPT ![r] =
       Offered([@ EXCEPT !.open = TRUE, !.held = buttonStates, !.missed = FALSE], Initial)]
  /\ UNCHANGED <<trackedControllers, buttonStates, scan, news>>

Closed(x) == [x EXCEPT !.open = FALSE, !.queue = <<>>, !.ghosts = TRUE]

StreamEnds(r) ==
  /\ stream[r].open /\ News /\ stream' = [stream EXCEPT ![r] = Closed(@)]
  /\ UNCHANGED <<trackedControllers, buttonStates, scan>>

Read(r) ==
  LET x == stream[r] IN
  /\ x.queue # <<>>
  /\ stream' = [stream EXCEPT ![r] = [Hears(x, Head(x.queue)) EXCEPT !.queue = Tail(x.queue)]]
  /\ UNCHANGED <<trackedControllers, buttonStates, scan, news>>

-----------------------------------------------------------------------------
(* The discovery task. *)

\* _detect_button_transitions: an event for every button that changed.
Transitions(s, now) ==
  LET order == SetToSeq((now \ buttonStates[s]) \cup (buttonStates[s] \ now))
  IN [i \in DOMAIN order |->
        Event(IF order[i] \in now THEN "press" ELSE "release", s, order[i], {})]

\* _update_controller_states for a controller that answers: one that gives no
\* state, or an error, is passed over.
Polled(s, now) ==
  /\ scan = Idle /\ s \in trackedControllers /\ now # buttonStates[s] /\ News
  /\ Publish(Transitions(s, now))
  /\ buttonStates' = [buttonStates EXCEPT ![s] = now]
  /\ UNCHANGED <<trackedControllers, scan>>

\* The disconnect events, each with those that are still tracked then.
Departures(order) ==
  [i \in DOMAIN order |->
     Event("disconnect", order[i], None, trackedControllers \ {order[j] : j \in 1..i})]

\* Mutant: the detector keeps the buttons of a controller that is gone.
AnswerKeepsButtons(found) ==
  LET gone == trackedControllers \ found IN
  /\ scan = Idle /\ found # trackedControllers /\ News
  /\ trackedControllers' = trackedControllers \cap found
  /\ UNCHANGED buttonStates
  /\ \E order \in SetToSeqs(gone) : Publish(Departures(order))
  /\ scan' = [Idle EXCEPT !.rest = found \ trackedControllers]

\* The back end's answer: who is gone is forgotten.
Answer(found) ==
  LET gone == trackedControllers \ found IN
  /\ scan = Idle /\ found # trackedControllers /\ News
  /\ trackedControllers' = trackedControllers \cap found
  /\ buttonStates' = [s \in Controllers |-> IF s \in gone THEN {} ELSE buttonStates[s]]
  /\ \E order \in SetToSeqs(gone) : Publish(Departures(order))
  /\ scan' = [Idle EXCEPT !.rest = found \ trackedControllers]

\* A new controller is asked for its state, up to five times.
Spawn(s) ==
  /\ scan.spawning = None /\ s \in scan.rest
  /\ scan' = [rest |-> scan.rest \ {s}, spawning |-> s]
  /\ UNCHANGED <<trackedControllers, buttonStates, stream, news>>

\* It is tracked if it answered; its connect event is published anyway.
Spawned ==
  LET s == scan.spawning IN
  /\ s # None
  /\ \/ trackedControllers' = trackedControllers \cup {s}
     \/ UNCHANGED trackedControllers
  /\ Publish(<<Event("connect", s, None, trackedControllers')>>)
  /\ scan' = [scan EXCEPT !.spawning = None]
  /\ UNCHANGED <<buttonStates, news>>

\* Restoring a colour fails: the others wait for the next scan.
ScanBreaks ==
  /\ scan.spawning = None /\ scan.rest # {} /\ News /\ scan' = Idle
  /\ UNCHANGED <<trackedControllers, buttonStates, stream>>

\* The controller manager is started anew.
Restart ==
  /\ News /\ trackedControllers' = {} /\ buttonStates' = Released /\ scan' = Idle
  /\ stream' = [r \in Streams |-> IF stream[r].open THEN Closed(stream[r]) ELSE stream[r]]

-----------------------------------------------------------------------------
Next ==
  \/ \E r \in Streams : Subscribe(r) \/ StreamEnds(r) \/ Read(r)
  \/ \E s \in Controllers : Spawn(s) \/ \E now \in SUBSET Buttons : Polled(s, now)
  \/ \E found \in SUBSET Controllers : Answer(found)
  \/ Spawned \/ ScanBreaks \/ Restart

Spec == Init /\ [][Next]_discoveryVars

-----------------------------------------------------------------------------
\* Every variable has its type.
TypeOK ==
  /\ trackedControllers \subseteq Controllers /\ buttonStates \in [Controllers -> SUBSET Buttons]
  /\ scan.rest \subseteq Controllers \ trackedControllers
  /\ scan.spawning \in (Controllers \ trackedControllers) \cup {None}
  /\ \A r \in Streams : Len(stream[r].queue) <= MaxQueue /\ stream[r].here \subseteq Controllers

\* What a client knows when it has read its queue.
Heard(x) ==
  LET after[i \in 0..Len(x.queue)] == IF i = 0 THEN x ELSE Hears(after[i - 1], x.queue[i])
  IN after[Len(x.queue)]

\* What a client will know when it has read its queue is what is there, though
\* it joins at any time, keeps what it knew from an earlier stream, and hears
\* of controllers whose state never came: it knows the tracked ones and the
\* buttons that are held unless its queue was full; and while one is tracked
\* it knows no other, unless news it missed has no list after it yet.
ReadersKnowWhoIsThere ==
  \A r \in Streams : stream[r].open =>
    LET x == Heard(stream[r]) IN
    /\ ~x.missed => /\ trackedControllers \subseteq x.here
                    /\ \A s \in trackedControllers : x.held[s] = buttonStates[s]
    /\ ~x.ghosts /\ trackedControllers # {} => x.here \subseteq trackedControllers
=============================================================================
