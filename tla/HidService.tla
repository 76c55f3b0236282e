------------------------------ MODULE HidService ------------------------------
(***************************************************************************)
(* A service that holds the controllers open for one of the manager's      *)
(* adapters, rust-hid or python_hid, and that adapter.  A call becomes a   *)
(* command of one queue; a device thread takes the commands, and when      *)
(* there is none reads every open controller and gives what it read to the *)
(* streams.  The two services differ in how they treat a handle that has   *)
(* died, a full stream, and the end of a stream: rust-hid knows one stream *)
(* and forgets it when any of them ends.                                   *)
(*                                                                         *)
(* Abstracted: what is there can be opened; a press stands for a reading;  *)
(* colours are in Backend; the device thread does not die.  The service    *)
(* sees that a client has gone before that client's next scan, unless the  *)
(* connection broke and the service has not been told.                     *)
(***************************************************************************)
EXTENDS Naturals, Sequences, FiniteSets

CONSTANTS Serials, None,
          Implementations, \* of the service: "rust", "python"
          Paths,       \* where a controller may appear
          Links,       \* the streams
          MaxFeed,     \* the size of a stream's queue
          MaxRequests, \* bound on the calls, and on presses and comings
          MaxMishaps   \* bound on what goes wrong

VARIABLES
  kind,       \* the service's kind
  there,      \* where each controller is
  press,      \* whether its trigger is pressed
  handle,     \* _devices: what it was opened at, and whether that still lives
  inbox,      \* _command_queue
  registered, \* _stream_queues, or the stream_sender
  feed,       \* the queue of the adapter's stream
  leaving,    \* streams that have ended, for whom the service's task has not
  late,       \* those of them of a broken connection
  linked,     \* the adapter's stream
  known,      \* _latest_data and _last_state of the adapter
  asking,     \* the call the manager waits for
  listed,     \* the controllers the last scan found
  requests, mishaps \* requests and mishaps left

deviceVars == <<there, press, handle>>
streamVars == <<registered, feed, leaving, late, linked, known>>
callVars   == <<inbox, asking, listed>>
hidVars    == <<kind, deviceVars, streamVars, callVars, requests, mishaps>>

Closed == [at |-> None, lives |-> FALSE]
OpenAt(p) == [at |-> p, lives |-> TRUE]

\* At first no controller is there, and the adapter has no stream.
Init ==
  /\ kind \in Implementations
  /\ there = [s \in Serials |-> None] /\ press = [s \in Serials |-> FALSE]
  /\ handle = [s \in Serials |-> Closed]
  /\ inbox = <<>> /\ registered = {} /\ feed = <<>> /\ leaving = {} /\ late = {}
  /\ linked = None /\ known = [s \in Serials |-> None]
  /\ asking = None /\ listed = {}
  /\ requests = MaxRequests /\ mishaps = MaxMishaps

Request == requests > 0 /\ requests' = requests - 1
Mishap  == mishaps > 0 /\ mishaps' = mishaps - 1

-----------------------------------------------------------------------------
(* The devices, as the device thread handles them. *)

Held(h) == {s \in Serials : h[s] # Closed}

\* Dead handles go.
Verified(h) == [s \in Serials |-> IF h[s].lives THEN h[s] ELSE Closed]

\* What is enumerated, not excluded and not held is opened.
Enumerated(h, excluded) ==
  [s \in Serials |-> IF h[s] = Closed /\ there[s] # None /\ s \notin excluded
                     THEN OpenAt(there[s]) ELSE h[s]]

\* Handles whose path nothing is at any more go.
Remaining(h) ==
  [s \in Serials |-> IF \E t \in Serials : there[t] = h[s].at THEN h[s] ELSE Closed]

PythonDiscovers(c) ==
  LET verified == IF c.scan = "force" THEN handle ELSE Verified(handle)
      opened   == IF c.scan = "verify" THEN verified ELSE Enumerated(verified, c.excluded)
  IN IF c.scan = "force" THEN Remaining(opened) ELSE opened

\* discover_controllers opens everything; a handle that is held is kept.
RustEnumerated(h, excluded) ==
  LET results == {s \in Serials : there[s] # None} IN
  [s \in Serials |-> IF s \in (results \ excluded) \ Held(h) THEN OpenAt(there[s]) ELSE h[s]]

RustDiscovers(c) ==
  LET verified == IF c.scan = "force" THEN handle ELSE Verified(handle)
  IN IF c.scan = "verify" THEN verified ELSE RustEnumerated(verified, c.excluded)

\* A controller already open stays as it is.
Opens(s) ==
  IF handle[s] # Closed \/ there[s] = None THEN handle
  ELSE [handle EXCEPT ![s] = OpenAt(there[s])]

\* open_controller_by_serial.
OpenedBySerial(s) == IF there[s] = None THEN Closed ELSE OpenAt(there[s])

RustOpens(s) == IF s \in Held(handle) THEN handle ELSE [handle EXCEPT ![s] = OpenedBySerial(s)]

Cleaned(s) == [handle EXCEPT ![s] = Closed]
AllClosed  == [s \in Serials |-> Closed]

\* The python service lets go of a controller whose write fails.
PythonWrites(s) == IF handle[s].lives THEN handle ELSE Cleaned(s)

-----------------------------------------------------------------------------
(* The device thread. *)

\* The answer reaches the call, if that still waits.
Answered(c) ==
  /\ asking' = IF c.awaited THEN None ELSE asking
  /\ listed' = IF c.awaited /\ c.op = "discover" THEN Held(handle') ELSE listed

PythonHandles ==
  LET c == Head(inbox) IN
  /\ kind = "python" /\ inbox # <<>> /\ inbox' = Tail(inbox)
  /\ handle' = CASE c.op = "discover" -> PythonDiscovers(c)
                 [] c.op = "open"     -> Opens(c.serial)
                 [] c.op = "output"   -> PythonWrites(c.serial)
                 [] c.op = "close"    -> Cleaned(c.serial)
                 [] c.op = "closeAll" -> AllClosed
  /\ Answered(c)
  /\ UNCHANGED <<kind, there, press, streamVars, requests, mishaps>>

\* One sender, replaced by that of a newer stream, and gone with any stream's end.
Registers(c) ==
  CASE c.op = "register"   -> {c.stream}
    [] c.op = "unregister" -> {}
    [] OTHER               -> registered

RustHandles ==
  LET c == Head(inbox) IN
  /\ kind = "rust" /\ inbox # <<>> /\ inbox' = Tail(inbox)
  /\ handle' = CASE c.op = "discover" -> RustDiscovers(c)
                 [] c.op = "open"     -> RustOpens(c.serial)
                 [] c.op = "close"    -> Cleaned(c.serial)
                 [] c.op = "closeAll" -> AllClosed
                 [] OTHER             -> handle
  /\ registered' = Registers(c) /\ Answered(c)
  /\ UNCHANGED <<kind, there, press, feed, leaving, late, linked, known, requests, mishaps>>

Full(q) == Len(q) = MaxFeed

Reading(s) == [serial |-> s, press |-> press[s]]

\* The queue of a stream that is registered; a full one drops its oldest.
Pushed(x) ==
  IF linked \notin registered THEN feed
  ELSE Append(IF Full(feed) THEN Tail(feed) ELSE feed, x)

\* _read_device: a dead handle is cleaned up.  Without a stream nothing is read.
PythonPolls(s) ==
  /\ kind = "python" /\ inbox = <<>> /\ handle[s] # Closed /\ registered # {}
  /\ IF handle[s].lives THEN feed' = Pushed(Reading(s)) /\ UNCHANGED handle
                        ELSE handle' = Cleaned(s) /\ UNCHANGED feed
  /\ UNCHANGED <<kind, there, press, registered, leaving, late, linked, known, callVars,
                 requests, mishaps>>

\* read_latest_input: a dead handle has nothing to say.
HasInput(s) == handle[s].lives

\* A full channel drops what is new.
RustPolls(s) ==
  /\ kind = "rust" /\ inbox = <<>> /\ HasInput(s) /\ linked \in registered /\ ~Full(feed)
  /\ feed' = Append(feed, Reading(s))
  /\ UNCHANGED <<kind, deviceVars, registered, leaving, late, linked, known, callVars, requests,
                 mishaps>>

-----------------------------------------------------------------------------
(* The streams. *)

\* StreamIO of the python service registers at once; that of rust-hid asks the
\* device thread to.
Starts(l) ==
  /\ linked' = l /\ feed' = <<>>
  /\ registered' = IF kind = "python" THEN registered \cup {l} ELSE registered

\* Names that no stream uses which is on, leaving or in a command.
FreeLinks == {l \in Links \ (leaving \cup registered) : \A i \in DOMAIN inbox : inbox[i].stream # l}

\* _ensure_stream.  A client that has gone is seen before its next scan.
Streaming ==
  IF linked # None THEN UNCHANGED <<linked, feed, registered>>
  ELSE leaving \subseteq late /\ FreeLinks # {} /\ Starts(CHOOSE l \in FreeLinks : TRUE)

Asked(op, s) == [op |-> op, serial |-> s, stream |-> None, scan |-> None, excluded |-> {},
                 awaited |-> op \in {"discover", "open"} \/ (kind = "python" /\ op = "close")]

\* Commands of a starting stream come first.
Queued(c) ==
  IF kind = "rust" /\ linked' # linked
  THEN inbox \o <<[Asked("register", None) EXCEPT !.stream = linked'], c>>
  ELSE Append(inbox, c)

\* The stream is over for the adapter.
Ends == linked' = None /\ feed' = <<>> /\ leaving' = leaving \cup {linked}

\* The service's task of a stream that has ended: rust-hid tells the device thread.
RustLeaves(l) ==
  /\ kind = "rust" /\ l \in leaving /\ leaving' = leaving \ {l} /\ late' = late \ {l}
  /\ inbox' = Append(inbox, [Asked("unregister", None) EXCEPT !.stream = l])
  /\ UNCHANGED <<kind, deviceVars, registered, feed, linked, known, asking, listed, requests,
                 mishaps>>

PythonLeaves(l) ==
  /\ kind = "python" /\ l \in leaving /\ leaving' = leaving \ {l} /\ late' = late \ {l}
  /\ registered' = registered \ {l}
  /\ UNCHANGED <<kind, deviceVars, feed, linked, known, callVars, requests, mishaps>>

\* rust-hid's stream ends when its sender has been dropped, and the last
\* reading is out.
SenderDropped ==
  /\ kind = "rust" /\ linked # None /\ linked \notin registered /\ feed = <<>>
  /\ \A i \in DOMAIN inbox : inbox[i].stream # linked
  /\ Ends
  /\ UNCHANGED <<kind, deviceVars, registered, late, known, callVars, requests, mishaps>>

Breaks ==
  /\ linked # None /\ Mishap /\ Ends /\ late' = late \cup {linked}
  /\ UNCHANGED <<kind, deviceVars, registered, known, callVars, requests>>

\* _stream_loop takes a reading.
Takes ==
  /\ feed # <<>> /\ feed' = Tail(feed)
  /\ known' = [known EXCEPT ![Head(feed).serial] = Head(feed).press]
  /\ UNCHANGED <<kind, deviceVars, registered, leaving, late, linked, callVars, requests, mishaps>>

-----------------------------------------------------------------------------
(* The adapter's calls. *)

Scan(scan, excluded) ==
  /\ asking = None /\ asking' = "discover" /\ Streaming
  /\ IF excluded = {} THEN UNCHANGED requests ELSE Request
  /\ inbox' = Queued([Asked("discover", None) EXCEPT !.scan = scan, !.excluded = excluded])
  /\ UNCHANGED <<kind, deviceVars, leaving, late, known, listed, mishaps>>

Open(s) ==
  /\ asking = None /\ Request /\ asking' = "open" /\ Streaming
  /\ inbox' = Queued(Asked("open", s))
  /\ UNCHANGED <<kind, deviceVars, leaving, late, known, listed, mishaps>>

Output(s) ==
  /\ linked # None /\ Request /\ inbox' = Append(inbox, Asked("output", s))
  /\ UNCHANGED <<kind, deviceVars, streamVars, asking, listed, mishaps>>

\* The python service answers when the controller is closed.
Close(s) ==
  /\ asking = None /\ Request /\ known' = [known EXCEPT ![s] = None]
  /\ asking' = IF kind = "python" THEN "close" ELSE None
  /\ inbox' = Append(inbox, Asked("close", s))
  /\ UNCHANGED <<kind, deviceVars, registered, feed, leaving, late, linked, listed, mishaps>>

\* close_all, when the manager stops; another manager begins.
CloseAll ==
  /\ asking = None /\ Request
  /\ IF linked = None THEN UNCHANGED <<linked, feed, leaving>> ELSE Ends
  /\ known' = [s \in Serials |-> None] /\ listed' = {}
  /\ inbox' = Append(inbox, Asked("closeAll", None))
  /\ UNCHANGED <<kind, deviceVars, registered, late, asking, mishaps>>

\* A call fails, or the python service gives up waiting for the device thread,
\* which finds the command all the same.
CallFails ==
  /\ asking # None /\ Mishap /\ asking' = None
  /\ listed' = IF asking = "discover" THEN {} ELSE listed
  /\ inbox' = [i \in DOMAIN inbox |-> [inbox[i] EXCEPT !.awaited = FALSE]]
  /\ UNCHANGED <<kind, deviceVars, streamVars, requests>>

-----------------------------------------------------------------------------
(* The controllers and the process. *)

Comes(s, p) ==
  /\ there[s] = None /\ \A t \in Serials : there[t] # p
  /\ there' = [there EXCEPT ![s] = p]
  /\ UNCHANGED <<kind, press, handle, streamVars, callVars, requests, mishaps>>

Goes(s) ==
  /\ there[s] # None /\ Mishap /\ there' = [there EXCEPT ![s] = None]
  /\ handle' = [handle EXCEPT ![s].lives = FALSE]
  /\ UNCHANGED <<kind, press, streamVars, callVars, requests>>

Presses(s) ==
  /\ there[s] # None /\ Request /\ press' = [press EXCEPT ![s] = ~@]
  /\ UNCHANGED <<kind, there, handle, streamVars, callVars, mishaps>>

\* The service is started again: its streams and calls fail.
Restarts ==
  /\ Mishap /\ handle' = AllClosed /\ inbox' = <<>>
  /\ registered' = {} /\ leaving' = {} /\ late' = {} /\ linked' = None /\ feed' = <<>>
  /\ asking' = None /\ listed' = IF asking = "discover" THEN {} ELSE listed
  /\ UNCHANGED <<kind, there, press, known, requests>>

-----------------------------------------------------------------------------
Handles == PythonHandles \/ RustHandles
Polls(s) == PythonPolls(s) \/ RustPolls(s)
Leaves == SenderDropped \/ \E l \in Links : RustLeaves(l) \/ PythonLeaves(l)

Next ==
  \/ Handles \/ Leaves \/ Takes \/ Breaks \/ CloseAll \/ CallFails \/ Restarts
  \/ \E scan \in {"force", "full", "verify"}, excluded \in SUBSET Serials : Scan(scan, excluded)
  \/ \E s \in Serials : Polls(s) \/ Open(s) \/ Output(s) \/ Close(s) \/ Goes(s) \/ Presses(s)
  \/ \E s \in Serials, p \in Paths : Comes(s, p)

\* The device thread and the tasks run on; again and again the manager scans in
\* full, without force.
Fairness ==
  /\ WF_hidVars(Handles) /\ WF_hidVars(Leaves) /\ WF_hidVars(Takes)
  /\ SF_hidVars(Scan("full", {})) /\ \A s \in Serials : SF_hidVars(Polls(s))

Spec == Init /\ [][Next]_hidVars /\ Fairness

-----------------------------------------------------------------------------
\* Every variable has its type.
TypeOK ==
  /\ kind \in Implementations /\ there \in [Serials -> Paths \cup {None}]
  /\ press \in [Serials -> BOOLEAN] /\ known \in [Serials -> BOOLEAN \cup {None}]
  /\ handle \in [Serials -> [at : Paths \cup {None}, lives : BOOLEAN]]
  /\ registered \subseteq Links /\ late \subseteq leaving /\ leaving \subseteq Links
  /\ linked \in Links \cup {None} /\ listed \subseteq Serials
  /\ asking \in {None, "discover", "open", "close"} /\ Len(feed) <= MaxFeed

\* When nothing goes wrong any more, a controller that is there comes to be
\* found by every scan and its readings to reach the manager; one that has gone
\* comes to be found no more.
ReadingsArrive ==
  \A s \in Serials :
    <>[](IF there[s] = None THEN s \notin listed
         ELSE s \in listed /\ linked # None /\ known[s] = press[s])
=============================================================================
