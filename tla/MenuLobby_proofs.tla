--------------------------- MODULE MenuLobby_proofs ---------------------------
(***************************************************************************)
(* Safety of the menu, for any number of controllers, lifecycle tasks and  *)
(* disturbances.                                                           *)
(*                                                                         *)
(* SomebodyBringsTheLobbyBack is inductive with the types: a lifecycle     *)
(* leaves Away only by bringing the lobby back, and whoever cancels it     *)
(* there leaves a trace in stranded.  The other three are not.  A ghost is *)
(* removed by a list that was captured before or after it left, and which  *)
(* of the two the queue must tell: an unread list differs from the present *)
(* controllers only in those with an event behind it (ListsAgree), and     *)
(* from the list before it only in its own controller (ListsFollow); so    *)
(* whoever is in the lobby and not in the last list read is a known ghost  *)
(* (LobbyIsSeen), and a sound that has been played, which puts its         *)
(* controller into the lobby whoever has left meanwhile, adds none.  One   *)
(* game at a time needs that the current lifecycle is the only one, and    *)
(* that a loop that joins a cancelled one leaves none alive                *)
(* (OneLifecycle).  Sleepers must not be left behind when a lifecycle      *)
(* stops the idle monitor: between the press that starts a game and that   *)
(* moment nobody is asleep (NobodySleeps).                                 *)
(***************************************************************************)
EXTENDS MenuLobby, FiniteSetTheorems, TLAPS

Listening == loop.at \notin {"off", "connect"}

\* The controllers as of the j-th unread event; before the first, as of what was read.
AsOf(j) == IF j = 0 THEN seen ELSE news[j].names

ListsAgree ==
  \A j \in 0..Len(news) : \A g \in Serials :
    (g \in AsOf(j)) # (g \in present) => \E i \in (j + 1)..Len(news) : news[i].serial = g

ListsFollow ==
  \A j \in 1..Len(news) : \A g \in Serials :
    g # news[j].serial => (g \in AsOf(j) <=> g \in AsOf(j - 1))

LobbyIsSeen == InLobby \ seen \subseteq ghosts /\ (loop.at = "sound" => loop.serial \in seen)

StreamTells == Listening => ListsAgree /\ ListsFollow /\ LobbyIsSeen

OneLifecycle ==
  remote \/ /\ \A t \in Tasks : waits[t] = 0
            /\ Live \subseteq {current}
            /\ loop.at = "joining" => Live = {}
            /\ (\E t \in Tasks : task[t].at = "stopping") => loop.at = "off"

Awake == \A s \in Serials : lobby[s] # "IDLE"

NobodySleeps ==
  /\ idle.active => idle.runs
  /\ remote \/ /\ ~idle.active => Awake
               /\ loop.at \in {"feedback", "joining"} => Awake
               /\ (\E t \in Tasks : task[t].at = "sleep") => Awake

IInv == /\ TypeOK /\ SomebodyBringsTheLobbyBack /\ StreamTells
        /\ OneLifecycle /\ NobodySleeps

USE DEF LoopAt, States, Away, InLobby, Live, Kinds, stream

\* A new lifecycle gets the name of one that is done.
LEMMA Spawned ==
  ASSUME Spawn
  PROVE  \E t \in Tasks : /\ task[t].at = "done" /\ task' = [task EXCEPT ![t].at = "sleep"]
                          /\ current' = t /\ stranded' = stranded
BY DEF Spawn

\* The menu as created satisfies the invariant.
LEMMA InitIInv == Init => IInv
<1> SUFFICES ASSUME Init
             PROVE  IInv
  OBVIOUS
<1>1. present \subseteq Serials /\ left \in [Kinds -> Nat]
  BY LobbyConstants DEF Init
<1>2. NoTask \in Courses /\ admin \in Admins
  BY LobbyConstants DEF Init, Courses, NoTask, TaskAt, Admins
<1>3. TypeOK
  <2>1. news \in Seq(Events) /\ waits \in [Tasks -> Nat] /\ task \in [Tasks -> Courses]
    BY <1>2 DEF Init
  <2>2. QED
    BY <1>1, <1>2, <2>1 DEF Init, TypeOK
<1>4. QED
  BY <1>3 DEF Init, NoTask, IInv, SomebodyBringsTheLobbyBack, StreamTells, Listening,
              OneLifecycle, NobodySleeps, Awake

-----------------------------------------------------------------------------
(* Every step keeps the types. *)

\* A disturbance uses up one of its kind.
LEMMA DisturbType ==
  ASSUME TypeOK, NEW kind \in Kinds, Disturb(kind)
  PROVE  left' \in [Kinds -> Nat]
BY DEF TypeOK, Disturb

\* What is published is an event in the queue.
LEMMA PublishType ==
  ASSUME TypeOK, NEW s \in Serials, NEW connect \in BOOLEAN, NEW now \in SUBSET Serials,
         NEW kept \in BOOLEAN, Publish(s, connect, now, kept)
  PROVE  news' \in Seq(Events)
<1>1. [serial |-> s, connect |-> connect, names |-> now, kept |-> kept] \in Events
  BY DEF Events
<1>2. QED
  BY <1>1 DEF TypeOK, Publish

\* A lifecycle that goes on, or is done with, is one.
LEMMA CourseType ==
  ASSUME TypeOK, NEW t \in Tasks
  PROVE  /\ \A at \in TaskAt : [task EXCEPT ![t].at = at] \in [Tasks -> Courses]
         /\ \A at \in TaskAt : [task EXCEPT ![t] = [NoTask EXCEPT !.at = at]] \in [Tasks -> Courses]
         /\ [task EXCEPT ![t] = NoTask] \in [Tasks -> Courses]
         /\ [task EXCEPT ![t].started = TRUE] \in [Tasks -> Courses]
<1>1. NoTask \in Courses /\ task \in [Tasks -> Courses]
  BY LobbyConstants DEF TypeOK, Courses, NoTask, TaskAt
<1>2. \A c \in Courses : \A at \in TaskAt : [c EXCEPT !.at = at] \in Courses
  BY DEF Courses
<1>3. \A c \in Courses : [c EXCEPT !.started = TRUE] \in Courses
  BY DEF Courses
<1>4. QED
  BY <1>1, <1>2, <1>3

\* In particular one that goes on.
LEMMA TaskType ==
  ASSUME TypeOK, NEW t \in Tasks, NEW at \in TaskAt, TaskGoes(t, at)
  PROVE  task' \in [Tasks -> Courses]
BY CourseType DEF TaskGoes

\* So is one that is started, from the event loop or by RPC.
LEMMA SpawnType ==
  ASSUME TypeOK, Spawn
  PROVE  task' \in [Tasks -> Courses] /\ current' \in Tasks /\ stranded' = stranded
<1>1. PICK t \in Tasks : /\ task' = [task EXCEPT ![t].at = "sleep"]
                         /\ current' = t /\ stranded' = stranded
  BY Spawned
<1>2. QED
  BY <1>1, CourseType DEF TaskAt

\* And what is left of one that is cancelled.
LEMMA CancelType ==
  ASSUME TypeOK, Busy, Cancel
  PROVE  /\ task' \in [Tasks -> Courses] /\ current' = current
         /\ stranded' \subseteq {"forced", "cancelled"}
<1>1. current \in Tasks
  BY DEF TypeOK, Busy
<1>2. CASE task[current].at = "stopping"
  BY <1>2 DEF TypeOK, Cancel
<1>3. CASE task[current].at # "stopping"
  <2>1. /\ task' = [task EXCEPT ![current] = NoTask] /\ current' = current
        /\ stranded' = stranded \/ stranded' = stranded \cup {"cancelled"}
    BY <1>3 DEF Cancel
  <2>2. task' \in [Tasks -> Courses]
    BY <1>1, <2>1, CourseType
  <2>3. QED
    BY <2>1, <2>2 DEF TypeOK
<1>4. QED
  BY <1>2, <1>3

\* A start from the event loop leaves a lifecycle, or waits for a cancelled one.
LEMMA StartType ==
  ASSUME TypeOK, LoopStarts
  PROVE  /\ task' \in [Tasks -> Courses] /\ current' \in Tasks \cup {None}
         /\ stranded' \subseteq {"forced", "cancelled"}
         /\ loop' \in {[at |-> "joining", serial |-> None], [at |-> "listen", serial |-> None]}
<1>1. CASE Busy
  BY <1>1, CancelType DEF TypeOK, LoopStarts, LoopGoes
<1>2. CASE ~Busy
  BY <1>2, SpawnType DEF TypeOK, LoopStarts, LoopGoes
<1>3. QED
  BY <1>1, <1>2

\* What the lobby's restart leaves.
LEMMA RestartType ==
  ASSUME TypeOK, NEW t \in Tasks, RestartLobby(t)
  PROVE  /\ menu' = "RUNNING" /\ task' \in [Tasks -> Courses]
         /\ loop' \in [at : LoopAt, serial : Serials \cup {None}]
<1>1. [task EXCEPT ![t] = [NoTask EXCEPT !.at = "waiting"]] \in [Tasks -> Courses]
  BY CourseType DEF TaskAt
<1>2. QED
  BY <1>1 DEF TypeOK, RestartLobby, LoopGoes

\* The table of controllers after a reset.
LEMMA ReconnectedType ==
  ASSUME TypeOK PROVE \A from : Reconnected(from) \in [Serials -> States]
BY DEF TypeOK, Reconnected

\* Admin mode after its operations.
LEMMA AdminExitsType ==
  ASSUME TypeOK
  PROVE  /\ AdminExits \in Admins
         /\ admin.hold # None => [AdminExits EXCEPT !.fired = TRUE] \in Admins
         /\ ~admin.fired => [admin EXCEPT !.hold = None] \in Admins
         /\ [admin EXCEPT !.timer = None] \in Admins
         /\ \A s \in Serials :
              /\ [admin EXCEPT !.serial = s, !.timer = s, !.combo = TRUE] \in Admins
              /\ [admin EXCEPT !.hold = s, !.fired = FALSE] \in Admins
         /\ [admin EXCEPT !.hold = None, !.fired = FALSE] \in Admins
         /\ [admin EXCEPT !.combo = FALSE] \in Admins
BY LobbyConstants DEF TypeOK, AdminExits, Admins

\* The table and admin mode after a connect or disconnect.
LEMMA DispatchType ==
  ASSUME TypeOK, NEW e \in Events, Dispatch(e)
  PROVE  lobby' \in [Serials -> States] /\ admin' \in Admins
<1> DEFINE known == IF e.connect THEN [lobby EXCEPT ![e.serial] = "CONNECTED"] ELSE lobby
<1>1. known \in [Serials -> States]
  BY DEF TypeOK
<1>2. lobby' \in [Serials -> States]
  <2> HIDE DEF known
  <2>1. lobby' = [x \in Serials |-> IF x \in Pruned(e, known) THEN "AWAY" ELSE known[x]]
    BY DEF Dispatch, known
  <2>2. QED
    BY <1>1, <2>1
<1>3. admin' \in {admin, AdminExits}
  BY DEF Dispatch
<1>4. QED
  BY <1>2, <1>3, AdminExitsType DEF TypeOK

\* Every step keeps the types.
LEMMA TypeStep == TypeOK /\ [Next]_vars => TypeOK'
<1> SUFFICES ASSUME TypeOK, [Next]_vars
             PROVE  TypeOK'
  OBVIOUS
<1> USE LobbyConstants
    DEF TypeOK
<1>1. CASE Connect
  BY <1>1 DEF Connect, LoopGoes
<1>2. CASE SoundPlayed
  <2>1. lobby' \in [Serials -> States]
    BY <1>2 DEF SoundPlayed
  <2>2. loop' \in [at : LoopAt, serial : Serials \cup {None}]
    BY <1>2 DEF SoundPlayed, LoopGoes
  <2>3. starting' \in BOOLEAN
    BY <1>2 DEF SoundPlayed
  <2>4. QED
    BY <1>2, <2>1, <2>2, <2>3 DEF SoundPlayed
<1>3. CASE FeedbackOver
  BY <1>3, StartType DEF FeedbackOver
<1>4. CASE LoopJoined
  BY <1>4, SpawnType DEF LoopJoined, LoopGoes
<1>5. CASE RemoteJoined
  <2>1. task' \in [Tasks -> Courses] /\ current' \in Tasks /\ stranded' = stranded
    BY <1>5, SpawnType DEF RemoteJoined
  <2>2. waits' \in [Tasks -> Nat]
    <3>1. PICK t \in Tasks : waits[t] > 0 /\ waits' = [waits EXCEPT ![t] = @ - 1]
      BY <1>5 DEF RemoteJoined
    <3>2. waits[t] - 1 \in Nat
      BY <3>1
    <3>3. QED
      BY <3>1, <3>2
  <2>3. QED
    BY <1>5, <2>1, <2>2 DEF RemoteJoined
<1>6. CASE RemoteStart
  <2>1. left' \in [Kinds -> Nat]
    BY <1>6, DisturbType DEF RemoteStart
  <2>2. CASE Busy
    BY <1>6, <2>1, <2>2, CancelType DEF RemoteStart
  <2>3. CASE ~Busy
    BY <1>6, <2>1, <2>3, SpawnType DEF RemoteStart
  <2>4. QED
    BY <2>2, <2>3
<1>7. CASE StreamBreaks
  BY <1>7, DisturbType DEF StreamBreaks, LoopLeaves, LoopGoes
<1>8. CASE ComboReleased
  BY <1>8, AdminExitsType DEF ComboReleased
<1>9. CASE AdminTimeout
  <2>1. lobby' \in [Serials -> States]
    BY <1>9 DEF AdminTimeout
  <2>2. admin' \in Admins
    BY <1>9, AdminExitsType DEF AdminTimeout
  <2>3. QED
    BY <1>9, <2>1, <2>2 DEF AdminTimeout
<1>10. CASE HoldOver
  <2>1. admin' \in Admins
    BY <1>10, AdminExitsType DEF HoldOver
  <2>2. QED
    BY <1>10, <2>1 DEF HoldOver
<1>11. CASE ForceStart
  <2>1. admin' \in Admins
    BY <1>11, AdminExitsType DEF ForceStart
  <2>2. QED
    BY <1>11, <2>1 DEF ForceStart
<1>12. CASE EnterIdle
  <2>1. lobby' \in [Serials -> States] /\ left' \in [Kinds -> Nat]
    BY <1>12, DisturbType DEF EnterIdle
  <2>2. QED
    BY <1>12, <2>1 DEF EnterIdle
<1>13. CASE StartMenu
  BY <1>13, ReconnectedType, DisturbType DEF StartMenu, Reconnected, IdleStarts
<1>14. CASE StopMenu
  BY <1>14, DisturbType DEF StopMenu
<1>15. CASE ResetMenu
  BY <1>15, DisturbType DEF ResetMenu
<1>16. ASSUME NEW s \in Serials, ComeOrGo(s) PROVE TypeOK'
  <2>1. PICK kept \in BOOLEAN : Publish(s, s \notin present, present', kept)
    BY <1>16 DEF ComeOrGo
  <2>2. present' \in SUBSET Serials /\ left' \in [Kinds -> Nat]
    BY <1>16, DisturbType DEF ComeOrGo
  <2>3. news' \in Seq(Events)
    <3> DEFINE connect == s \notin present
    <3>1. connect \in BOOLEAN /\ Publish(s, connect, present', kept)
      BY <2>1
    <3> HIDE DEF connect
    <3>2. QED
      BY <2>2, <3>1, PublishType
  <2>4. QED
    BY <1>16, <2>2, <2>3 DEF ComeOrGo
<1>17. ASSUME NEW s \in Serials, ReceiveGreeting(s) PROVE TypeOK'
  <2>1. [serial |-> s, connect |-> TRUE, names |-> seen, kept |-> TRUE] \in Events
    BY DEF Events
  <2>2. lobby' \in [Serials -> States] /\ admin' \in Admins
    BY <1>17, <2>1, DispatchType DEF ReceiveGreeting
  <2>3. QED
    BY <1>17, <2>2 DEF ReceiveGreeting
<1>34. ASSUME NEW s \in Serials, SetUpFails(s) PROVE TypeOK'
  <2>1. news' \in Seq(Events)
    BY <1>34, PublishType DEF SetUpFails
  <2>2. QED
    BY <1>34, <2>1, DisturbType DEF SetUpFails
<1>38. CASE ReceiveNews
  <2>1. Head(news) \in Events /\ Tail(news) \in Seq(Events)
    BY <1>38 DEF ReceiveNews
  <2>2. lobby' \in [Serials -> States] /\ admin' \in Admins
    BY <1>38, <2>1, DispatchType DEF ReceiveNews
  <2>3. /\ news' = Tail(news) /\ seen' = Head(news).names /\ ghosts' = GhostsAfter(Head(news))
        /\ greet = {} /\ greet' = {}
    BY <1>38 DEF ReceiveNews
  <2>4. seen' \subseteq Serials /\ ghosts' \subseteq Serials /\ greet' \subseteq seen'
    BY <2>1, <2>3 DEF GhostsAfter, Events
  <2>5. QED
    BY <1>38, <2>1, <2>2, <2>3, <2>4 DEF ReceiveNews
<1>18. ASSUME NEW s \in Serials, TriggerConnected(s) PROVE TypeOK'
  BY <1>18 DEF TriggerConnected, LoopGoes, Heard
<1>19. ASSUME NEW s \in Serials, TriggerReady(s) PROVE TypeOK'
  BY <1>19, StartType DEF TriggerReady
<1>20. ASSUME NEW s \in Serials, MoveReady(s) PROVE TypeOK'
  BY <1>20 DEF MoveReady, Heard
<1>21. ASSUME NEW s \in Serials, SelectConnected(s) PROVE TypeOK'
  BY <1>21, DisturbType DEF SelectConnected, LoopLeaves, LoopGoes, Heard
<1>22. ASSUME NEW s \in Serials, AnyButton(s) PROVE TypeOK'
  BY <1>22 DEF AnyButton, Heard
<1>23. ASSUME NEW s \in Serials, Wake(s) PROVE TypeOK'
  BY <1>23, ReconnectedType DEF Wake, Reconnected, Heard
<1>24. ASSUME NEW s \in Serials, Combo(s) PROVE TypeOK'
  <2>1. admin' \in Admins
    BY <1>24, AdminExitsType DEF Combo
  <2>2. QED
    BY <1>24, <2>1, DisturbType DEF Combo
<1>25. ASSUME NEW s \in Serials, LeaveAdmin(s) PROVE TypeOK'
  BY <1>25, AdminExitsType DEF LeaveAdmin, AdminExits, Heard
<1>26. ASSUME NEW s \in Serials, HoldTrigger(s) PROVE TypeOK'
  BY <1>26, AdminExitsType DEF HoldTrigger, Heard
<1>27. ASSUME NEW s \in Serials, ReleaseTrigger(s) PROVE TypeOK'
  BY <1>27, AdminExitsType DEF ReleaseTrigger, Heard
<1>28. ASSUME NEW t \in Tasks, Slept(t) PROVE TypeOK'
  <2>1. CASE TaskGoes(t, "done") /\ idle' = idle
    <3>1. task' \in [Tasks -> Courses]
      BY <2>1, CourseType DEF TaskGoes, TaskAt
    <3>2. QED
      BY <1>28, <2>1, <3>1 DEF Slept
  <2>2. CASE TaskGoes(t, "music") /\ idle' = [runs |-> FALSE, active |-> FALSE]
    <3>1. task' \in [Tasks -> Courses]
      BY <2>2, TaskType DEF TaskAt
    <3>2. QED
      BY <1>28, <2>2, <3>1 DEF Slept
  <2>3. QED
    BY <1>28, <2>1, <2>2, Zenon DEF Slept
<1>29. ASSUME NEW t \in Tasks, MusicStopped(t) PROVE TypeOK'
  <2>1. task' \in [Tasks -> Courses]
    BY <1>29, TaskType DEF MusicStopped, TaskAt
  <2>2. loop' \in [at : LoopAt, serial : Serials \cup {None}] /\ news' \in Seq(Events)
    BY <1>29 DEF MusicStopped, LoopLeaves, LoopGoes
  <2>3. QED
    BY <1>29, <2>1, <2>2 DEF MusicStopped, LoopLeaves
<1>30. ASSUME NEW t \in Tasks, LoopStopped(t) PROVE TypeOK'
  <2>1. TaskGoes(t, "stream")
    BY <1>30 DEF LoopStopped
  <2>2. task' \in [Tasks -> Courses]
    BY <2>1, TaskType DEF TaskAt
  <2>3. QED
    BY <1>30, <2>2 DEF LoopStopped
<1>31. ASSUME NEW t \in Tasks, FirstEvent(t) PROVE TypeOK'
  <2>1. task' \in [Tasks -> Courses] /\ lobby' \in [Serials -> States]
    BY <1>31, CourseType, ReconnectedType DEF FirstEvent
  <2>2. QED
    BY <1>31, <2>1 DEF FirstEvent
<1>32. ASSUME NEW t \in Tasks, StartRefused(t) PROVE TypeOK'
  BY <1>32, RestartType DEF StartRefused
<1>33. ASSUME NEW t \in Tasks, GameEnded(t) PROVE TypeOK'
  BY <1>33, RestartType DEF GameEnded
<1>35. ASSUME NEW t \in Tasks, ResetLobby(t) PROVE TypeOK'
  <2>1. TaskGoes(t, "lights")
    BY <1>35 DEF ResetLobby
  <2>2. task' \in [Tasks -> Courses]
    BY <2>1, TaskType DEF TaskAt
  <2>3. QED
    <3>1. lobby' \in [Serials -> States] /\ starting' = FALSE
      BY <1>35, ReconnectedType DEF ResetLobby
    <3>2. QED
      <4>1. UNCHANGED <<menu, present, stream, loop, waits, current, idle, admin, left,
                       stranded, remote>>
        BY <1>35 DEF ResetLobby
      <4>2. QED
        BY <2>2, <3>1, <4>1
<1>36. ASSUME NEW t \in Tasks, LobbyBack(t) PROVE TypeOK'
  <2>1. TaskGoes(t, "done")
    BY <1>36 DEF LobbyBack
  <2>2. task' \in [Tasks -> Courses]
    BY <2>1, TaskType DEF TaskAt
  <2>3. QED
    BY <1>36, <2>2 DEF LobbyBack, IdleStarts
<1>37. ASSUME NEW t \in Tasks, StreamGivesUp(t) PROVE TypeOK'
  BY <1>37, RestartType DEF StreamGivesUp
<1>39. ASSUME NEW s \in Serials, Announces(s) PROVE TypeOK'
  BY <1>39 DEF Announces, LoopGoes, Heard
<1>41. CASE Announced
  BY <1>41 DEF Announced, LoopGoes
<1>42. CASE UNCHANGED vars
  BY <1>42 DEF vars
<1>43. QED
  BY <1>1, <1>2, <1>3, <1>4, <1>5, <1>6, <1>7, <1>8, <1>9, <1>10, <1>11, <1>12, <1>13, <1>14,
     <1>15, <1>16, <1>17, <1>18, <1>19, <1>20, <1>21, <1>22, <1>23, <1>24, <1>25, <1>26, <1>27,
     <1>28, <1>29, <1>30, <1>31, <1>32, <1>33, <1>34, <1>35, <1>36, <1>37, <1>38, <1>39,
     <1>41, <1>42
  DEF Next, LoopStep, Button, Lifecycle, ChangeSensitivity, ToggleInstructions,
      ChangeValue

\* An event published about s, when only s came or went, keeps the lists in order.
LEMMA Published ==
  ASSUME TypeOK, ListsAgree, ListsFollow, NEW s \in Serials, NEW connect, NEW kept,
         present' \subseteq Serials, \A g \in Serials : g # s => (g \in present' <=> g \in present),
         seen' = seen,
         news' = Append(news, [serial |-> s, connect |-> connect, names |-> present',
                               kept |-> kept])
  PROVE  ListsAgree' /\ ListsFollow'
<1> DEFINE e == [serial |-> s, connect |-> connect, names |-> present', kept |-> kept]
<1>1. Len(news) \in Nat /\ news \in Seq(Events)
  BY DEF TypeOK
<1>2. /\ Len(news') = Len(news) + 1 /\ news'[Len(news) + 1] = e
      /\ \A i \in 1..Len(news) : news'[i] = news[i]
  BY <1>1
<1>3. e.serial = s /\ e.names = present'
  OBVIOUS
<1> HIDE DEF e
<1>4. /\ \A j \in Nat : j = Len(news) + 1 => AsOf(j)' = present'
      /\ \A j \in 0..Len(news) : AsOf(j)' = AsOf(j)
  <2>1. ASSUME NEW j \in Nat, j = Len(news) + 1 PROVE AsOf(j)' = present'
    <3>1. j # 0
      BY <1>1, <2>1
    <3>2. QED
      BY <1>2, <1>3, <2>1, <3>1 DEF AsOf
  <2>2. ASSUME NEW j \in 0..Len(news) PROVE AsOf(j)' = AsOf(j)
    <3>1. j = 0 \/ j \in 1..Len(news)
      BY <1>1
    <3>2. QED
      BY <1>2, <3>1 DEF AsOf
  <2>3. QED
    BY <2>1, <2>2
<1>5. \A g \in Serials : g \in AsOf(Len(news)) <=> g \in present
  BY <1>1 DEF ListsAgree
<1>6. ListsAgree'
  <2> SUFFICES ASSUME NEW j \in 0..(Len(news) + 1), NEW g \in Serials,
                      (g \in AsOf(j)') # (g \in present')
               PROVE  \E i \in (j + 1)..(Len(news) + 1) : news'[i].serial = g
    BY <1>2 DEF ListsAgree
  <2>1. j \in 0..Len(news)
    <3>1. CASE j = Len(news) + 1
      BY <1>1, <1>4, <3>1
    <3>2. QED
      BY <1>1, <3>1
  <2>2. CASE g = s
    BY <1>1, <1>2, <1>3, <2>1, <2>2
  <2>3. CASE g # s
    <3>1. (g \in AsOf(j)) # (g \in present)
      BY <1>4, <2>1, <2>3
    <3>2. PICK i \in (j + 1)..Len(news) : news[i].serial = g
      BY <2>1, <3>1 DEF ListsAgree
    <3>3. QED
      BY <1>1, <1>2, <2>1, <3>2
  <2>4. QED
    BY <2>2, <2>3
<1>7. ListsFollow'
  <2> SUFFICES ASSUME NEW j \in 1..(Len(news) + 1), NEW g \in Serials, g # news'[j].serial
               PROVE  g \in AsOf(j)' <=> g \in AsOf(j - 1)'
    BY <1>2 DEF ListsFollow
  <2>1. CASE j = Len(news) + 1
    <3>1. j - 1 = Len(news) /\ Len(news) \in 0..Len(news) /\ g # s
      BY <1>1, <1>2, <1>3, <2>1
    <3>2. AsOf(j)' = present' /\ AsOf(j - 1)' = AsOf(j - 1)
      BY <1>1, <1>4, <2>1, <3>1
    <3>3. QED
      BY <1>5, <3>1, <3>2
  <2>2. CASE j \in 1..Len(news)
    BY <1>1, <1>2, <1>4, <2>2 DEF ListsFollow
  <2>3. QED
    BY <1>1, <2>1, <2>2
<1>8. QED
  BY <1>6, <1>7

\* So does reading the next event.
LEMMA PassedOver ==
  ASSUME TypeOK, ListsAgree, ListsFollow, news # <<>>,
         present' = present, news' = Tail(news), seen' = Head(news).names
  PROVE  ListsAgree' /\ ListsFollow'
<1>1. Len(news) \in Nat /\ Len(news) >= 1 /\ news \in Seq(Events)
  BY DEF TypeOK
<1>2. /\ Len(news') = Len(news) - 1 /\ seen' = news[1].names
      /\ \A i \in 1..(Len(news) - 1) : news'[i] = news[i + 1]
  BY <1>1
<1>3. \A j \in 0..(Len(news) - 1) : AsOf(j)' = AsOf(j + 1)
  BY <1>1, <1>2 DEF AsOf
<1>4. ListsAgree'
  <2> SUFFICES ASSUME NEW j \in 0..(Len(news) - 1), NEW g \in Serials,
                      (g \in AsOf(j)') # (g \in present)
               PROVE  \E i \in (j + 1)..(Len(news) - 1) : news'[i].serial = g
    BY <1>2 DEF ListsAgree
  <2>1. (g \in AsOf(j + 1)) # (g \in present) /\ j + 1 \in 0..Len(news)
    BY <1>1, <1>3
  <2>2. PICK i \in (j + 2)..Len(news) : news[i].serial = g
    BY <2>1 DEF ListsAgree
  <2>3. i - 1 \in (j + 1)..(Len(news) - 1) /\ news'[i - 1].serial = g
    BY <1>1, <1>2, <2>2
  <2>4. QED
    BY <2>3
<1>5. ListsFollow'
  <2> SUFFICES ASSUME NEW j \in 1..(Len(news) - 1), NEW g \in Serials, g # news'[j].serial
               PROVE  g \in AsOf(j)' <=> g \in AsOf(j - 1)'
    BY <1>2 DEF ListsFollow
  <2>1. /\ news'[j] = news[j + 1] /\ j + 1 \in 1..Len(news) /\ (j + 1) - 1 = j
        /\ AsOf(j)' = AsOf(j + 1) /\ AsOf(j - 1)' = AsOf(j)
    BY <1>1, <1>2, <1>3
  <2>2. QED
    BY <2>1 DEF ListsFollow
<1>6. QED
  BY <1>4, <1>5

\* Where nothing is read or published, and the lobby gets nobody new, the
\* stream goes on telling.
LEMMA StreamKept ==
  ASSUME StreamTells, UNCHANGED <<present, stream>>, Listening' => Listening,
         \A s \in Serials : lobby'[s] # "AWAY" => lobby[s] # "AWAY" \/ s \in seen,
         loop' = loop \/ loop'.at # "sound" \/ loop'.serial \in seen
  PROVE  StreamTells'
<1> SUFFICES ASSUME Listening
             PROVE  (ListsAgree /\ ListsFollow /\ LobbyIsSeen)'
  BY DEF StreamTells
<1>1. ListsAgree' /\ ListsFollow'
  BY DEF StreamTells, ListsAgree, ListsFollow, AsOf
<1>2. LobbyIsSeen'
  BY DEF StreamTells, LobbyIsSeen
<1>3. QED
  BY <1>1, <1>2

\* A connect or disconnect adds nobody to the lobby its list does not name,
\* unless it has no list.
LEMMA Dispatched ==
  ASSUME TypeOK, NEW e \in Events, Dispatch(e), NEW s \in Serials, lobby'[s] # "AWAY"
  PROVE  /\ e.names # {} => s \in e.names
         /\ lobby[s] # "AWAY" \/ (e.connect /\ s = e.serial)
         /\ e.connect \/ s # e.serial
<1> DEFINE known == IF e.connect THEN [lobby EXCEPT ![e.serial] = "CONNECTED"] ELSE lobby
<1>1. s \notin Pruned(e, known) /\ known[s] # "AWAY"
  BY DEF Dispatch
<1>2. QED
  BY <1>1 DEF Pruned, Events, TypeOK

\* A start sends the event loop back to its stream, or to wait.
LEMMA LoopStartGoes ==
  ASSUME LoopStarts PROVE loop'.at \in {"joining", "listen"}
BY DEF LoopStarts, LoopGoes

\* A restart touches only an event loop that is off.
LEMMA RestartGoes ==
  ASSUME NEW t \in Tasks, RestartLobby(t)
  PROVE  loop' = loop \/ (~Listening /\ ~Listening' /\ loop'.at = "connect")
BY DEF RestartLobby, LoopGoes, Listening

\* Either way the stream goes on telling.
LEMMA RestartKeeps ==
  ASSUME StreamTells, NEW t \in Tasks, RestartLobby(t), UNCHANGED <<lobby, present, stream>>
  PROVE  StreamTells'
<1>1. CASE loop' = loop
  BY <1>1, StreamKept DEF Listening
<1>2. CASE ~Listening'
  BY <1>2 DEF StreamTells
<1>3. QED
  BY <1>1, <1>2, RestartGoes

\* Every step keeps the order of the stream.
LEMMA StreamStep == (TypeOK /\ StreamTells) /\ [Next]_vars => StreamTells'
<1> SUFFICES ASSUME TypeOK, StreamTells, [Next]_vars
             PROVE  StreamTells'
  OBVIOUS
<1> USE LobbyConstants
<1>1. CASE Connect
  BY <1>1 DEF Connect, LoopGoes, StreamTells, ListsAgree, ListsFollow, LobbyIsSeen, AsOf
<1>2. CASE SoundPlayed
  BY <1>2, StreamKept DEF SoundPlayed, LoopGoes, Listening, TypeOK, StreamTells, LobbyIsSeen
<1>3. CASE FeedbackOver
  BY <1>3, StreamKept, LoopStartGoes DEF FeedbackOver, Listening
<1>4. CASE LoopJoined
  BY <1>4, StreamKept DEF LoopJoined, LoopGoes, Listening
<1>5. CASE StreamBreaks
  BY <1>5 DEF StreamBreaks, LoopLeaves, LoopGoes, StreamTells, Listening
<1>6. CASE AdminTimeout
  BY <1>6, StreamKept DEF AdminTimeout, TypeOK, Listening, StreamTells, LobbyIsSeen
<1>7. CASE EnterIdle
  BY <1>7, StreamKept DEF EnterIdle, Listening, StreamTells, LobbyIsSeen
<1>8. CASE StartMenu
  BY <1>8, StreamKept DEF StartMenu, Reconnected, Listening, StreamTells, LobbyIsSeen
<1>9. CASE StopMenu
  BY <1>9, StreamKept DEF StopMenu, Listening, StreamTells, LobbyIsSeen
<1>10. ASSUME NEW s \in Serials, NEW kept \in BOOLEAN, NEW connect,
              Publish(s, connect, present', kept),
              present' \subseteq Serials,
              \A g \in Serials : g # s => (g \in present' <=> g \in present),
              UNCHANGED <<seen, ghosts, lobby, loop>>
       PROVE  StreamTells'
  <2> SUFFICES ASSUME Listening PROVE (ListsAgree /\ ListsFollow /\ LobbyIsSeen)'
    BY <1>10 DEF StreamTells, Listening
  <2>1. news' = Append(news, [serial |-> s, connect |-> connect, names |-> present',
                              kept |-> kept])
    BY <1>10 DEF Publish, Listening
  <2>2. ListsAgree' /\ ListsFollow'
    BY <1>10, <2>1, Published DEF StreamTells
  <2>3. LobbyIsSeen'
    BY <1>10 DEF StreamTells, LobbyIsSeen
  <2>4. QED
    BY <2>2, <2>3
<1>11. ASSUME NEW s \in Serials, ComeOrGo(s) PROVE StreamTells'
  <2>1. PICK kept \in BOOLEAN : Publish(s, s \notin present, present', kept)
    BY <1>11 DEF ComeOrGo
  <2>2. /\ present' \subseteq Serials
        /\ \A g \in Serials : g # s => (g \in present' <=> g \in present)
        /\ UNCHANGED <<seen, ghosts, lobby, loop>>
    BY <1>11 DEF ComeOrGo, TypeOK
  <2>3. QED
    BY <1>10, <2>1, <2>2
<1>12. ASSUME NEW s \in Serials, SetUpFails(s) PROVE StreamTells'
  <2>1. Publish(s, TRUE, present', TRUE)
    BY <1>12 DEF SetUpFails, Publish
  <2>2. QED
    BY <1>10, <1>12, <2>1 DEF SetUpFails, TypeOK
<1>13. ASSUME NEW s \in Serials, ReceiveGreeting(s) PROVE StreamTells'
  <2> DEFINE e == [serial |-> s, connect |-> TRUE, names |-> seen, kept |-> TRUE]
  <2>1. e \in Events /\ e.names = seen /\ seen # {} /\ Dispatch(e) /\ Listening
    BY <1>13 DEF ReceiveGreeting, TypeOK, Events, Listening
  <2> HIDE DEF e
  <2>2. \A g \in Serials : lobby'[g] # "AWAY" => g \in seen
    BY <2>1, Dispatched
  <2>3. QED
    <3>1. /\ UNCHANGED <<present, news, seen, ghosts, loop>>
          /\ loop.at = "listen"
      BY <1>13 DEF ReceiveGreeting
    <3>2. ListsAgree' /\ ListsFollow'
      BY <2>1, <3>1 DEF StreamTells, ListsAgree, ListsFollow, AsOf
    <3>3. LobbyIsSeen'
      BY <2>2, <3>1 DEF LobbyIsSeen
    <3>4. QED
      BY <3>2, <3>3 DEF StreamTells
<1>14. CASE ReceiveNews
  <2> DEFINE e == Head(news)
  <2>1. /\ e \in Events /\ e = news[1] /\ Len(news) \in Nat /\ 1 \in 1..Len(news)
        /\ news # <<>>
    BY <1>14 DEF ReceiveNews, TypeOK
  <2>2. /\ loop.at = "listen" /\ loop' = loop /\ present' = present
        /\ news' = Tail(news) /\ seen' = e.names /\ ghosts' = GhostsAfter(e)
        /\ e.kept => Dispatch(e)
        /\ ~e.kept => lobby' = lobby
    BY <1>14 DEF ReceiveNews
  <2>3. ListsAgree /\ ListsFollow /\ LobbyIsSeen
    BY <2>2 DEF StreamTells, Listening
  <2>4. ListsAgree' /\ ListsFollow'
    BY <2>1, <2>2, <2>3, PassedOver
  <2>5. \A g \in Serials : g # e.serial => (g \in e.names <=> g \in seen)
    BY <2>1, <2>3 DEF ListsFollow, AsOf
  <2>6. e.serial \in Serials /\ e.connect \in BOOLEAN /\ e.kept \in BOOLEAN
    BY <2>1 DEF Events
  <2> HIDE DEF e
  <2>7. ASSUME NEW g \in Serials, lobby'[g] # "AWAY", g \notin e.names
        PROVE  g \in GhostsAfter(e)
    <3>1. CASE e.kept
      <4>1. /\ e.names # {} => g \in e.names
            /\ lobby[g] # "AWAY" \/ (e.connect /\ g = e.serial)
            /\ e.connect \/ g # e.serial
        BY <2>1, <2>2, <2>7, <3>1, Dispatched
      <4>2. e.names = {}
        BY <2>7, <4>1
      <4>3. g # e.serial => g \in ghosts
        BY <2>3, <2>5, <2>7, <4>1 DEF LobbyIsSeen
      <4>4. QED
        BY <2>6, <3>1, <4>1, <4>2, <4>3 DEF GhostsAfter
    <3>2. CASE ~e.kept
      <4>1. lobby[g] # "AWAY" /\ (g # e.serial => g \in ghosts)
        BY <2>2, <2>3, <2>5, <2>7, <3>2 DEF LobbyIsSeen
      <4>2. QED
        BY <2>6, <2>7, <3>2, <4>1 DEF GhostsAfter
    <3>3. QED
      BY <2>6, <3>1, <3>2
  <2>8. LobbyIsSeen'
    BY <2>2, <2>7 DEF LobbyIsSeen
  <2>9. QED
    BY <2>4, <2>8 DEF StreamTells
<1>15. ASSUME NEW s \in Serials, TriggerConnected(s) PROVE StreamTells'
  BY <1>15, StreamKept DEF TriggerConnected, LoopGoes, Heard, Listening, TypeOK
<1>16. ASSUME NEW s \in Serials, TriggerReady(s) PROVE StreamTells'
  BY <1>16, StreamKept, LoopStartGoes DEF TriggerReady, Heard, Listening
<1>17. ASSUME NEW s \in Serials, MoveReady(s) PROVE StreamTells'
  BY <1>17, StreamKept DEF MoveReady, Heard, Listening, TypeOK
<1>18. ASSUME NEW s \in Serials, SelectConnected(s) PROVE StreamTells'
  BY <1>18 DEF SelectConnected, LoopLeaves, LoopGoes, StreamTells, Listening
<1>19. ASSUME NEW s \in Serials, AnyButton(s) PROVE StreamTells'
  BY <1>19, StreamKept DEF AnyButton, Heard, Listening, TypeOK
<1>20. ASSUME NEW s \in Serials, Wake(s) PROVE StreamTells'
  BY <1>20, StreamKept DEF Wake, Reconnected, Heard, Listening, TypeOK
<1>21. ASSUME NEW s \in Serials, Combo(s) PROVE StreamTells'
  BY <1>21, StreamKept DEF Combo, Heard, Listening, TypeOK
<1>22. ASSUME NEW s \in Serials, LeaveAdmin(s) PROVE StreamTells'
  BY <1>22, StreamKept DEF LeaveAdmin, Heard, Listening, TypeOK
<1>23. ASSUME NEW t \in Tasks, MusicStopped(t) PROVE StreamTells'
  BY <1>23 DEF MusicStopped, LoopLeaves, LoopGoes, StreamTells, Listening
<1>24. ASSUME NEW t \in Tasks, FirstEvent(t) PROVE StreamTells'
  BY <1>24, StreamKept DEF FirstEvent, Reconnected, Listening, StreamTells, LobbyIsSeen
<1>25. ASSUME NEW t \in Tasks, StartRefused(t) PROVE StreamTells'
  BY <1>25, RestartKeeps DEF StartRefused
<1>26. ASSUME NEW t \in Tasks, GameEnded(t) PROVE StreamTells'
  BY <1>26, RestartKeeps DEF GameEnded
<1>27. ASSUME NEW t \in Tasks, StreamGivesUp(t) PROVE StreamTells'
  BY <1>27, RestartKeeps DEF StreamGivesUp
<1>28. ASSUME NEW t \in Tasks, ResetLobby(t) PROVE StreamTells'
  BY <1>28, StreamKept DEF ResetLobby, Reconnected, Listening, StreamTells, LobbyIsSeen
<1>29. ASSUME NEW s \in Serials, Announces(s) PROVE StreamTells'
  BY <1>29, StreamKept DEF Announces, LoopGoes, Heard, Listening
<1>30. CASE Announced
  BY <1>30, StreamKept DEF Announced, LoopGoes, Listening
<1>31. CASE UNCHANGED <<loop, lobby, present, news, seen, ghosts>>
  BY <1>31 DEF StreamTells, Listening, ListsAgree, ListsFollow, LobbyIsSeen, AsOf
<1>32. QED
  BY <1>1, <1>2, <1>3, <1>4, <1>5, <1>6, <1>7, <1>8, <1>9, <1>11, <1>12, <1>13, <1>14,
     <1>15, <1>16, <1>17, <1>18, <1>19, <1>20, <1>21, <1>22, <1>23, <1>24, <1>25, <1>26,
     <1>27, <1>28, <1>29, <1>30, <1>31
  DEF Next, vars, ChangeSensitivity, ToggleInstructions, ChangeValue, LoopStep, Button,
      Lifecycle, RemoteJoined, RemoteStart, ComboReleased, HoldOver, ForceStart, ResetMenu,
      HoldTrigger, ReleaseTrigger, Slept, LoopStopped, LobbyBack

\* A start by the event loop keeps the lifecycles in hand.
LEMMA LoopStartStep ==
  ASSUME TypeOK, SomebodyBringsTheLobbyBack, OneLifecycle, loop.at # "off", LoopStarts,
         UNCHANGED <<menu, waits, remote>>
  PROVE  SomebodyBringsTheLobbyBack' /\ OneLifecycle'
<1> USE DEF TypeOK
<1>1. CASE Busy
  <2>1. loop' = [at |-> "joining", serial |-> None] /\ current \in Tasks /\ current' = current
    BY <1>1 DEF LoopStarts, LoopGoes, Busy, Cancel
  <2>2. \/ UNCHANGED <<task, stranded>> /\ task[current].at = "stopping"
        \/ /\ task' = [task EXCEPT ![current] = NoTask]
           /\ task[current].at \in Away => stranded' # {}
           /\ stranded # {} => stranded' # {}
    BY <1>1 DEF LoopStarts, Cancel
  <2>3. SomebodyBringsTheLobbyBack'
    <3>1. ASSUME NEW t \in Tasks, task[t].at \in Away
          PROVE  stranded' # {} \/ \E u \in Tasks : task'[u].at \in Away
      BY <2>1, <2>2, <3>1
    <3>2. stranded # {} => stranded' # {}
      BY <2>2
    <3>3. QED
      BY <2>1, <3>1, <3>2 DEF SomebodyBringsTheLobbyBack
  <2>4. OneLifecycle'
    <3> SUFFICES ASSUME ~remote PROVE OneLifecycle'
      BY DEF OneLifecycle
    <3>1. task' = [task EXCEPT ![current] = NoTask] /\ Live \subseteq {current}
      BY <2>1, <2>2 DEF OneLifecycle
    <3>2. \A t \in Tasks : task'[t].at = "done"
      BY <2>1, <3>1 DEF NoTask
    <3>3. QED
      BY <2>1, <3>2 DEF OneLifecycle
  <2>5. QED
    BY <2>3, <2>4
<1>2. CASE ~Busy
  <2>1. loop' = [at |-> "listen", serial |-> None]
    BY <1>2 DEF LoopStarts, LoopGoes
  <2>2. PICK t \in Tasks : /\ task[t].at = "done" /\ task' = [task EXCEPT ![t].at = "sleep"]
                          /\ current' = t /\ stranded' = stranded
    BY <1>2, Spawned DEF LoopStarts
  <2>3. SomebodyBringsTheLobbyBack'
    BY <2>1, <2>2 DEF SomebodyBringsTheLobbyBack
  <2>4. OneLifecycle'
    <3> SUFFICES ASSUME ~remote PROVE OneLifecycle'
      BY DEF OneLifecycle
    <3>1. \A u \in Tasks : task[u].at = "done"
      <4>1. \A u \in Tasks : task[u].at # "done" => u = current
        BY DEF OneLifecycle
      <4>2. current \in Tasks => task[current].at = "done"
        BY <1>2, LobbyConstants DEF Busy
      <4>3. QED
        BY <4>1, <4>2
    <3>2. \A u \in Tasks : u # t => task'[u].at = "done"
      BY <2>2, <3>1
    <3>3. task'[t].at = "sleep"
      BY <2>2
    <3>4. QED
      BY <2>1, <2>2, <3>2, <3>3 DEF OneLifecycle
  <2>5. QED
    BY <2>3, <2>4
<1>3. QED
  BY <1>1, <1>2

\* Every step keeps the lifecycles in hand.
LEMMA LifecycleStep ==
  (TypeOK /\ SomebodyBringsTheLobbyBack /\ OneLifecycle) /\ [Next]_vars
    => (SomebodyBringsTheLobbyBack /\ OneLifecycle)'
<1> SUFFICES ASSUME (TypeOK /\ SomebodyBringsTheLobbyBack /\ OneLifecycle), [Next]_vars
             PROVE  (SomebodyBringsTheLobbyBack /\ OneLifecycle)'
  OBVIOUS
<1> USE LobbyConstants
    DEF TypeOK, SomebodyBringsTheLobbyBack, OneLifecycle
<1>1. CASE Connect
  BY <1>1 DEF Connect, LoopGoes
<1>2. CASE SoundPlayed
  BY <1>2 DEF SoundPlayed, LoopGoes
<1>3. CASE FeedbackOver
  BY <1>3, LoopStartStep DEF FeedbackOver
<1>4. CASE LoopJoined
  <2>1. /\ loop.at = "joining" /\ loop' = [at |-> "listen", serial |-> None]
        /\ UNCHANGED <<menu, waits, remote>>
    BY <1>4 DEF LoopJoined, LoopGoes
  <2>2. PICK t \in Tasks : /\ task[t].at = "done" /\ task' = [task EXCEPT ![t].at = "sleep"]
                          /\ current' = t /\ stranded' = stranded
    BY <1>4, Spawned DEF LoopJoined
  <2>3. SomebodyBringsTheLobbyBack'
    BY <2>1, <2>2
  <2>4. ASSUME ~remote PROVE OneLifecycle'
    <3>1. \A u \in Tasks : task[u].at = "done"
      BY <2>1, <2>4
    <3>2. \A u \in Tasks : u # t => task'[u].at = "done"
      BY <2>2, <3>1
    <3>3. task'[t].at = "sleep"
      BY <2>2
    <3>4. QED
      BY <2>1, <2>2, <2>4, <3>2, <3>3
  <2>5. QED
    BY <2>1, <2>3, <2>4
<1>5. CASE RemoteJoined
  <2>1. PICK t \in Tasks : waits[t] > 0
    BY <1>5 DEF RemoteJoined
  <2>2. remote /\ UNCHANGED <<menu, loop, remote>>
    BY <1>5, <2>1 DEF RemoteJoined
  <2>3. PICK u \in Tasks : /\ task[u].at = "done" /\ task' = [task EXCEPT ![u].at = "sleep"]
                          /\ current' = u /\ stranded' = stranded
    BY <1>5, Spawned DEF RemoteJoined
  <2>4. QED
    BY <2>2, <2>3
<1>6. CASE RemoteStart
  BY <1>6, Spawned DEF RemoteStart, Busy, Cancel, Disturb, NoTask
<1>7. CASE StreamBreaks
  BY <1>7 DEF StreamBreaks, Disturb, LoopLeaves, LoopGoes
<1>8. CASE ForceStart
  BY <1>8 DEF ForceStart
<1>9. CASE StartMenu
  BY <1>9 DEF StartMenu, Reconnected, IdleStarts, Disturb
<1>10. CASE StopMenu
  BY <1>10 DEF StopMenu, Disturb
<1>11. CASE ResetMenu
  BY <1>11 DEF ResetMenu, Disturb
<1>12. ASSUME NEW s \in Serials, TriggerConnected(s)
       PROVE  (SomebodyBringsTheLobbyBack /\ OneLifecycle)'
  BY <1>12 DEF TriggerConnected, LoopGoes, Heard
<1>13. ASSUME NEW s \in Serials, TriggerReady(s)
       PROVE  (SomebodyBringsTheLobbyBack /\ OneLifecycle)'
  BY <1>13, LoopStartStep DEF TriggerReady, Heard
<1>14. ASSUME NEW s \in Serials, SelectConnected(s)
       PROVE  (SomebodyBringsTheLobbyBack /\ OneLifecycle)'
  BY <1>14 DEF SelectConnected, Disturb, LoopLeaves, LoopGoes, Heard
<1>15. ASSUME NEW t \in Tasks, Slept(t) PROVE (SomebodyBringsTheLobbyBack /\ OneLifecycle)'
  <2>1. PICK at \in {"done", "music"} : task' = [task EXCEPT ![t].at = at]
    BY <1>15 DEF Slept, TaskGoes
  <2>2. /\ task[t].at = "sleep" /\ UNCHANGED <<menu, loop, waits, current, stranded, remote>>
    BY <1>15 DEF Slept
  <2>3. QED
    BY <2>1, <2>2
<1>16. ASSUME NEW t \in Tasks, MusicStopped(t)
       PROVE  (SomebodyBringsTheLobbyBack /\ OneLifecycle)'
  BY <1>16 DEF MusicStopped, LoopLeaves, LoopGoes, TaskGoes, Joining
<1>17. ASSUME NEW t \in Tasks, LoopStopped(t)
       PROVE  (SomebodyBringsTheLobbyBack /\ OneLifecycle)'
  BY <1>17 DEF LoopStopped, TaskGoes
<1>18. ASSUME NEW t \in Tasks, FirstEvent(t)
       PROVE  (SomebodyBringsTheLobbyBack /\ OneLifecycle)'
  BY <1>18 DEF FirstEvent, Reconnected
<1>19. ASSUME NEW t \in Tasks, StartRefused(t)
       PROVE  (SomebodyBringsTheLobbyBack /\ OneLifecycle)'
  BY <1>19 DEF StartRefused, RestartLobby, LoopGoes, NoTask
<1>20. ASSUME NEW t \in Tasks, GameEnded(t)
       PROVE  (SomebodyBringsTheLobbyBack /\ OneLifecycle)'
  BY <1>20 DEF GameEnded, RestartLobby, LoopGoes, NoTask
<1>22. ASSUME NEW t \in Tasks, ResetLobby(t)
       PROVE  (SomebodyBringsTheLobbyBack /\ OneLifecycle)'
  BY <1>22 DEF ResetLobby, Reconnected, TaskGoes, Joining
<1>23. ASSUME NEW t \in Tasks, LobbyBack(t)
       PROVE  (SomebodyBringsTheLobbyBack /\ OneLifecycle)'
  BY <1>23 DEF LobbyBack, IdleStarts, TaskGoes, Joining
<1>24. ASSUME NEW t \in Tasks, StreamGivesUp(t)
       PROVE  (SomebodyBringsTheLobbyBack /\ OneLifecycle)'
  BY <1>24 DEF StreamGivesUp, RestartLobby, LoopGoes, NoTask
<1>25. ASSUME NEW s \in Serials, Announces(s) PROVE (SomebodyBringsTheLobbyBack /\ OneLifecycle)'
  BY <1>25 DEF Announces, LoopGoes, Heard
<1>21. CASE Announced
  BY <1>21 DEF Announced, LoopGoes
<1>26. CASE UNCHANGED <<menu, loop, task, current, stranded, remote, waits>>
  BY <1>26
<1>27. QED
  BY <1>1, <1>2, <1>3, <1>4, <1>5, <1>6, <1>7, <1>8, <1>9, <1>10, <1>11, <1>12, <1>13, <1>14,
     <1>15, <1>16, <1>17, <1>18, <1>19, <1>20, <1>21, <1>22, <1>23, <1>24, <1>25, <1>26
  DEF Next, vars, ChangeSensitivity, ToggleInstructions, ChangeValue, LoopStep,
      Button, Lifecycle,
      ComboReleased, AdminTimeout, HoldOver,
      EnterIdle, ComeOrGo, SetUpFails, ReceiveGreeting, ReceiveNews, MoveReady, AnyButton, Wake,
      Combo, LeaveAdmin,
      HoldTrigger, ReleaseTrigger


\* A connect or disconnect puts nobody to sleep.
LEMMA DispatchWakes ==
  ASSUME TypeOK, NEW e, Dispatch(e), NEW s \in Serials, lobby'[s] = "IDLE"
  PROVE  lobby[s] = "IDLE"
BY DEF Dispatch, TypeOK

\* Every step keeps the sleepers in mind.
LEMMA SleepStep == (TypeOK /\ OneLifecycle /\ NobodySleeps) /\ [Next]_vars => NobodySleeps'
<1> SUFFICES ASSUME (TypeOK /\ OneLifecycle /\ NobodySleeps), [Next]_vars
             PROVE  NobodySleeps'
  OBVIOUS
<1> USE LobbyConstants
    DEF TypeOK, OneLifecycle, NobodySleeps, Awake
<1>1. CASE Connect
  BY <1>1 DEF Connect, LoopGoes
<1>2. CASE SoundPlayed
  BY <1>2 DEF SoundPlayed, LoopGoes
<1>3. CASE FeedbackOver
  <2>1. UNCHANGED <<lobby, idle, remote>> /\ (remote \/ Awake)
    BY <1>3 DEF FeedbackOver, Awake
  <2>2. QED
    BY <2>1
<1>4. CASE LoopJoined
  BY <1>4, Spawned DEF LoopJoined, LoopGoes
<1>5. CASE RemoteJoined
  BY <1>5, Spawned DEF RemoteJoined
<1>6. CASE RemoteStart
  BY <1>6, Spawned DEF RemoteStart, Busy, Cancel, Disturb, NoTask
<1>7. CASE StreamBreaks
  BY <1>7 DEF StreamBreaks, Disturb, LoopLeaves, LoopGoes
<1>8. CASE AdminTimeout
  BY <1>8 DEF AdminTimeout, AdminExits
<1>9. CASE EnterIdle
  BY <1>9 DEF EnterIdle, Disturb
<1>10. CASE StartMenu
  BY <1>10 DEF StartMenu, Reconnected, IdleStarts, Disturb
<1>11. CASE StopMenu
  BY <1>11 DEF StopMenu, Disturb
<1>12. CASE ReceiveNews
  BY <1>12, DispatchWakes DEF ReceiveNews
<1>13. ASSUME NEW s \in Serials, TriggerConnected(s) PROVE NobodySleeps'
  BY <1>13 DEF TriggerConnected, LoopGoes, Heard
<1>14. ASSUME NEW s \in Serials, TriggerReady(s) PROVE NobodySleeps'
  <2>1. UNCHANGED <<lobby, idle, remote>> /\ Awake
    BY <1>14 DEF TriggerReady, AllReady, Ready, Awake
  <2>2. QED
    BY <2>1
<1>15. ASSUME NEW s \in Serials, MoveReady(s) PROVE NobodySleeps'
  BY <1>15 DEF MoveReady, Heard
<1>16. ASSUME NEW s \in Serials, SelectConnected(s) PROVE NobodySleeps'
  BY <1>16 DEF SelectConnected, Disturb, LoopLeaves, LoopGoes, Heard
<1>17. ASSUME NEW s \in Serials, AnyButton(s) PROVE NobodySleeps'
  BY <1>17 DEF AnyButton, Heard
<1>18. ASSUME NEW s \in Serials, Wake(s) PROVE NobodySleeps'
  BY <1>18 DEF Wake, Reconnected, Heard
<1>19. ASSUME NEW s \in Serials, Combo(s) PROVE NobodySleeps'
  BY <1>19 DEF Combo, Disturb, Heard
<1>20. ASSUME NEW s \in Serials, LeaveAdmin(s) PROVE NobodySleeps'
  BY <1>20 DEF LeaveAdmin, AdminExits, Heard
<1>21. ASSUME NEW t \in Tasks, Slept(t) PROVE NobodySleeps'
  BY <1>21 DEF Slept, TaskGoes, Joining
<1>22. ASSUME NEW t \in Tasks, MusicStopped(t) PROVE NobodySleeps'
  BY <1>22 DEF MusicStopped, LoopLeaves, LoopGoes, TaskGoes, Joining
<1>23. ASSUME NEW t \in Tasks, LoopStopped(t) PROVE NobodySleeps'
  BY <1>23 DEF LoopStopped, TaskGoes
<1>24. ASSUME NEW t \in Tasks, FirstEvent(t) PROVE NobodySleeps'
  BY <1>24 DEF FirstEvent, Reconnected
<1>25. ASSUME NEW t \in Tasks, StartRefused(t) PROVE NobodySleeps'
  BY <1>25 DEF StartRefused, RestartLobby, LoopGoes, NoTask
<1>26. ASSUME NEW t \in Tasks, GameEnded(t) PROVE NobodySleeps'
  BY <1>26 DEF GameEnded, RestartLobby, LoopGoes, NoTask
<1>27. ASSUME NEW s \in Serials, ReceiveGreeting(s) PROVE NobodySleeps'
  BY <1>27, DispatchWakes DEF ReceiveGreeting
<1>28. ASSUME NEW t \in Tasks, ResetLobby(t) PROVE NobodySleeps'
  BY <1>28 DEF ResetLobby, Reconnected, TaskGoes, Joining
<1>29. ASSUME NEW t \in Tasks, LobbyBack(t) PROVE NobodySleeps'
  BY <1>29 DEF LobbyBack, IdleStarts, TaskGoes, Joining
<1>30. ASSUME NEW t \in Tasks, StreamGivesUp(t) PROVE NobodySleeps'
  BY <1>30 DEF StreamGivesUp, RestartLobby, LoopGoes, NoTask
<1>31. ASSUME NEW s \in Serials, Announces(s) PROVE NobodySleeps'
  BY <1>31 DEF Announces, LoopGoes, Heard
<1>32. CASE Announced
  BY <1>32 DEF Announced, LoopGoes
<1>33. CASE UNCHANGED <<lobby, idle, loop, task, remote, waits>>
  BY <1>33
<1>34. QED
  BY <1>1, <1>2, <1>3, <1>4, <1>5, <1>6, <1>7, <1>8, <1>9, <1>10, <1>11, <1>12, <1>13, <1>14,
     <1>15, <1>16, <1>17, <1>18, <1>19, <1>20, <1>21, <1>22, <1>23, <1>24, <1>25, <1>26, <1>27,
     <1>28, <1>29, <1>30, <1>31, <1>32, <1>33
  DEF Next, vars, ChangeSensitivity, ToggleInstructions, ChangeValue, LoopStep,
      Button, Lifecycle,
      ComboReleased, HoldOver, ForceStart,
      ResetMenu, ComeOrGo, SetUpFails, HoldTrigger, ReleaseTrigger

-----------------------------------------------------------------------------
\* The inductive invariant holds throughout.
THEOREM Invariance == Spec => []IInv
<1>1. IInv /\ [Next]_vars => IInv'
  BY TypeStep, StreamStep, LifecycleStep, SleepStep DEF IInv
<1>2. QED
  BY InitIInv, <1>1, PTL DEF Spec

\* Every variable of the menu keeps its type.
THEOREM TypeCorrect == Spec => []TypeOK
<1>1. IInv => TypeOK
  BY DEF IInv
<1>2. QED
  BY Invariance, <1>1, PTL

\* A menu that is deaf, or believes in a game, has a lifecycle that will bring
\* the lobby back, or was stranded by a force start or a second start by RPC.
THEOREM LobbyIsNotForgotten == Spec => []SomebodyBringsTheLobbyBack
<1>1. IInv => SomebodyBringsTheLobbyBack
  BY DEF IInv
<1>2. QED
  BY Invariance, <1>1, PTL

\* A controller that has left is in the lobby only while its disconnect is to
\* come, or was lost with no list of controllers read since.
THEOREM GhostsGo == Spec => []GhostsDoNotStay
<1>1. IInv => GhostsDoNotStay
  <2> SUFFICES ASSUME IInv, Listening, NEW g \in InLobby \ present, g \notin ghosts
               PROVE  \E i \in DOMAIN news : news[i].serial = g
    BY DEF GhostsDoNotStay, Listening
  <2>1. Len(news) \in Nat /\ DOMAIN news = 1..Len(news)
    BY DEF IInv, TypeOK
  <2>2. g \in AsOf(0) /\ 0 \in 0..Len(news)
    BY <2>1 DEF IInv, StreamTells, LobbyIsSeen, AsOf
  <2>3. PICK i \in (0 + 1)..Len(news) : news[i].serial = g
    BY <2>2 DEF IInv, StreamTells, ListsAgree
  <2>4. QED
    BY <2>1, <2>3
<1>2. QED
  BY Invariance, <1>1, PTL

\* Buttons alone never have two game lifecycles alive.
THEOREM OneGameAtATime == Spec => []ControllersStartOneGame
<1>1. IInv => ControllersStartOneGame
  <2> SUFFICES ASSUME IInv, ~remote PROVE Cardinality(Live) <= 1
    BY DEF ControllersStartOneGame
  <2>1. Live \subseteq {current}
    BY DEF IInv, OneLifecycle
  <2>2. IsFiniteSet({current}) /\ Cardinality({current}) = 1
    BY FS_Singleton
  <2>3. QED
    BY <2>1, <2>2, FS_Subset
<1>2. QED
  BY Invariance, <1>1, PTL

\* Without a start by RPC the monitor never forgets a controller asleep.
THEOREM SleepersAreRemembered == Spec => []SleepersWakeTogether
<1>1. IInv => SleepersWakeTogether
  BY DEF IInv, NobodySleeps, Awake, SleepersWakeTogether
<1>2. QED
  BY Invariance, <1>1, PTL
=============================================================================
