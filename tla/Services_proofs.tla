---------------------------- MODULE Services_proofs ----------------------------
(***************************************************************************)
(* What holds of the lights, the back end, the HID services and the audio  *)
(* for every set of controllers, streams, tasks, paths, channels, threads: *)
(* no effect keeps a controller for good, the colours settle, the sound    *)
(* channels are honest, a tempo stays with its track, and every part keeps *)
(* its types.                                                              *)
(***************************************************************************)
EXTENDS Discovery_proofs, FiniteSetTheorems, WellFoundedInduction, TLAPS

-----------------------------------------------------------------------------
(* The lights: the inductive invariant. *)

TaskRecords   == [at : {"done", "new", "running", "cancelling"}, serial : Serials \cup {None},
                  kind : Lights!Kinds \cup {None}, restores : BOOLEAN]
EntryRecords  == [here : BOOLEAN, task : Tasks \cup {None}, kind : Lights!Kinds \cup {None}]
ReaderRecords == [at : {"closed", "free", "play", "cancel", "red", "base"},
                  serial : Serials \cup {None}, kind : Lights!Kinds \cup Colours \cup {None},
                  restores : BOOLEAN, for : Tasks \cup {None}]

\* Who holds the entry is alive, and is an effect on that controller.
EntryRuns(s) ==
  \/ entry[s] = Lights!NoEntry
  \/ /\ entry[s].here /\ entry[s].task \in Tasks /\ entry[s].kind \in Lights!Kinds
     /\ Lights!Live(entry[s].task) /\ task[entry[s].task].serial = s

EntriesRun == \A s \in Serials : EntryRuns(s)

\* A kind that may end without the base colour leaves a leftover.
Gives(restores, k) == restores \/ k \in {"charge", "tint", "countdown"}

TasksServe ==
  \A t \in Tasks : Lights!Live(t) =>
    task[t].serial \in Serials /\ task[t].kind \in Lights!Kinds /\ Gives(task[t].restores, task[t].kind)

\* A reader that is amid a command knows for whom, and for which task it waits.
Knows(x) ==
  /\ x.at \in {"closed", "free"} => x.serial = None
  /\ x.at \in {"play", "cancel", "red", "base"} => x.serial \in Serials
  /\ x.at \in {"play", "cancel", "base"} => x.for \in Tasks
  /\ x.at = "play" => x.kind \in Lights!Kinds /\ Gives(x.restores, x.kind)
  /\ x.at = "base" => x.kind \in Colours

ReadersWait == \A r \in Readers : Knows(reader[r])

\* The readers that are about to set a light of s.
Amid(s, at) == \E r \in Readers : reader[r].serial = s /\ reader[r].at \in at
Waiting     == {"play", "cancel", "base"}

\* The refresh passes over a controller for an effect, or one that is to begin.
ActiveForEffects ==
  \A s \in active : Lights!EffectsOn(s) # {} \/ Amid(s, {"play"})

\* The light of s is as it should be when nobody is about to set it.
Settled(s) ==
  \/ Lights!EffectsOn(s) # {} \/ Amid(s, Waiting)
  \/ base[s] = None \/ shown[s] \in {base[s]} \cup Lights!Leftovers

LightsSettle == \A s \in tracked : Settled(s)

LightsInv ==
  /\ Lights!TypeOK /\ EntriesRun /\ TasksServe /\ ReadersWait /\ ActiveForEffects /\ LightsSettle

-----------------------------------------------------------------------------
(* What the operators of Feedback do to the invariant. *)

\* A new effect takes a name that no living effect has, and the entry.
LEMMA LaunchKeeps ==
  ASSUME Lights!TypeOK, EntriesRun, TasksServe,
         NEW s \in Serials, NEW k \in Lights!Kinds, NEW restores \in BOOLEAN, Gives(restores, k),
         NEW names \in SUBSET Tasks, \A t \in names : ~Lights!Live(t),
         Lights!Launch(s, k, restores, names)
  PROVE  /\ task' \in [Tasks -> TaskRecords]
         /\ entry' \in [Serials -> EntryRecords]
         /\ EntriesRun' /\ TasksServe' /\ Lights!EffectsOn(s)' # {}
         /\ \A u \in Serials : Lights!EffectsOn(u) # {} => Lights!EffectsOn(u)' # {}
<1>1. PICK t \in Lights!AName(names) :
        /\ task' = [task EXCEPT ![t] = [at |-> "new", serial |-> s, kind |-> k,
                                        restores |-> restores]]
        /\ entry' = [entry EXCEPT ![s] = [here |-> TRUE, task |-> t, kind |-> k]]
  BY DEF Lights!Launch
<1>2. t \in Tasks /\ ~Lights!Live(t)
  BY DEF Lights!AName
<1> DEFINE new == [at |-> "new", serial |-> s, kind |-> k, restores |-> restores]
           mine == [here |-> TRUE, task |-> t, kind |-> k]
<1>3. /\ new \in TaskRecords
      /\ new.at = "new" /\ new.serial = s /\ new.kind = k /\ new.restores = restores
  BY DEF TaskRecords
<1>4. /\ mine \in EntryRecords
      /\ mine.here /\ mine.task = t /\ mine.kind = k
  BY <1>2 DEF EntryRecords
<1>5. task' = [task EXCEPT ![t] = new] /\ entry' = [entry EXCEPT ![s] = mine]
  BY <1>1
<1> HIDE DEF new, mine
<1>6. task \in [Tasks -> TaskRecords]
  BY DEF Lights!TypeOK, TaskRecords, EntryRecords
<1>7. entry \in [Serials -> EntryRecords]
  BY DEF Lights!TypeOK, TaskRecords, EntryRecords
<1>8. /\ task'[t] = new /\ \A u \in Tasks \ {t} : task'[u] = task[u]
      /\ entry'[s] = mine /\ \A u \in Serials \ {s} : entry'[u] = entry[u]
  BY <1>2, <1>5, <1>6, <1>7
<1>9. \A u \in Tasks : Lights!Live(u) => u # t /\ task'[u] = task[u] /\ Lights!Live(u)'
  BY <1>2, <1>8 DEF Lights!Live
<1>10. Lights!Live(t)' /\ task'[t].serial = s
  BY <1>3, <1>8 DEF Lights!Live
<1>11. EntriesRun'
  <2>1. EntryRuns(s)'
    BY <1>2, <1>4, <1>8, <1>10 DEF EntryRuns
  <2>2. ASSUME NEW u \in Serials \ {s} PROVE EntryRuns(u)'
    BY <1>8, <1>9 DEF EntriesRun, EntryRuns
  <2>3. QED
    BY <2>1, <2>2 DEF EntriesRun
<1>12. TasksServe'
  <2>1. ASSUME NEW u \in Tasks, Lights!Live(u)'
        PROVE  /\ task'[u].serial \in Serials /\ task'[u].kind \in Lights!Kinds
               /\ Gives(task'[u].restores, task'[u].kind)
    <3>1. CASE u = t
      BY <1>3, <1>8, <3>1
    <3>2. CASE u # t
      BY <1>8, <2>1, <3>2 DEF TasksServe, Lights!Live
    <3>3. QED
      BY <3>1, <3>2
  <2>2. QED
    BY <2>1 DEF TasksServe, Gives
<1>13. /\ Lights!EffectsOn(s)' # {}
       /\ \A u \in Serials : Lights!EffectsOn(u) # {} => Lights!EffectsOn(u)' # {}
  BY <1>2, <1>9, <1>10 DEF Lights!EffectsOn
<1>14. /\ [task EXCEPT ![t] = new] \in [Tasks -> TaskRecords]
       /\ [entry EXCEPT ![s] = mine] \in [Serials -> EntryRecords]
  BY <1>3, <1>4, <1>6, <1>7
<1>15. QED
  BY <1>5, <1>11, <1>12, <1>13, <1>14

\* The effect that has the entry of s is told to end, and the entry is free.
LEMMA CancelKeeps ==
  ASSUME Lights!TypeOK, EntriesRun, TasksServe, NEW s \in Serials, entry[s].task # None,
         task' = Lights!Cancelled(entry[s].task), entry' = [entry EXCEPT ![s] = Lights!NoEntry]
  PROVE  /\ entry[s].task \in Tasks
         /\ task' \in [Tasks -> TaskRecords]
         /\ entry' \in [Serials -> EntryRecords]
         /\ EntriesRun' /\ TasksServe'
         /\ \A u \in Serials \ {s} : Lights!EffectsOn(u) # {} => Lights!EffectsOn(u)' # {}
<1> DEFINE t == entry[s].task
           end == IF task[t].at = "new" THEN Lights!NoTask ELSE [task[t] EXCEPT !.at = "cancelling"]
<1>1. t \in Tasks /\ task[t].serial = s /\ Lights!Live(t)
  BY DEF EntriesRun, EntryRuns, Lights!NoEntry
<1>2. task' = [task EXCEPT ![t] = end]
  BY DEF Lights!Cancelled
<1>3. task \in [Tasks -> TaskRecords]
  BY DEF Lights!TypeOK, TaskRecords, EntryRecords
<1>4. entry \in [Serials -> EntryRecords]
  BY DEF Lights!TypeOK, TaskRecords, EntryRecords
<1>5. /\ end \in TaskRecords
      /\ end = Lights!NoTask \/ (end.serial = s /\ end.kind = task[t].kind
                                 /\ end.restores = task[t].restores)
  <2>1. task[t] \in TaskRecords
    BY <1>1, <1>3
  <2>2. Lights!NoTask \in TaskRecords
    BY DEF Lights!NoTask, TaskRecords
  <2>3. QED
    BY <1>1, <2>1, <2>2 DEF TaskRecords
<1> HIDE DEF end
<1>6. /\ task'[t] = end /\ \A u \in Tasks \ {t} : task'[u] = task[u]
      /\ entry'[s] = Lights!NoEntry /\ \A u \in Serials \ {s} : entry'[u] = entry[u]
  BY <1>1, <1>2, <1>3, <1>4
<1>7. \A u \in Tasks \ {t} : Lights!Live(u)' <=> Lights!Live(u)
  BY <1>6 DEF Lights!Live
<1>8. EntriesRun'
  <2>1. EntryRuns(s)'
    BY <1>6 DEF EntryRuns
  <2>2. ASSUME NEW u \in Serials \ {s} PROVE EntryRuns(u)'
    <3>1. entry[u] = Lights!NoEntry \/ entry[u].task # t
      BY <1>1 DEF EntriesRun, EntryRuns
    <3>2. QED
      BY <1>6, <1>7, <3>1 DEF EntriesRun, EntryRuns
  <2>3. QED
    BY <2>1, <2>2 DEF EntriesRun
<1>9. TasksServe'
  <2>1. ASSUME NEW u \in Tasks, Lights!Live(u)'
        PROVE  /\ task'[u].serial \in Serials /\ task'[u].kind \in Lights!Kinds
               /\ Gives(task'[u].restores, task'[u].kind)
    <3>1. CASE u = t
      <4>1. end # Lights!NoTask
        BY <1>6, <2>1, <3>1 DEF Lights!Live, Lights!NoTask
      <4>2. QED
        BY <1>1, <1>5, <1>6, <3>1, <4>1 DEF TasksServe
    <3>2. CASE u # t
      BY <1>6, <1>7, <2>1, <3>2 DEF TasksServe
    <3>3. QED
      BY <3>1, <3>2
  <2>2. QED
    BY <2>1 DEF TasksServe, Gives
<1>10. \A u \in Serials \ {s} : Lights!EffectsOn(u) # {} => Lights!EffectsOn(u)' # {}
  BY <1>1, <1>6, <1>7 DEF Lights!EffectsOn
<1>11. [task EXCEPT ![t] = end] \in [Tasks -> TaskRecords]
  BY <1>1, <1>3, <1>5
<1>12. [entry EXCEPT ![s] = Lights!NoEntry]
         \in [Serials -> EntryRecords]
  BY <1>4 DEF Lights!NoEntry, EntryRecords
<1>13. QED
  BY <1>1, <1>2, <1>8, <1>9, <1>10, <1>11, <1>12

\* A reader goes on to x; the others stay as they are.
LEMMA ReaderMoves ==
  ASSUME Lights!TypeOK, ReadersWait, NEW r \in Readers, NEW x \in ReaderRecords, Knows(x),
         reader' = [reader EXCEPT ![r] = x]
  PROVE  /\ reader' \in [Readers -> ReaderRecords] /\ ReadersWait'
         /\ reader'[r] = x /\ \A q \in Readers \ {r} : reader'[q] = reader[q]
         /\ \A u, at : (Amid(u, at) => Amid(u, at)') \/ (reader[r].serial = u /\ reader[r].at \in at)
<1>1. reader \in [Readers -> ReaderRecords]
  BY DEF Lights!TypeOK, ReaderRecords
<1>2. [reader EXCEPT ![r] = x] \in [Readers -> ReaderRecords]
  BY <1>1
<1>3. reader'[r] = x /\ \A q \in Readers \ {r} : reader'[q] = reader[q]
  BY <1>1
<1>4. ReadersWait'
  <2>1. \A q \in Readers : Knows(reader'[q])
    BY <1>3 DEF ReadersWait
  <2>2. QED
    BY <2>1 DEF ReadersWait, Knows, Gives
<1>5. \A u, at : (Amid(u, at) => Amid(u, at)') \/ (reader[r].serial = u /\ reader[r].at \in at)
  BY <1>3 DEF Amid
<1>6. QED
  BY <1>2, <1>3, <1>4, <1>5

\* A light that is set changes no other.
LEMMA LightShows ==
  ASSUME Lights!TypeOK, NEW s \in Serials, NEW c \in Lights!Shades, Lights!Shows(s, c)
  PROVE  /\ shown' \in [Serials -> Lights!Shades]
         /\ s \in tracked => shown'[s] = c
         /\ \A u \in Serials \ {s} : shown'[u] = shown[u]
BY DEF Lights!TypeOK, Lights!Shows

\* A command is one of the last MaxCommands.
LEMMA CommandCounts ==
  ASSUME Lights!TypeOK, Lights!Command
  PROVE  left' \in 0..MaxCommands
BY ServicesConstants DEF Lights!TypeOK, Lights!Command

\* What a step must show of the controllers it leaves alone.
Kept(u) ==
  /\ Lights!EffectsOn(u) # {} => Lights!EffectsOn(u)' # {}
  /\ Amid(u, Waiting) => Amid(u, Waiting)'
  /\ Amid(u, {"play"}) => Amid(u, {"play"})'
  /\ base'[u] = base[u] /\ shown'[u] = shown[u]

\* A controller that is left alone stays settled.
LEMMA KeptSettles ==
  ASSUME NEW u \in Serials, Settled(u), Kept(u)
  PROVE  Settled(u)'
BY DEF Settled, Kept, Lights!Leftovers

\* A step about s alone.
LEMMA LightsAlone ==
  ASSUME LightsInv, NEW s \in Serials, \A u \in Serials \ {s} : Kept(u),
         tracked' \ {s} \subseteq tracked, active' \ {s} \subseteq active,
         s \in active' => Lights!EffectsOn(s)' # {} \/ Amid(s, {"play"})',
         s \in tracked' => Settled(s)', active' \subseteq Serials, tracked' \subseteq Serials
  PROVE  ActiveForEffects' /\ LightsSettle'
<1>1. ASSUME NEW u \in active' PROVE Lights!EffectsOn(u)' # {} \/ Amid(u, {"play"})'
  BY DEF LightsInv, ActiveForEffects, Kept
<1>2. ASSUME NEW u \in tracked' PROVE Settled(u)'
  BY KeptSettles DEF LightsInv, LightsSettle
<1>3. QED
  BY <1>1, <1>2 DEF ActiveForEffects, LightsSettle

-----------------------------------------------------------------------------
(* The steps of the lights. *)

BaseColours == Colours \cup {"black", "white", None}

\* The types, part by part.
LEMMA LightsTypes ==
  Lights!TypeOK <=>
    /\ tracked \subseteq Serials /\ active \subseteq Serials
    /\ shown \in [Serials -> Lights!Shades] /\ base \in [Serials -> BaseColours]
    /\ entry \in [Serials -> EntryRecords] /\ task \in [Tasks -> TaskRecords]
    /\ reader \in [Readers -> ReaderRecords] /\ left \in 0..MaxCommands
BY DEF Lights!TypeOK, BaseColours, EntryRecords, TaskRecords, ReaderRecords

\* And after a step.
LEMMA LightsTypesNext ==
  ASSUME tracked' \subseteq Serials, active' \subseteq Serials,
         shown' \in [Serials -> Lights!Shades], base' \in [Serials -> BaseColours],
         entry' \in [Serials -> EntryRecords], task' \in [Tasks -> TaskRecords],
         reader' \in [Readers -> ReaderRecords], left' \in 0..MaxCommands
  PROVE  Lights!TypeOK'
BY DEF Lights!TypeOK, BaseColours, EntryRecords, TaskRecords, ReaderRecords

\* What is left alone.
LEMMA EntriesAlone ==
  ASSUME EntriesRun, TasksServe, UNCHANGED <<entry, task>>
  PROVE  /\ EntriesRun' /\ TasksServe'
         /\ \A u \in Serials : Lights!EffectsOn(u) # {} => Lights!EffectsOn(u)' # {}
BY DEF EntriesRun, EntryRuns, TasksServe, Lights!Live, Lights!EffectsOn

\* Nor do the readers change when nobody touches them.
LEMMA ReadersAlone ==
  ASSUME ReadersWait, UNCHANGED reader
  PROVE  ReadersWait' /\ \A u, at : Amid(u, at) => Amid(u, at)'
BY DEF ReadersWait, Knows, Gives, Amid

\* A base colour that is set.
LEMMA BasesType ==
  ASSUME Lights!TypeOK, NEW s \in Serials, NEW c \in BaseColours,
         base' = [base EXCEPT ![s] = c]
  PROVE  /\ base' \in [Serials -> BaseColours] /\ base'[s] = c
         /\ \A u \in Serials \ {s} : base'[u] = base[u]
BY LightsTypes

\* A free reader.
LEMMA FreeKnows ==
  /\ Lights!Free \in ReaderRecords /\ Knows(Lights!Free) /\ Lights!Free.serial = None
  /\ [Lights!Free EXCEPT !.at = "closed"] \in ReaderRecords
  /\ Knows([Lights!Free EXCEPT !.at = "closed"])
BY DEF Lights!Free, ReaderRecords, Knows

\* A frame of an effect.
LEMMA FrameStep ==
  ASSUME LightsInv, NEW t \in Tasks, Lights!Frame(t)
  PROVE  LightsInv'
<1> DEFINE s == task[t].serial
<1>1. s \in Serials /\ task[t].kind \in Lights!Kinds /\ Lights!Live(t)
  BY DEF LightsInv, TasksServe, Lights!Frame, Lights!Live
<1>2. /\ tracked \subseteq Serials /\ active \subseteq Serials
      /\ base \in [Serials -> BaseColours] /\ task \in [Tasks -> TaskRecords]
      /\ entry \in [Serials -> EntryRecords]
      /\ reader \in [Readers -> ReaderRecords] /\ left \in 0..MaxCommands
  BY LightsTypes DEF LightsInv
<1>3. /\ Lights!Shows(s, task[t].kind) /\ task' = [task EXCEPT ![t].at = "running"]
      /\ active' \in {active, active \cup {s}}
      /\ UNCHANGED <<tracked, base, entry, reader, left>>
  BY DEF Lights!Frame
<1>4. task' \in [Tasks -> TaskRecords]
  <2>1. [task[t] EXCEPT !.at = "running"] \in TaskRecords
    BY <1>2 DEF TaskRecords
  <2>2. task' = [task EXCEPT ![t] = [task[t] EXCEPT !.at = "running"]]
    BY <1>2, <1>3
  <2>3. QED
    BY <1>2, <2>1, <2>2
<1>5. \A u \in Tasks : /\ Lights!Live(u)' <=> Lights!Live(u)
                       /\ task'[u].serial = task[u].serial /\ task'[u].kind = task[u].kind
                       /\ task'[u].restores = task[u].restores
  BY <1>1, <1>2, <1>3 DEF Lights!Live, TaskRecords
<1>6. EntriesRun' /\ TasksServe'
  <2>1. EntriesRun'
    BY <1>3, <1>5 DEF LightsInv, EntriesRun, EntryRuns
  <2>2. TasksServe'
    BY <1>5 DEF LightsInv, TasksServe, Gives
  <2>3. QED
    BY <2>1, <2>2
<1>7. \A u \in Serials : Lights!EffectsOn(u)' = Lights!EffectsOn(u)
  BY <1>5 DEF Lights!EffectsOn
<1>8. Lights!EffectsOn(s) # {}
  BY <1>1 DEF Lights!EffectsOn
<1>9. /\ shown' \in [Serials -> Lights!Shades]
      /\ \A u \in Serials \ {s} : shown'[u] = shown[u]
  BY <1>1, <1>3, LightShows DEF LightsInv, Lights!Shades
<1>10. ReadersWait' /\ \A u, at : Amid(u, at) => Amid(u, at)'
  BY <1>3, ReadersAlone DEF LightsInv
<1>11. \A u \in Serials \ {s} : Kept(u)
  BY <1>3, <1>7, <1>9, <1>10 DEF Kept
<1>12. ActiveForEffects' /\ LightsSettle'
  BY <1>1, <1>2, <1>3, <1>7, <1>8, <1>11, LightsAlone DEF Settled
<1>13. Lights!TypeOK'
  BY <1>1, <1>2, <1>3, <1>4, <1>9, LightsTypesNext
<1>14. QED
  BY <1>6, <1>10, <1>12, <1>13 DEF LightsInv

\* The end of an effect: the entry goes, and the base colour comes back unless
\* the kind is one of those that leave something behind.
LEMMA EndStep ==
  ASSUME LightsInv, NEW t \in Tasks, Lights!End(t)
  PROVE  LightsInv'
<1>1. PICK s \in Serials :
        s = task[t].serial /\ task[t].kind \in Lights!Kinds /\ Gives(task[t].restores, task[t].kind)
  BY DEF LightsInv, TasksServe, Lights!End, Lights!Live
<1>2. /\ tracked \subseteq Serials /\ active \subseteq Serials
      /\ base \in [Serials -> BaseColours] /\ task \in [Tasks -> TaskRecords]
      /\ entry \in [Serials -> EntryRecords]
      /\ reader \in [Readers -> ReaderRecords] /\ left \in 0..MaxCommands
  BY LightsTypes DEF LightsInv
<1>3. /\ task' = [task EXCEPT ![t] = Lights!NoTask]
      /\ active' = active \ {s} /\ entry' = [entry EXCEPT ![s] = Lights!NoEntry]
      /\ UNCHANGED <<tracked, base, reader, left>>
  BY <1>1 DEF Lights!End
<1>4. PICK c : /\ c = IF task[t].restores /\ base[s] # None THEN base[s] ELSE task[t].kind
               /\ Lights!Shows(s, c)
  BY <1>1 DEF Lights!End
<1>5. c \in Lights!Shades /\ (base[s] = None \/ c \in {base[s]} \cup Lights!Leftovers)
  BY <1>1, <1>2, <1>4 DEF Lights!Shades, BaseColours, Gives, Lights!Leftovers
<1>6. task' \in [Tasks -> TaskRecords] /\ entry' \in [Serials -> EntryRecords]
  <2>1. Lights!NoTask \in TaskRecords /\ Lights!NoEntry \in EntryRecords
    BY DEF Lights!NoTask, TaskRecords, Lights!NoEntry, EntryRecords
  <2>2. QED
    BY <1>2, <1>3, <2>1
<1>7. /\ \A u \in Tasks \ {t} : task'[u] = task[u] /\ (Lights!Live(u)' <=> Lights!Live(u))
      /\ ~Lights!Live(t)'
      /\ entry'[s] = Lights!NoEntry /\ \A u \in Serials \ {s} : entry'[u] = entry[u]
  BY <1>1, <1>2, <1>3 DEF Lights!Live, Lights!NoTask
<1>8. EntriesRun'
  <2>1. EntryRuns(s)'
    BY <1>7 DEF EntryRuns
  <2>2. ASSUME NEW u \in Serials \ {s} PROVE EntryRuns(u)'
    <3>1. entry[u] = Lights!NoEntry \/ entry[u].task # t
      BY <1>1 DEF LightsInv, EntriesRun, EntryRuns
    <3>2. QED
      BY <1>7, <3>1 DEF LightsInv, EntriesRun, EntryRuns
  <2>3. QED
    BY <2>1, <2>2 DEF EntriesRun
<1>9. TasksServe'
  BY <1>7 DEF LightsInv, TasksServe, Gives
<1>10. \A u \in Serials \ {s} : Lights!EffectsOn(u) # {} => Lights!EffectsOn(u)' # {}
  BY <1>1, <1>7 DEF Lights!EffectsOn
<1>11. /\ shown' \in [Serials -> Lights!Shades]
       /\ s \in tracked => shown'[s] = c
       /\ \A u \in Serials \ {s} : shown'[u] = shown[u]
  BY <1>4, <1>5, LightShows DEF LightsInv
<1>12. ReadersWait' /\ \A u, at : Amid(u, at) => Amid(u, at)'
  BY <1>3, ReadersAlone DEF LightsInv
<1>13. \A u \in Serials \ {s} : Kept(u)
  BY <1>3, <1>10, <1>11, <1>12 DEF Kept
<1>14. s \in tracked' => Settled(s)'
  BY <1>3, <1>5, <1>11 DEF Settled, Lights!Leftovers
<1>15. ActiveForEffects' /\ LightsSettle'
  BY <1>1, <1>2, <1>3, <1>13, <1>14, LightsAlone
<1>16. Lights!TypeOK'
  BY <1>2, <1>3, <1>6, <1>11, LightsTypesNext
<1>17. QED
  BY <1>8, <1>9, <1>12, <1>15, <1>16 DEF LightsInv

\* play_effect_with_restore, up to where the reader waits or the effect is new.
LEMMA PlayKeeps ==
  ASSUME LightsInv, NEW r \in Readers, NEW s \in Serials, NEW k \in Lights!Kinds,
         NEW restores \in BOOLEAN, Gives(restores, k), reader[r].at \in {"free", "red"},
         Lights!Play(r, s, k, restores)
  PROVE  /\ active' \subseteq Serials /\ active' \ {s} \subseteq active
         /\ entry' \in [Serials -> EntryRecords] /\ task' \in [Tasks -> TaskRecords]
         /\ reader' \in [Readers -> ReaderRecords]
         /\ EntriesRun' /\ TasksServe' /\ ReadersWait'
         /\ Lights!EffectsOn(s)' # {} \/ (Amid(s, {"play"})' /\ Amid(s, Waiting)')
         /\ \A u \in Serials \ {s} :
              /\ Lights!EffectsOn(u) # {} => Lights!EffectsOn(u)' # {}
              /\ Amid(u, Waiting) => Amid(u, Waiting)'
              /\ Amid(u, {"play"}) => Amid(u, {"play"})'
<1>1. Lights!TypeOK /\ EntriesRun /\ TasksServe /\ ReadersWait /\ active \subseteq Serials
  BY LightsTypes DEF LightsInv
<1>2. active' \in {active, active \cup {s}}
  BY DEF Lights!Play
<1>3. active' \subseteq Serials /\ active' \ {s} \subseteq active
  BY <1>1, <1>2
<1>4. CASE entry[s].task = None
  <2>1. Lights!Launch(s, k, restores, Lights!Unused)
    BY <1>4 DEF Lights!Play
  <2>2. reader' = [reader EXCEPT ![r] = Lights!Free]
    BY <1>4 DEF Lights!Play
  <2>3. Lights!Unused \in SUBSET Tasks /\ \A t \in Lights!Unused : ~Lights!Live(t)
    BY DEF Lights!Unused
  <2>4. /\ entry' \in [Serials -> EntryRecords] /\ task' \in [Tasks -> TaskRecords]
        /\ EntriesRun' /\ TasksServe' /\ Lights!EffectsOn(s)' # {}
        /\ \A u \in Serials : Lights!EffectsOn(u) # {} => Lights!EffectsOn(u)' # {}
    BY <1>1, <2>1, <2>3, LaunchKeeps
  <2>5. /\ reader' \in [Readers -> ReaderRecords] /\ ReadersWait'
        /\ \A v, at : (Amid(v, at) => Amid(v, at)')
                        \/ (reader[r].serial = v /\ reader[r].at \in at)
    BY <1>1, <2>2, ReaderMoves, FreeKnows
  <2>6. QED
    BY <1>3, <2>4, <2>5 DEF Waiting
<1>5. CASE entry[s].task # None
  <2>1. /\ task' = Lights!Cancelled(entry[s].task)
        /\ entry' = [entry EXCEPT ![s] = Lights!NoEntry]
        /\ Lights!Waits(r, "play", s, k, restores, entry[s].task)
    BY <1>5 DEF Lights!Play
  <2>2. /\ entry[s].task \in Tasks
        /\ entry' \in [Serials -> EntryRecords] /\ task' \in [Tasks -> TaskRecords]
        /\ EntriesRun' /\ TasksServe'
        /\ \A u \in Serials \ {s} : Lights!EffectsOn(u) # {} => Lights!EffectsOn(u)' # {}
    BY <1>1, <1>5, <2>1, CancelKeeps
  <2>3. PICK x : /\ x = [at |-> "play", serial |-> s, kind |-> k, restores |-> restores,
                         for |-> entry[s].task]
                 /\ reader' = [reader EXCEPT ![r] = x]
    BY <2>1 DEF Lights!Waits
  <2>4. x \in ReaderRecords /\ Knows(x) /\ x.serial = s /\ x.at = "play"
    BY <2>2, <2>3 DEF ReaderRecords, Knows
  <2>5. /\ reader' \in [Readers -> ReaderRecords] /\ ReadersWait' /\ reader'[r] = x
        /\ \A v, at : (Amid(v, at) => Amid(v, at)')
                        \/ (reader[r].serial = v /\ reader[r].at \in at)
    BY <1>1, <2>3, <2>4, ReaderMoves
  <2>6. Amid(s, {"play"})' /\ Amid(s, Waiting)'
    BY <2>4, <2>5 DEF Amid, Waiting
  <2>7. QED
    BY <1>3, <2>2, <2>5, <2>6 DEF Waiting
<1>6. QED
  BY <1>4, <1>5

\* PLAYER_WARNING and its like.
LEMMA PlayEffectStep ==
  ASSUME LightsInv, NEW r \in Readers, NEW s \in Serials, NEW k \in Lights!Played,
         Lights!PlayEffect(r, s, k)
  PROVE  LightsInv'
<1>1. /\ reader[r].at = "free" /\ Lights!Command /\ UNCHANGED <<tracked, shown>>
      /\ base' = IF k = "enter" THEN [base EXCEPT ![s] = "white"] ELSE base
      /\ Lights!Play(r, s, k, Lights!Restores(s, k))
  BY DEF Lights!PlayEffect
<1>2. /\ k \in Lights!Kinds /\ Lights!Restores(s, k) \in BOOLEAN
      /\ Gives(Lights!Restores(s, k), k)
  BY DEF Lights!Played, Lights!Kinds, Lights!Restores, Gives
<1>3. /\ tracked \subseteq Serials /\ base \in [Serials -> BaseColours]
      /\ shown \in [Serials -> Lights!Shades] /\ left' \in 0..MaxCommands
  BY <1>1, LightsTypes, CommandCounts DEF LightsInv
<1>4. /\ base' \in [Serials -> BaseColours]
      /\ \A u \in Serials \ {s} : base'[u] = base[u]
  BY <1>1, <1>3 DEF BaseColours
<1>5. /\ active' \subseteq Serials /\ active' \ {s} \subseteq active
      /\ entry' \in [Serials -> EntryRecords] /\ task' \in [Tasks -> TaskRecords]
      /\ reader' \in [Readers -> ReaderRecords]
      /\ EntriesRun' /\ TasksServe' /\ ReadersWait'
      /\ Lights!EffectsOn(s)' # {} \/ (Amid(s, {"play"})' /\ Amid(s, Waiting)')
      /\ \A u \in Serials \ {s} :
           /\ Lights!EffectsOn(u) # {} => Lights!EffectsOn(u)' # {}
           /\ Amid(u, Waiting) => Amid(u, Waiting)'
           /\ Amid(u, {"play"}) => Amid(u, {"play"})'
  BY <1>1, <1>2, PlayKeeps
<1>6. \A u \in Serials \ {s} : Kept(u)
  BY <1>1, <1>4, <1>5 DEF Kept
<1>7. ActiveForEffects' /\ LightsSettle'
  BY <1>1, <1>3, <1>5, <1>6, LightsAlone DEF Settled
<1>8. Lights!TypeOK'
  BY <1>1, <1>3, <1>4, <1>5, LightsTypesNext
<1>9. QED
  BY <1>5, <1>7, <1>8 DEF LightsInv

\* The fade after the red.
LEMMA RedOverStep ==
  ASSUME LightsInv, NEW r \in Readers, Lights!RedOver(r)
  PROVE  LightsInv'
<1>1. PICK s \in Serials : s = reader[r].serial /\ reader[r].at = "red"
  BY DEF LightsInv, ReadersWait, Knows, Lights!RedOver
<1>2. /\ UNCHANGED <<tracked, shown, left>>
      /\ base' = IF entry[s].task = None THEN [base EXCEPT ![s] = "black"] ELSE base
      /\ Lights!Play(r, s, "death", TRUE)
  BY <1>1 DEF Lights!RedOver
<1>3. "death" \in Lights!Kinds /\ Gives(TRUE, "death")
  BY DEF Lights!Kinds, Gives
<1>4. /\ tracked \subseteq Serials /\ base \in [Serials -> BaseColours]
      /\ shown \in [Serials -> Lights!Shades] /\ left \in 0..MaxCommands
  BY LightsTypes DEF LightsInv
<1>5. /\ base' \in [Serials -> BaseColours]
      /\ \A u \in Serials \ {s} : base'[u] = base[u]
  BY <1>2, <1>4 DEF BaseColours
<1>6. /\ active' \subseteq Serials /\ active' \ {s} \subseteq active
      /\ entry' \in [Serials -> EntryRecords] /\ task' \in [Tasks -> TaskRecords]
      /\ reader' \in [Readers -> ReaderRecords]
      /\ EntriesRun' /\ TasksServe' /\ ReadersWait'
      /\ Lights!EffectsOn(s)' # {} \/ (Amid(s, {"play"})' /\ Amid(s, Waiting)')
      /\ \A u \in Serials \ {s} :
           /\ Lights!EffectsOn(u) # {} => Lights!EffectsOn(u)' # {}
           /\ Amid(u, Waiting) => Amid(u, Waiting)'
           /\ Amid(u, {"play"}) => Amid(u, {"play"})'
  BY <1>1, <1>2, <1>3, PlayKeeps
<1>7. \A u \in Serials \ {s} : Kept(u)
  BY <1>2, <1>5, <1>6 DEF Kept
<1>8. ActiveForEffects' /\ LightsSettle'
  BY <1>2, <1>4, <1>6, <1>7, LightsAlone DEF Settled
<1>9. Lights!TypeOK'
  BY <1>2, <1>4, <1>5, <1>6, LightsTypesNext
<1>10. QED
  BY <1>6, <1>8, <1>9 DEF LightsInv

\* The effect that was in the way has ended.
LEMMA PlayGoesOnStep ==
  ASSUME LightsInv, NEW r \in Readers, Lights!PlayGoesOn(r)
  PROVE  LightsInv'
<1>1. PICK s \in Serials, k \in Lights!Kinds, restores \in BOOLEAN, old \in Tasks :
        /\ s = reader[r].serial /\ k = reader[r].kind /\ restores = reader[r].restores
        /\ old = reader[r].for /\ reader[r].at = "play" /\ Gives(restores, k) /\ ~Lights!Live(old)
  <2>1. reader[r] \in ReaderRecords /\ Knows(reader[r]) /\ reader[r].at = "play"
    BY LightsTypes DEF LightsInv, ReadersWait, Lights!PlayGoesOn
  <2>2. ~Lights!Live(reader[r].for)
    BY DEF Lights!PlayGoesOn
  <2>3. QED
    BY <2>1, <2>2 DEF Knows, ReaderRecords
<1>2. /\ Lights!Launch(s, k, restores, Lights!Unused \cup {old})
      /\ active' = active \cup {s} /\ reader' = [reader EXCEPT ![r] = Lights!Free]
      /\ base' = IF k = "death" THEN [base EXCEPT ![s] = "black"] ELSE base
      /\ UNCHANGED <<tracked, shown, left>>
  BY <1>1 DEF Lights!PlayGoesOn
<1>3. /\ tracked \subseteq Serials /\ active \subseteq Serials
      /\ base \in [Serials -> BaseColours] /\ shown \in [Serials -> Lights!Shades]
      /\ left \in 0..MaxCommands /\ Lights!TypeOK /\ EntriesRun /\ TasksServe /\ ReadersWait
  BY LightsTypes DEF LightsInv
<1>4. /\ Lights!Unused \cup {old} \in SUBSET Tasks
      /\ \A t \in Lights!Unused \cup {old} : ~Lights!Live(t)
  BY <1>1 DEF Lights!Unused
<1>5. /\ entry' \in [Serials -> EntryRecords] /\ task' \in [Tasks -> TaskRecords]
      /\ EntriesRun' /\ TasksServe' /\ Lights!EffectsOn(s)' # {}
      /\ \A u \in Serials : Lights!EffectsOn(u) # {} => Lights!EffectsOn(u)' # {}
  BY <1>1, <1>2, <1>3, <1>4, LaunchKeeps
<1>6. /\ reader' \in [Readers -> ReaderRecords] /\ ReadersWait'
      /\ \A v, at : (Amid(v, at) => Amid(v, at)') \/ (reader[r].serial = v /\ reader[r].at \in at)
  BY <1>2, <1>3, ReaderMoves, FreeKnows
<1>7. /\ base' \in [Serials -> BaseColours]
      /\ \A u \in Serials \ {s} : base'[u] = base[u]
  BY <1>2, <1>3 DEF BaseColours
<1>8. \A u \in Serials \ {s} : Kept(u)
  BY <1>1, <1>2, <1>5, <1>6, <1>7 DEF Kept
<1>9. ActiveForEffects' /\ LightsSettle'
  BY <1>2, <1>3, <1>5, <1>8, LightsAlone DEF Settled
<1>10. Lights!TypeOK'
  BY <1>2, <1>3, <1>5, <1>6, <1>7, LightsTypesNext
<1>11. QED
  BY <1>5, <1>6, <1>9, <1>10 DEF LightsInv

\* COUNTDOWN takes the entry of whoever has it.
LEMMA CountdownStep ==
  ASSUME LightsInv, NEW r \in Readers, NEW s \in Serials, Lights!Countdown(r, s)
  PROVE  LightsInv'
<1>1. /\ Lights!Command /\ UNCHANGED <<tracked, shown, base, active, reader>>
      /\ Lights!Launch(s, "countdown", base[s] # None, Lights!Unused)
  BY DEF Lights!Countdown
<1>2. /\ tracked \subseteq Serials /\ active \subseteq Serials
      /\ base \in [Serials -> BaseColours] /\ shown \in [Serials -> Lights!Shades]
      /\ reader \in [Readers -> ReaderRecords] /\ left' \in 0..MaxCommands
      /\ Lights!TypeOK /\ EntriesRun /\ TasksServe /\ ReadersWait
  BY <1>1, LightsTypes, CommandCounts DEF LightsInv
<1>3. /\ "countdown" \in Lights!Kinds /\ Gives(base[s] # None, "countdown")
      /\ (base[s] # None) \in BOOLEAN
      /\ Lights!Unused \in SUBSET Tasks /\ \A t \in Lights!Unused : ~Lights!Live(t)
  BY DEF Lights!Kinds, Gives, Lights!Unused
<1>4. /\ entry' \in [Serials -> EntryRecords] /\ task' \in [Tasks -> TaskRecords]
      /\ EntriesRun' /\ TasksServe' /\ Lights!EffectsOn(s)' # {}
      /\ \A u \in Serials : Lights!EffectsOn(u) # {} => Lights!EffectsOn(u)' # {}
  BY <1>1, <1>2, <1>3, LaunchKeeps
<1>5. ReadersWait' /\ \A u, at : Amid(u, at) => Amid(u, at)'
  BY <1>1, <1>2, ReadersAlone
<1>6. \A u \in Serials \ {s} : Kept(u)
  BY <1>1, <1>4, <1>5 DEF Kept
<1>7. ActiveForEffects' /\ LightsSettle'
  BY <1>1, <1>2, <1>4, <1>6, LightsAlone DEF Settled
<1>8. Lights!TypeOK'
  BY <1>1, <1>2, <1>4, LightsTypesNext
<1>9. QED
  BY <1>4, <1>5, <1>7, <1>8 DEF LightsInv

\* An entry that is dropped.
LEMMA EntryDrops ==
  ASSUME Lights!TypeOK, EntriesRun, TasksServe, NEW s \in Serials,
         entry' = [entry EXCEPT ![s] = Lights!NoEntry], UNCHANGED task
  PROVE  /\ entry' \in [Serials -> EntryRecords] /\ EntriesRun' /\ TasksServe'
         /\ \A u \in Serials : Lights!EffectsOn(u) # {} => Lights!EffectsOn(u)' # {}
<1>1. entry \in [Serials -> EntryRecords] /\ Lights!NoEntry \in EntryRecords
  BY LightsTypes DEF Lights!NoEntry, EntryRecords
<1>2. entry'[s] = Lights!NoEntry /\ \A u \in Serials \ {s} : entry'[u] = entry[u]
  BY <1>1
<1>3. EntriesRun'
  BY <1>2 DEF EntriesRun, EntryRuns, Lights!Live
<1>4. /\ TasksServe'
      /\ \A u \in Serials : Lights!EffectsOn(u) # {} => Lights!EffectsOn(u)' # {}
  BY DEF TasksServe, Lights!Live, Lights!EffectsOn
<1>5. QED
  BY <1>1, <1>3, <1>4

\* A controller whose light shows its base colour.
LEMMA BaseShown ==
  ASSUME NEW u \in Serials, shown'[u] = base'[u]
  PROVE  Settled(u)'
BY DEF Settled

\* RUMBLE and ADMIN_EXIT.
LEMMA DropEntryStep ==
  ASSUME LightsInv, NEW r \in Readers, NEW s \in Serials, Lights!DropEntry(r, s)
  PROVE  LightsInv'
<1>1. /\ Lights!Command /\ UNCHANGED <<tracked, base, active, task, reader>> /\ s \in tracked
      /\ entry' = [entry EXCEPT ![s] = Lights!NoEntry]
      /\ UNCHANGED shown \/ Lights!Shows(s, base[s])
  BY DEF Lights!DropEntry
<1>2. /\ tracked \subseteq Serials /\ active \subseteq Serials
      /\ base \in [Serials -> BaseColours] /\ task \in [Tasks -> TaskRecords]
      /\ shown \in [Serials -> Lights!Shades]
      /\ reader \in [Readers -> ReaderRecords] /\ left' \in 0..MaxCommands
      /\ Lights!TypeOK /\ EntriesRun /\ TasksServe /\ ReadersWait
  BY <1>1, LightsTypes, CommandCounts DEF LightsInv
<1>3. /\ entry' \in [Serials -> EntryRecords] /\ EntriesRun' /\ TasksServe'
      /\ \A u \in Serials : Lights!EffectsOn(u) # {} => Lights!EffectsOn(u)' # {}
  BY <1>1, <1>2, EntryDrops
<1>4. ReadersWait' /\ \A u, at : Amid(u, at) => Amid(u, at)'
  BY <1>1, <1>2, ReadersAlone
<1>5. /\ shown' \in [Serials -> Lights!Shades]
      /\ \A u \in Serials \ {s} : shown'[u] = shown[u]
      /\ shown'[s] = shown[s] \/ shown'[s] = base[s]
  <2>1. CASE UNCHANGED shown
    BY <1>2, <2>1
  <2>2. CASE Lights!Shows(s, base[s])
    <3>1. base[s] \in Lights!Shades
      BY <1>2 DEF BaseColours, Lights!Shades
    <3>2. QED
      BY <1>1, <1>2, <2>2, <3>1, LightShows
  <2>3. QED
    BY <1>1, <2>1, <2>2
<1>6. \A u \in Serials \ {s} : Kept(u)
  BY <1>1, <1>3, <1>4, <1>5 DEF Kept
<1>7. Settled(s)'
  <2>1. CASE shown'[s] = base[s]
    BY <1>1, <2>1, BaseShown
  <2>2. CASE shown'[s] = shown[s]
    <3>1. Kept(s)
      BY <1>1, <1>3, <1>4, <2>2 DEF Kept
    <3>2. QED
      BY <1>1, <3>1, KeptSettles DEF LightsInv, LightsSettle
  <2>3. QED
    BY <1>5, <2>1, <2>2
<1>8. s \in active' => Lights!EffectsOn(s)' # {} \/ Amid(s, {"play"})'
  BY <1>1, <1>3, <1>4 DEF LightsInv, ActiveForEffects
<1>9. ActiveForEffects' /\ LightsSettle'
  BY <1>1, <1>2, <1>6, <1>7, <1>8, LightsAlone
<1>10. Lights!TypeOK'
  BY <1>1, <1>2, <1>3, <1>5, LightsTypesNext
<1>11. QED
  BY <1>3, <1>4, <1>9, <1>10 DEF LightsInv

\* A reader that begins to wait, or to sleep, amid a command for s.
LEMMA ReaderStays ==
  ASSUME Lights!TypeOK, ReadersWait, NEW r \in Readers, NEW at \in {"cancel", "red", "base"},
         NEW s \in Serials, NEW k \in Lights!Kinds \cup Colours, NEW restores \in BOOLEAN,
         NEW t \in Tasks \cup {None}, at # "red" => t \in Tasks, at = "base" => k \in Colours,
         reader[r].at = "free" \/ at = "red", reader[r].at # "play",
         reader[r].serial \in {None, s}, Lights!Waits(r, at, s, k, restores, t)
  PROVE  /\ reader' \in [Readers -> ReaderRecords] /\ ReadersWait'
         /\ at # "red" => Amid(s, Waiting)'
         /\ \A u : Amid(u, {"play"}) => Amid(u, {"play"})'
         /\ \A u \in Serials \ {s} : Amid(u, Waiting) => Amid(u, Waiting)'
<1>1. PICK x : /\ x = [at |-> at, serial |-> s, kind |-> k, restores |-> restores, for |-> t]
               /\ reader' = [reader EXCEPT ![r] = x]
  BY DEF Lights!Waits
<1>2. x \in ReaderRecords /\ Knows(x) /\ x.serial = s /\ x.at = at
  BY <1>1 DEF ReaderRecords, Knows
<1>3. /\ reader' \in [Readers -> ReaderRecords] /\ ReadersWait' /\ reader'[r] = x
      /\ \A u, w : (Amid(u, w) => Amid(u, w)') \/ (reader[r].serial = u /\ reader[r].at \in w)
  BY <1>1, <1>2, ReaderMoves
<1>4. at # "red" => Amid(s, Waiting)'
  BY <1>2, <1>3 DEF Amid, Waiting
<1>5. \A u \in Serials \ {s} : Amid(u, Waiting) => Amid(u, Waiting)'
  BY <1>3, ServicesConstants
<1>6. \A u : Amid(u, {"play"}) => Amid(u, {"play"})'
  BY <1>3
<1>7. QED
  BY <1>3, <1>4, <1>5, <1>6

\* PLAYER_DEATH: the entry is free, and the reader waits or shows red.
LEMMA DeathStep ==
  ASSUME LightsInv, NEW r \in Readers, NEW s \in Serials, Lights!Death(r, s)
  PROVE  LightsInv'
<1>1. /\ Lights!Command /\ UNCHANGED <<tracked, base>> /\ s \in tracked
      /\ reader[r].at = "free" /\ active' = active \ {s}
      /\ entry' = [entry EXCEPT ![s] = Lights!NoEntry]
  BY DEF Lights!Death
<1>2. /\ tracked \subseteq Serials /\ active \subseteq Serials
      /\ base \in [Serials -> BaseColours] /\ task \in [Tasks -> TaskRecords]
      /\ shown \in [Serials -> Lights!Shades] /\ left' \in 0..MaxCommands
      /\ Lights!TypeOK /\ EntriesRun /\ TasksServe /\ ReadersWait
  BY <1>1, LightsTypes, CommandCounts DEF LightsInv
<1>3. reader[r].serial = None /\ "death" \in Lights!Kinds /\ "red" \in Lights!Shades
  BY <1>1, <1>2 DEF ReadersWait, Knows, Lights!Kinds, Lights!Shades
<1>4. CASE entry[s].task = None
  <2>1. /\ Lights!Waits(r, "red", s, "death", TRUE, None) /\ Lights!Shows(s, "red")
        /\ UNCHANGED task
    BY <1>4 DEF Lights!Death
  <2>2. /\ entry' \in [Serials -> EntryRecords] /\ EntriesRun' /\ TasksServe'
        /\ \A u \in Serials : Lights!EffectsOn(u) # {} => Lights!EffectsOn(u)' # {}
    BY <1>1, <1>2, <2>1, EntryDrops
  <2>3. /\ reader' \in [Readers -> ReaderRecords] /\ ReadersWait'
        /\ \A u : Amid(u, {"play"}) => Amid(u, {"play"})'
        /\ \A u \in Serials \ {s} : Amid(u, Waiting) => Amid(u, Waiting)'
    BY <1>1, <1>2, <1>3, <2>1, ReaderStays
  <2>4. /\ shown' \in [Serials -> Lights!Shades] /\ shown'[s] = "red"
        /\ \A u \in Serials \ {s} : shown'[u] = shown[u]
    BY <1>1, <1>2, <1>3, <2>1, LightShows
  <2>5. \A u \in Serials \ {s} : Kept(u)
    BY <1>1, <2>2, <2>3, <2>4 DEF Kept
  <2>6. Settled(s)'
    BY <2>4 DEF Settled, Lights!Leftovers
  <2>7. ActiveForEffects' /\ LightsSettle'
    BY <1>1, <1>2, <2>5, <2>6, LightsAlone
  <2>8. Lights!TypeOK'
    BY <1>1, <1>2, <2>1, <2>2, <2>3, <2>4, LightsTypesNext
  <2>9. QED
    BY <2>2, <2>3, <2>7, <2>8 DEF LightsInv
<1>5. CASE entry[s].task # None
  <2>1. /\ Lights!Waits(r, "cancel", s, "death", TRUE, entry[s].task) /\ UNCHANGED shown
        /\ task' = Lights!Cancelled(entry[s].task)
    BY <1>5 DEF Lights!Death
  <2>2. /\ entry[s].task \in Tasks
        /\ entry' \in [Serials -> EntryRecords] /\ task' \in [Tasks -> TaskRecords]
        /\ EntriesRun' /\ TasksServe'
        /\ \A u \in Serials \ {s} : Lights!EffectsOn(u) # {} => Lights!EffectsOn(u)' # {}
    BY <1>1, <1>2, <1>5, <2>1, CancelKeeps
  <2>3. /\ reader' \in [Readers -> ReaderRecords] /\ ReadersWait' /\ Amid(s, Waiting)'
        /\ \A u : Amid(u, {"play"}) => Amid(u, {"play"})'
        /\ \A u \in Serials \ {s} : Amid(u, Waiting) => Amid(u, Waiting)'
    <3>1. /\ Lights!TypeOK /\ ReadersWait /\ entry[s].task \in Tasks /\ "death" \in Lights!Kinds
          /\ reader[r].at = "free" /\ reader[r].serial = None
          /\ Lights!Waits(r, "cancel", s, "death", TRUE, entry[s].task)
      BY <1>1, <1>2, <1>3, <2>1, <2>2
    <3>2. QED
      BY <3>1, ReaderStays
  <2>4. \A u \in Serials \ {s} : Kept(u)
    BY <1>1, <2>1, <2>2, <2>3 DEF Kept
  <2>5. Settled(s)'
    BY <2>3 DEF Settled
  <2>6. ActiveForEffects' /\ LightsSettle'
    BY <1>1, <1>2, <2>4, <2>5, LightsAlone
  <2>7. Lights!TypeOK'
    BY <1>1, <1>2, <2>1, <2>2, <2>3, LightsTypesNext
  <2>8. QED
    BY <2>2, <2>3, <2>6, <2>7 DEF LightsInv
<1>6. QED
  BY <1>4, <1>5

\* The effect that was in the way of the death has ended.
LEMMA DeathGoesOnStep ==
  ASSUME LightsInv, NEW r \in Readers, Lights!DeathGoesOn(r)
  PROVE  LightsInv'
<1>1. PICK s \in Serials : s = reader[r].serial /\ reader[r].at = "cancel"
  BY DEF LightsInv, ReadersWait, Knows, Lights!DeathGoesOn
<1>2. /\ Lights!Waits(r, "red", s, "death", TRUE, None) /\ Lights!Shows(s, "red")
      /\ UNCHANGED <<tracked, base, entry, active, task, left>>
  BY <1>1 DEF Lights!DeathGoesOn
<1>3. /\ tracked \subseteq Serials /\ active \subseteq Serials
      /\ base \in [Serials -> BaseColours] /\ task \in [Tasks -> TaskRecords]
      /\ entry \in [Serials -> EntryRecords] /\ left \in 0..MaxCommands
      /\ Lights!TypeOK /\ EntriesRun /\ TasksServe /\ ReadersWait
  BY LightsTypes DEF LightsInv
<1>4. "death" \in Lights!Kinds /\ "red" \in Lights!Shades
  BY DEF Lights!Kinds, Lights!Shades
<1>5. /\ EntriesRun' /\ TasksServe'
      /\ \A u \in Serials : Lights!EffectsOn(u) # {} => Lights!EffectsOn(u)' # {}
  BY <1>2, <1>3, EntriesAlone
<1>6. /\ reader' \in [Readers -> ReaderRecords] /\ ReadersWait'
      /\ \A u : Amid(u, {"play"}) => Amid(u, {"play"})'
      /\ \A u \in Serials \ {s} : Amid(u, Waiting) => Amid(u, Waiting)'
  BY <1>1, <1>2, <1>3, <1>4, ReaderStays
<1>7. /\ shown' \in [Serials -> Lights!Shades]
      /\ s \in tracked => shown'[s] = "red"
      /\ \A u \in Serials \ {s} : shown'[u] = shown[u]
  BY <1>2, <1>3, <1>4, LightShows
<1>8. \A u \in Serials \ {s} : Kept(u)
  BY <1>2, <1>5, <1>6, <1>7 DEF Kept
<1>9. s \in tracked' => Settled(s)'
  BY <1>2, <1>7 DEF Settled, Lights!Leftovers
<1>10. s \in active' => Lights!EffectsOn(s)' # {} \/ Amid(s, {"play"})'
  BY <1>2, <1>5, <1>6 DEF LightsInv, ActiveForEffects
<1>11. ActiveForEffects' /\ LightsSettle'
  BY <1>2, <1>3, <1>8, <1>9, <1>10, LightsAlone
<1>12. Lights!TypeOK'
  BY <1>2, <1>3, <1>6, <1>7, LightsTypesNext
<1>13. QED
  BY <1>5, <1>6, <1>11, <1>12 DEF LightsInv

\* The locked part of apply_base_color.
LEMMA StoreKeeps ==
  ASSUME Lights!TypeOK, EntriesRun, NEW s \in Serials, NEW c \in Colours, Lights!Store(s, c)
  PROVE  /\ base' \in [Serials -> BaseColours] /\ shown' \in [Serials -> Lights!Shades]
         /\ \A u \in Serials \ {s} : base'[u] = base[u] /\ shown'[u] = shown[u]
         /\ s \in tracked => shown'[s] = base'[s] \/ Lights!EffectsOn(s) # {}
<1>1. base' = [base EXCEPT ![s] = c] /\ c \in BaseColours /\ c \in Lights!Shades
  BY DEF Lights!Store, BaseColours, Lights!Shades
<1>2. /\ base' \in [Serials -> BaseColours] /\ base'[s] = c
      /\ \A u \in Serials \ {s} : base'[u] = base[u]
  BY <1>1, BasesType
<1>3. CASE entry[s].here
  <2>1. entry[s].task \in Lights!EffectsOn(s)
    BY <1>3 DEF EntriesRun, EntryRuns, Lights!NoEntry, Lights!EffectsOn
  <2>2. UNCHANGED shown
    BY <1>3 DEF Lights!Store
  <2>3. QED
    BY <1>2, <2>1, <2>2, LightsTypes
<1>4. CASE ~entry[s].here
  <2>1. Lights!Shows(s, c)
    BY <1>4 DEF Lights!Store
  <2>2. QED
    BY <1>1, <1>2, <2>1, LightShows
<1>5. QED
  BY <1>3, <1>4

\* GAME_EFFECT_BASE_COLOR and its like: a charge is cancelled first.
LEMMA BaseColourStep ==
  ASSUME LightsInv, NEW r \in Readers, NEW s \in Serials, NEW c \in Colours,
         Lights!BaseColour(r, s, c)
  PROVE  LightsInv'
<1>1. Lights!Command /\ UNCHANGED tracked /\ s \in tracked /\ reader[r].at = "free"
  BY DEF Lights!BaseColour
<1>2. /\ tracked \subseteq Serials /\ active \subseteq Serials
      /\ base \in [Serials -> BaseColours] /\ task \in [Tasks -> TaskRecords]
      /\ entry \in [Serials -> EntryRecords] /\ reader \in [Readers -> ReaderRecords]
      /\ shown \in [Serials -> Lights!Shades] /\ left' \in 0..MaxCommands
      /\ Lights!TypeOK /\ EntriesRun /\ TasksServe /\ ReadersWait
  BY <1>1, LightsTypes, CommandCounts DEF LightsInv
<1>3. reader[r].serial = None
  BY <1>1, <1>2 DEF ReadersWait, Knows
<1>4. CASE entry[s].kind = "charge"
  <2>1. /\ Lights!Waits(r, "base", s, c, FALSE, entry[s].task) /\ UNCHANGED <<base, shown>>
        /\ task' = Lights!Cancelled(entry[s].task) /\ active' = active \ {s}
        /\ entry' = [entry EXCEPT ![s] = Lights!NoEntry]
    BY <1>4 DEF Lights!BaseColour
  <2>2. entry[s].task # None
    BY <1>2, <1>4, ServicesConstants DEF EntriesRun, EntryRuns, Lights!NoEntry
  <2>3. /\ entry[s].task \in Tasks
        /\ entry' \in [Serials -> EntryRecords] /\ task' \in [Tasks -> TaskRecords]
        /\ EntriesRun' /\ TasksServe'
        /\ \A u \in Serials \ {s} : Lights!EffectsOn(u) # {} => Lights!EffectsOn(u)' # {}
    BY <1>2, <2>1, <2>2, CancelKeeps
  <2>4. /\ reader' \in [Readers -> ReaderRecords] /\ ReadersWait' /\ Amid(s, Waiting)'
        /\ \A u : Amid(u, {"play"}) => Amid(u, {"play"})'
        /\ \A u \in Serials \ {s} : Amid(u, Waiting) => Amid(u, Waiting)'
    BY <1>1, <1>2, <1>3, <2>1, <2>3, ReaderStays
  <2>5. \A u \in Serials \ {s} : Kept(u)
    BY <1>1, <2>1, <2>3, <2>4 DEF Kept
  <2>6. Settled(s)'
    BY <2>4 DEF Settled
  <2>7. ActiveForEffects' /\ LightsSettle'
    BY <1>1, <1>2, <2>1, <2>5, <2>6, LightsAlone
  <2>8. Lights!TypeOK'
    BY <1>1, <1>2, <2>1, <2>3, <2>4, LightsTypesNext
  <2>9. QED
    BY <2>3, <2>4, <2>7, <2>8 DEF LightsInv
<1>5. CASE entry[s].kind # "charge"
  <2>1. Lights!Store(s, c) /\ UNCHANGED <<entry, active, task, reader>>
    BY <1>5 DEF Lights!BaseColour
  <2>2. /\ base' \in [Serials -> BaseColours] /\ shown' \in [Serials -> Lights!Shades]
        /\ \A u \in Serials \ {s} : base'[u] = base[u] /\ shown'[u] = shown[u]
        /\ s \in tracked => shown'[s] = base'[s] \/ Lights!EffectsOn(s) # {}
    BY <1>2, <2>1, StoreKeeps
  <2>3. /\ EntriesRun' /\ TasksServe'
        /\ \A u \in Serials : Lights!EffectsOn(u) # {} => Lights!EffectsOn(u)' # {}
    BY <1>2, <2>1, EntriesAlone
  <2>4. ReadersWait' /\ \A u, at : Amid(u, at) => Amid(u, at)'
    BY <1>2, <2>1, ReadersAlone
  <2>5. \A u \in Serials \ {s} : Kept(u)
    BY <2>2, <2>3, <2>4 DEF Kept
  <2>6. Settled(s)'
    BY <1>1, <2>2, <2>3 DEF Settled
  <2>7. s \in active' => Lights!EffectsOn(s)' # {} \/ Amid(s, {"play"})'
    BY <2>1, <2>3, <2>4 DEF LightsInv, ActiveForEffects
  <2>8. ActiveForEffects' /\ LightsSettle'
    BY <1>1, <1>2, <2>1, <2>5, <2>6, <2>7, LightsAlone
  <2>9. Lights!TypeOK'
    BY <1>1, <1>2, <2>1, <2>2, LightsTypesNext
  <2>10. QED
    BY <2>3, <2>4, <2>8, <2>9 DEF LightsInv
<1>6. QED
  BY <1>4, <1>5

\* The charge has ended.
LEMMA BaseGoesOnStep ==
  ASSUME LightsInv, NEW r \in Readers, Lights!BaseGoesOn(r)
  PROVE  LightsInv'
<1>1. PICK s \in Serials, c \in Colours :
        s = reader[r].serial /\ c = reader[r].kind /\ reader[r].at = "base"
  BY DEF LightsInv, ReadersWait, Knows, Lights!BaseGoesOn
<1>2. /\ Lights!Store(s, c) /\ reader' = [reader EXCEPT ![r] = Lights!Free]
      /\ UNCHANGED <<tracked, entry, active, task, left>>
  BY <1>1 DEF Lights!BaseGoesOn
<1>3. /\ tracked \subseteq Serials /\ active \subseteq Serials
      /\ task \in [Tasks -> TaskRecords] /\ entry \in [Serials -> EntryRecords]
      /\ left \in 0..MaxCommands
      /\ Lights!TypeOK /\ EntriesRun /\ TasksServe /\ ReadersWait
  BY LightsTypes DEF LightsInv
<1>4. /\ base' \in [Serials -> BaseColours] /\ shown' \in [Serials -> Lights!Shades]
      /\ \A u \in Serials \ {s} : base'[u] = base[u] /\ shown'[u] = shown[u]
      /\ s \in tracked => shown'[s] = base'[s] \/ Lights!EffectsOn(s) # {}
  BY <1>2, <1>3, StoreKeeps
<1>5. /\ EntriesRun' /\ TasksServe'
      /\ \A u \in Serials : Lights!EffectsOn(u) # {} => Lights!EffectsOn(u)' # {}
  BY <1>2, <1>3, EntriesAlone
<1>6. /\ reader' \in [Readers -> ReaderRecords] /\ ReadersWait'
      /\ \A u, at : (Amid(u, at) => Amid(u, at)') \/ (reader[r].serial = u /\ reader[r].at \in at)
  BY <1>2, <1>3, ReaderMoves, FreeKnows
<1>7. \A u : Amid(u, {"play"}) => Amid(u, {"play"})'
  BY <1>1, <1>6
<1>8. \A u \in Serials \ {s} : Kept(u)
  BY <1>1, <1>4, <1>5, <1>6, <1>7 DEF Kept
<1>9. s \in tracked' => Settled(s)'
  BY <1>2, <1>4, <1>5 DEF Settled
<1>10. s \in active' => Lights!EffectsOn(s)' # {} \/ Amid(s, {"play"})'
  BY <1>2, <1>5, <1>7 DEF LightsInv, ActiveForEffects
<1>11. ActiveForEffects' /\ LightsSettle'
  BY <1>2, <1>3, <1>8, <1>9, <1>10, LightsAlone
<1>12. Lights!TypeOK'
  BY <1>2, <1>3, <1>4, <1>6, LightsTypesNext
<1>13. QED
  BY <1>5, <1>6, <1>11, <1>12 DEF LightsInv

\* The first message of a gameplay stream.
LEMMA ConfigureStep ==
  ASSUME LightsInv, NEW r \in Readers, NEW s \in Serials, NEW c \in Colours,
         Lights!Configure(r, s, c)
  PROVE  LightsInv'
<1>1. /\ Lights!Command /\ UNCHANGED <<tracked, entry, active, task, reader>>
      /\ base' = [base EXCEPT ![s] = c] /\ Lights!Shows(s, c)
      /\ c \in BaseColours /\ c \in Lights!Shades
  BY DEF Lights!Configure, BaseColours, Lights!Shades
<1>2. /\ tracked \subseteq Serials /\ active \subseteq Serials
      /\ task \in [Tasks -> TaskRecords] /\ entry \in [Serials -> EntryRecords]
      /\ reader \in [Readers -> ReaderRecords] /\ left' \in 0..MaxCommands
      /\ Lights!TypeOK /\ EntriesRun /\ TasksServe /\ ReadersWait
  BY <1>1, LightsTypes, CommandCounts DEF LightsInv
<1>3. /\ base' \in [Serials -> BaseColours] /\ base'[s] = c
      /\ \A u \in Serials \ {s} : base'[u] = base[u]
  BY <1>1, <1>2, BasesType
<1>4. /\ shown' \in [Serials -> Lights!Shades]
      /\ s \in tracked => shown'[s] = c
      /\ \A u \in Serials \ {s} : shown'[u] = shown[u]
  BY <1>1, <1>2, LightShows
<1>5. /\ EntriesRun' /\ TasksServe'
      /\ \A u \in Serials : Lights!EffectsOn(u) # {} => Lights!EffectsOn(u)' # {}
  BY <1>1, <1>2, EntriesAlone
<1>6. ReadersWait' /\ \A u, at : Amid(u, at) => Amid(u, at)'
  BY <1>1, <1>2, ReadersAlone
<1>7. \A u \in Serials \ {s} : Kept(u)
  BY <1>3, <1>4, <1>5, <1>6 DEF Kept
<1>8. s \in tracked' => Settled(s)'
  BY <1>1, <1>3, <1>4, BaseShown
<1>9. s \in active' => Lights!EffectsOn(s)' # {} \/ Amid(s, {"play"})'
  BY <1>1, <1>5, <1>6 DEF LightsInv, ActiveForEffects
<1>10. ActiveForEffects' /\ LightsSettle'
  BY <1>1, <1>2, <1>7, <1>8, <1>9, LightsAlone
<1>11. Lights!TypeOK'
  BY <1>1, <1>2, <1>3, <1>4, LightsTypesNext
<1>12. QED
  BY <1>5, <1>6, <1>10, <1>11 DEF LightsInv

\* A step that leaves every light and every effect alone.
LEMMA AllKept ==
  ASSUME LightsInv, \A u \in Serials : Kept(u), UNCHANGED <<tracked, active>>
  PROVE  ActiveForEffects' /\ LightsSettle'
<1>1. tracked \subseteq Serials /\ active \subseteq Serials
  BY LightsTypes DEF LightsInv
<1>2. ActiveForEffects'
  BY <1>1 DEF LightsInv, ActiveForEffects, Kept
<1>3. LightsSettle'
  <2>1. \A u \in tracked : Settled(u)'
    BY <1>1, KeptSettles DEF LightsInv, LightsSettle
  <2>2. QED
    BY <2>1 DEF LightsSettle
<1>4. QED
  BY <1>2, <1>3

\* A stream begins, or ends while its reader waits for no effect.
LEMMA StreamStep ==
  ASSUME LightsInv, NEW r \in Readers, Lights!OpenStream(r) \/ Lights!CloseStream(r)
  PROVE  LightsInv'
<1>1. /\ tracked \subseteq Serials /\ active \subseteq Serials
      /\ base \in [Serials -> BaseColours] /\ shown \in [Serials -> Lights!Shades]
      /\ task \in [Tasks -> TaskRecords] /\ entry \in [Serials -> EntryRecords]
      /\ left \in 0..MaxCommands
      /\ Lights!TypeOK /\ EntriesRun /\ TasksServe /\ ReadersWait
  BY LightsTypes DEF LightsInv
<1>2. /\ UNCHANGED <<tracked, shown, base, entry, active, task>>
      /\ reader[r].at \in {"closed", "free", "red"}
  BY DEF Lights!OpenStream, Lights!CloseStream
<1>3. left' \in 0..MaxCommands
  BY <1>1, CommandCounts DEF Lights!OpenStream, Lights!CloseStream
<1>4. PICK x \in {Lights!Free, [Lights!Free EXCEPT !.at = "closed"]} :
        reader' = [reader EXCEPT ![r] = x]
  BY DEF Lights!OpenStream, Lights!CloseStream
<1>5. x \in ReaderRecords /\ Knows(x)
  BY <1>4, FreeKnows
<1>6. /\ reader' \in [Readers -> ReaderRecords] /\ ReadersWait'
      /\ \A u, at : (Amid(u, at) => Amid(u, at)') \/ (reader[r].serial = u /\ reader[r].at \in at)
  BY <1>1, <1>4, <1>5, ReaderMoves
<1>7. \A u : (Amid(u, Waiting) => Amid(u, Waiting)') /\ (Amid(u, {"play"}) => Amid(u, {"play"})')
  BY <1>2, <1>6 DEF Waiting
<1>8. /\ EntriesRun' /\ TasksServe'
      /\ \A u \in Serials : Lights!EffectsOn(u) # {} => Lights!EffectsOn(u)' # {}
  BY <1>1, <1>2, EntriesAlone
<1>9. \A u \in Serials : Kept(u)
  BY <1>2, <1>7, <1>8 DEF Kept
<1>10. ActiveForEffects' /\ LightsSettle'
  BY <1>2, <1>9, AllKept
<1>11. Lights!TypeOK'
  BY <1>1, <1>2, <1>3, <1>6, LightsTypesNext
<1>12. QED
  BY <1>6, <1>8, <1>10, <1>11 DEF LightsInv

\* Discovery misses a controller, or finds it again with its base colour.
LEMMA ControllerStep ==
  ASSUME LightsInv, NEW s \in Serials, Lights!Disconnect(s) \/ Lights!Reconnect(s)
  PROVE  LightsInv'
<1>1. /\ tracked \subseteq Serials /\ active \subseteq Serials
      /\ base \in [Serials -> BaseColours] /\ shown \in [Serials -> Lights!Shades]
      /\ task \in [Tasks -> TaskRecords] /\ entry \in [Serials -> EntryRecords]
      /\ reader \in [Readers -> ReaderRecords] /\ left \in 0..MaxCommands
      /\ Lights!TypeOK /\ EntriesRun /\ TasksServe /\ ReadersWait
  BY LightsTypes DEF LightsInv
<1>2. UNCHANGED <<base, entry, task, reader>> /\ tracked' \in {tracked \ {s}, tracked \cup {s}}
  BY DEF Lights!Disconnect, Lights!Reconnect
<1>3. left' \in 0..MaxCommands
  BY <1>1, CommandCounts DEF Lights!Disconnect, Lights!Reconnect
<1>4. PICK c \in Lights!Shades :
        shown' = [shown EXCEPT ![s] = c] /\ (c = base[s] \/ s \notin tracked')
  BY <1>1 DEF Lights!Disconnect, Lights!Reconnect, Lights!Shades, BaseColours
<1>5. /\ shown' \in [Serials -> Lights!Shades] /\ shown'[s] = c
      /\ \A u \in Serials \ {s} : shown'[u] = shown[u]
  BY <1>1, <1>4
<1>6. active' \subseteq active
  BY DEF Lights!Disconnect, Lights!Reconnect
<1>7. /\ EntriesRun' /\ TasksServe'
      /\ \A u \in Serials : Lights!EffectsOn(u) # {} => Lights!EffectsOn(u)' # {}
  BY <1>1, <1>2, EntriesAlone
<1>8. ReadersWait' /\ \A u, at : Amid(u, at) => Amid(u, at)'
  BY <1>1, <1>2, ReadersAlone
<1>9. \A u \in Serials \ {s} : Kept(u)
  BY <1>2, <1>5, <1>7, <1>8 DEF Kept
<1>10. s \in tracked' => Settled(s)'
  BY <1>2, <1>4, <1>5, BaseShown
<1>11. s \in active' => Lights!EffectsOn(s)' # {} \/ Amid(s, {"play"})'
  BY <1>1, <1>6, <1>7, <1>8 DEF LightsInv, ActiveForEffects
<1>12. ActiveForEffects' /\ LightsSettle'
  BY <1>1, <1>2, <1>6, <1>9, <1>10, <1>11, LightsAlone
<1>13. Lights!TypeOK'
  BY <1>1, <1>2, <1>3, <1>5, <1>6, LightsTypesNext
<1>14. QED
  BY <1>7, <1>8, <1>12, <1>13 DEF LightsInv

\* Every step of the lights.
LEMMA LightsStep ==
  ASSUME LightsInv, Lights!Next
  PROVE  LightsInv'
<1>1. CASE \E t \in Tasks : Lights!Frame(t) \/ Lights!End(t)
  BY <1>1, FrameStep, EndStep
<1>2. CASE \E r \in Readers : Lights!ReaderGoesOn(r)
  BY <1>2, PlayGoesOnStep, DeathGoesOnStep, RedOverStep, BaseGoesOnStep DEF Lights!ReaderGoesOn
<1>3. CASE \E r \in Readers : Lights!OpenStream(r) \/ Lights!CloseStream(r)
  BY <1>3, StreamStep
<1>4. CASE \E r \in Readers, s \in Serials : Lights!Message(r, s)
  BY <1>4, PlayEffectStep, CountdownStep, DropEntryStep, DeathStep, BaseColourStep, ConfigureStep
     DEF Lights!Message
<1>5. CASE \E s \in Serials : Lights!Disconnect(s) \/ Lights!Reconnect(s)
  BY <1>5, ControllerStep
<1>6. QED
  BY <1>1, <1>2, <1>3, <1>4, <1>5 DEF Lights!Next

\* The lights as they are left alone by the other parts.
LEMMA LightsAside ==
  ASSUME LightsInv, UNCHANGED lightsVars
  PROVE  LightsInv'
<1>1. UNCHANGED <<tracked, shown, base, entry, active, task, reader, left>>
  BY DEF lightsVars
<1>2. /\ EntriesRun' /\ TasksServe'
      /\ \A u \in Serials : Lights!EffectsOn(u) # {} => Lights!EffectsOn(u)' # {}
  BY <1>1, EntriesAlone DEF LightsInv
<1>3. ReadersWait' /\ \A u, at : Amid(u, at) => Amid(u, at)'
  BY <1>1, ReadersAlone DEF LightsInv
<1>4. \A u \in Serials : Kept(u)
  BY <1>1, <1>2, <1>3 DEF Kept
<1>5. ActiveForEffects' /\ LightsSettle'
  BY <1>1, <1>4, AllKept
<1>6. Lights!TypeOK'
  BY <1>1, LightsTypes, LightsTypesNext DEF LightsInv
<1>7. QED
  BY <1>2, <1>3, <1>5, <1>6 DEF LightsInv

\* At the start all is dark, and no stream is open.
LEMMA InitLights == Init => LightsInv
<1> SUFFICES ASSUME Init PROVE LightsInv
  OBVIOUS
<1>1. /\ tracked = Serials /\ base = [s \in Serials |-> None] /\ shown = base
      /\ entry = [s \in Serials |-> Lights!NoEntry] /\ active = {}
      /\ task = [t \in Tasks |-> Lights!NoTask]
      /\ reader = [r \in Readers |-> [Lights!Free EXCEPT !.at = "closed"]]
      /\ left = MaxCommands
  BY DEF Init, Lights!Init
<1>2. Lights!TypeOK
  <2>1. /\ Lights!NoTask \in TaskRecords /\ Lights!NoEntry \in EntryRecords
        /\ [Lights!Free EXCEPT !.at = "closed"] \in ReaderRecords
    BY FreeKnows DEF Lights!NoTask, TaskRecords, Lights!NoEntry, EntryRecords
  <2>2. None \in BaseColours /\ None \in Lights!Shades /\ MaxCommands \in 0..MaxCommands
    BY ServicesConstants DEF BaseColours, Lights!Shades
  <2>3. QED
    BY <1>1, <2>1, <2>2, LightsTypes
<1>3. EntriesRun /\ TasksServe
  BY <1>1 DEF EntriesRun, EntryRuns, TasksServe, Lights!Live, Lights!NoTask
<1>4. ReadersWait
  BY <1>1, FreeKnows DEF ReadersWait
<1>5. ActiveForEffects /\ LightsSettle
  BY <1>1 DEF ActiveForEffects, LightsSettle, Settled
<1>6. QED
  BY <1>2, <1>3, <1>4, <1>5 DEF LightsInv

\* A step of the services is one of the lights, or leaves them alone.
LEMMA LightsNext == LightsInv /\ [Next]_servicesVars => LightsInv'
<1> SUFFICES ASSUME LightsInv, [Next]_servicesVars PROVE LightsInv'
  OBVIOUS
<1>1. Lights!Next \/ UNCHANGED lightsVars
  BY DEF Next, BackOnly, HidOnly, DiscOnly, SoundOnly, servicesVars
<1>2. QED
  BY <1>1, LightsStep, LightsAside

\* The types, entries, effects and readers of the lights stay as described.
THEOREM LightsInvariance == Spec => []LightsInv
BY InitLights, LightsNext, PTL DEF Spec

\* No entry is held without an effect that lets go of it, however effects and
\* streams end; and the refresh passes over a controller only for an effect
\* (feedback_manager.py, effect_lock and set_effect_active).
THEOREM EffectsAlwaysLetGo == Spec => []EffectsLetGo
<1>1. LightsInv => EffectsLetGo
  <2> SUFFICES ASSUME LightsInv PROVE Lights!EffectsLetGo
    BY DEF EffectsLetGo
  <2>1. \A s \in Serials : entry[s].here => Lights!Live(entry[s].task)
    BY DEF LightsInv, EntriesRun, EntryRuns, Lights!NoEntry
  <2>2. \A s \in active : Lights!EffectsOn(s) # {} \/ \E r \in Readers : reader[r].serial = s
    BY DEF LightsInv, ActiveForEffects, Amid
  <2>3. QED
    BY <2>1, <2>2 DEF Lights!EffectsLetGo
<1>2. QED
  BY <1>1, LightsInvariance, PTL

\* A controller on which no effect runs, and about which no command is amid,
\* shows its base colour or what the last effect is known to leave behind
\* (feedback_manager.py, apply_base_color and play_effect_with_restore).
THEOREM ColoursAlwaysSettle == Spec => []ColoursSettle
<1>1. LightsInv => ColoursSettle
  <2> SUFFICES ASSUME LightsInv, NEW s \in tracked, Lights!Quiet(s), base[s] # None
               PROVE  shown[s] = base[s] \/ shown[s] \in Lights!Leftovers
    BY DEF ColoursSettle, Lights!ColoursSettle
  <2>1. Lights!EffectsOn(s) = {} /\ ~Amid(s, Waiting)
    BY DEF Lights!Quiet, Amid
  <2>2. QED
    BY <2>1 DEF LightsInv, LightsSettle, Settled
<1>2. QED
  BY <1>1, LightsInvariance, PTL

\* The types of the lights.
THEOREM LightsAreTyped == Spec => []Lights!TypeOK
BY LightsInvariance, PTL DEF LightsInv

-----------------------------------------------------------------------------
(* The sound channels: the inductive invariant. *)

ChannelRecords == [busy : BOOLEAN, priority : Sound!Priorities, robbed : BOOLEAN]
VoiceRecords   == [at : {"done", "playing", "over", "cut"}, on : Channels \cup {None}]
LoopRecords    == [at : {"idle", "probe", "asked", "load", "start", "go"},
                   what : Channels \cup Patterns \cup {None}, priority : Sound!Priorities]

SoundTypes ==
  /\ channel \in [Channels -> ChannelRecords] /\ voice \in [Voices -> VoiceRecords]
  /\ loop \in LoopRecords

\* A thread plays on a channel until it is done.
VoicesSing ==
  \A v \in Voices : IF voice[v].at = "done" THEN voice[v].on = None ELSE voice[v].on \in Channels

\* On the channel that is about to be taken the flag is clear.
ProbeIsClear == loop.at = "probe" => loop.what \in Channels /\ ~channel[loop.what].busy

\* A busy channel has a thread.  One that no critical sound has taken has only
\* that one, whose sound is not cut short, and none if it is not busy.
ChannelIsHonest(c) ==
  /\ channel[c].busy => \E v \in Voices : voice[v].on = c
  /\ ~channel[c].robbed =>
       /\ \A v, w \in Voices : voice[v].on = c /\ voice[w].on = c => v = w
       /\ \A v \in Voices : voice[v].on = c => channel[c].busy /\ voice[v].at # "cut"

SoundsInv == SoundTypes /\ VoicesSing /\ ProbeIsClear /\ \A c \in Channels : ChannelIsHonest(c)

\* The channel that is found is one of the channels.
LEMMA FoundIsThere ==
  ASSUME SoundTypes, NEW p, NEW c \in Sound!Found(p)
  PROVE  c \in Channels
<1>1. Channels \subseteq Nat /\ Channels # {}
  BY ServicesConstants
<1> DEFINE free  == {d \in Channels : ~channel[d].busy}
           least == {d \in Channels : \A e \in Channels : channel[d].priority <= channel[e].priority}
<1>2. CASE free # {}
  <2>1. free \in SUBSET Nat /\ c = Sound!Lowest(free)
    BY <1>1, <1>2 DEF Sound!Found
  <2>2. QED
    BY <1>2, <2>1, LeastNumber DEF Sound!Lowest
<1>3. CASE free = {}
  <2>1. c = Sound!Lowest(least)
    BY <1>3 DEF Sound!Found
  <2>2. least # {}
    <3> DEFINE levels == {channel[d].priority : d \in Channels}
    <3>1. levels \in SUBSET Nat /\ levels # {}
      <4>1. \A d \in Channels : channel[d].priority \in Nat
        BY DEF SoundTypes, ChannelRecords, Sound!Priorities
      <4>2. QED
        BY <1>1, <4>1
    <3>2. PICK n \in levels : \A m \in levels : n <= m
      BY <3>1, LeastNumber
    <3>3. QED
      BY <3>2
  <2>3. least \in SUBSET Nat
    BY <1>1
  <2>4. QED
    BY <2>1, <2>2, <2>3, LeastNumber DEF Sound!Lowest
<1>4. QED
  BY <1>2, <1>3

\* PlaySound takes a channel: what plays there goes on, unless it was marked.
LEMMA PlaySoundStep ==
  ASSUME SoundsInv, NEW p \in Sound!Priorities, Sound!PlaySound(p)
  PROVE  SoundsInv'
<1>1. PICK c \in Sound!Found(p) :
        /\ loop' = [at |-> "probe", what |-> c, priority |-> p]
        /\ channel' = [channel EXCEPT
             ![c].busy = FALSE, ![c].robbed = channel[c].busy \/ (@ /\ Sound!Singing(c) # {})]
  BY DEF Sound!PlaySound
<1>2. UNCHANGED voice
  BY DEF Sound!PlaySound
<1>3. c \in Channels
  BY FoundIsThere DEF SoundsInv
<1>4. PICK x \in ChannelRecords :
        /\ channel' = [channel EXCEPT ![c] = x] /\ ~x.busy
        /\ x.robbed <=> channel[c].busy \/ (channel[c].robbed /\ Sound!Singing(c) # {})
  <2>1. channel[c] \in ChannelRecords
    BY <1>3 DEF SoundsInv, SoundTypes
  <2> DEFINE y == [channel[c] EXCEPT !.busy = FALSE,
                     !.robbed = channel[c].busy \/ (@ /\ Sound!Singing(c) # {})]
  <2>2. y \in ChannelRecords /\ ~y.busy
    BY <2>1 DEF ChannelRecords
  <2>3. y.robbed <=> channel[c].busy \/ (channel[c].robbed /\ Sound!Singing(c) # {})
    BY <2>1 DEF ChannelRecords
  <2>4. channel' = [channel EXCEPT ![c] = y]
    BY <1>1, <1>3 DEF SoundsInv, SoundTypes
  <2> HIDE DEF y
  <2>5. QED
    BY <2>2, <2>3, <2>4
<1>5. channel'[c] = x /\ \A d \in Channels \ {c} : channel'[d] = channel[d]
  BY <1>3, <1>4 DEF SoundsInv, SoundTypes
<1>6. SoundTypes'
  <2>1. [channel EXCEPT ![c] = x] \in [Channels -> ChannelRecords]
    BY <1>3 DEF SoundsInv, SoundTypes
  <2>2. loop' \in LoopRecords
    BY <1>1, <1>3 DEF LoopRecords
  <2>3. QED
    BY <1>2, <1>4, <2>1, <2>2 DEF SoundsInv, SoundTypes
<1>7. VoicesSing' /\ ProbeIsClear'
  BY <1>1, <1>2, <1>3, <1>4, <1>5 DEF SoundsInv, VoicesSing, ProbeIsClear
<1>8. ChannelIsHonest(c)'
  <2>1. ~channel'[c].robbed => \A v \in Voices : voice'[v].on # c
    BY <1>2, <1>3, <1>4, <1>5 DEF SoundsInv, ChannelIsHonest, Sound!Singing
  <2>2. QED
    BY <1>4, <1>5, <2>1 DEF ChannelIsHonest
<1>9. \A d \in Channels \ {c} : ChannelIsHonest(d)'
  BY <1>2, <1>5 DEF SoundsInv, ChannelIsHonest
<1>10. QED
  BY <1>6, <1>7, <1>8, <1>9 DEF SoundsInv

\* A thread begins on a channel whose flag was clear, or the file is bad.
LEMMA ProbedStep ==
  ASSUME SoundsInv, Sound!Probed
  PROVE  SoundsInv'
<1>1. PICK c \in Channels : c = loop.what /\ ~channel[c].busy
  BY DEF SoundsInv, ProbeIsClear, Sound!Probed
<1>2. loop' \in LoopRecords /\ loop'.at = "idle" /\ loop.priority \in Sound!Priorities
  BY DEF Sound!Probed, Sound!Free, Sound!Priorities, LoopRecords, SoundsInv, SoundTypes
<1>3. CASE UNCHANGED <<channel, voice>>
  <2>1. SoundTypes' /\ VoicesSing' /\ ProbeIsClear'
    BY <1>2, <1>3 DEF SoundsInv, SoundTypes, VoicesSing, ProbeIsClear
  <2>2. \A d \in Channels : ChannelIsHonest(d)'
    BY <1>3 DEF SoundsInv, ChannelIsHonest
  <2>3. QED
    BY <2>1, <2>2 DEF SoundsInv
<1>4. CASE ~UNCHANGED <<channel, voice>>
  <2>1. PICK v \in Voices :
          /\ voice[v].at = "done"
          /\ voice' = [voice EXCEPT ![v] = [at |-> "playing", on |-> c]]
          /\ channel' = [channel EXCEPT ![c] =
                           [@ EXCEPT !.busy = TRUE, !.priority = loop.priority]]
    BY <1>1, <1>4 DEF Sound!Probed, Sound!AName, Sound!soundVars
  <2>2. PICK x \in ChannelRecords :
          channel' = [channel EXCEPT ![c] = x] /\ x.busy /\ x.robbed = channel[c].robbed
    <3>1. channel[c] \in ChannelRecords
      BY <1>1 DEF SoundsInv, SoundTypes
    <3> DEFINE y == [channel[c] EXCEPT !.busy = TRUE, !.priority = loop.priority]
    <3>2. y \in ChannelRecords /\ y.busy /\ y.robbed = channel[c].robbed
      BY <1>2, <3>1 DEF ChannelRecords
    <3>3. channel' = [channel EXCEPT ![c] = y]
      BY <1>1, <2>1 DEF SoundsInv, SoundTypes
    <3> HIDE DEF y
    <3>4. QED
      BY <3>2, <3>3
  <2>3. channel'[c] = x /\ \A d \in Channels \ {c} : channel'[d] = channel[d]
    BY <1>1, <2>2 DEF SoundsInv, SoundTypes
  <2>4. /\ voice'[v].at = "playing" /\ voice'[v].on = c
        /\ \A w \in Voices \ {v} : voice'[w] = voice[w]
        /\ voice[v].on = None
    BY <2>1 DEF SoundsInv, SoundTypes, VoicesSing
  <2>5. SoundTypes'
    <3>1. [channel EXCEPT ![c] = x] \in [Channels -> ChannelRecords]
      BY <1>1 DEF SoundsInv, SoundTypes
    <3>2. [at |-> "playing", on |-> c] \in VoiceRecords
      BY <1>1 DEF VoiceRecords
    <3>3. voice' \in [Voices -> VoiceRecords]
      BY <2>1, <3>2 DEF SoundsInv, SoundTypes
    <3>4. QED
      BY <1>2, <2>2, <3>1, <3>3 DEF SoundTypes
  <2>6. VoicesSing' /\ ProbeIsClear'
    BY <1>1, <1>2, <2>4 DEF SoundsInv, VoicesSing, ProbeIsClear
  <2>7. ChannelIsHonest(c)'
    <3>1. ~channel[c].robbed => \A w \in Voices : voice[w].on # c
      BY <1>1 DEF SoundsInv, ChannelIsHonest
    <3>2. ~channel'[c].robbed => \A w \in Voices : voice'[w].on = c => w = v
      BY <2>2, <2>3, <2>4, <3>1
    <3>3. QED
      BY <2>2, <2>3, <2>4, <3>2 DEF ChannelIsHonest
  <2>8. ASSUME NEW d \in Channels \ {c} PROVE ChannelIsHonest(d)'
    <3>1. \A w \in Voices : voice'[w].on = d <=> voice[w].on = d
      BY <2>4, ServicesConstants
    <3>2. \A w \in Voices : voice'[w].on = d => voice'[w] = voice[w]
      BY <2>4
    <3>3. QED
      BY <2>3, <3>1, <3>2 DEF SoundsInv, ChannelIsHonest
  <2>9. QED
    BY <2>5, <2>6, <2>7, <2>8 DEF SoundsInv
<1>5. QED
  BY <1>3, <1>4

\* A sound is over, or cut short where the mark was cleared.
LEMMA SoundEndsStep ==
  ASSUME SoundsInv, NEW v \in Voices, Sound!SoundEnds(v)
  PROVE  SoundsInv'
<1>1. PICK at \in {"over", "cut"} :
        /\ voice' = [voice EXCEPT ![v].at = at]
        /\ at = "cut" => ~channel[voice[v].on].busy
        /\ voice[v].at = "playing" /\ UNCHANGED <<channel, loop>>
  BY DEF Sound!SoundEnds
<1>2. voice \in [Voices -> VoiceRecords] /\ voice[v].on \in Channels
  BY <1>1 DEF SoundsInv, SoundTypes, VoicesSing
<1>3. /\ voice'[v].at = at /\ voice'[v].on = voice[v].on
      /\ \A w \in Voices \ {v} : voice'[w] = voice[w]
  BY <1>1, <1>2 DEF VoiceRecords
<1>4. SoundTypes'
  <2>1. [voice[v] EXCEPT !.at = at] \in VoiceRecords
    BY <1>2 DEF VoiceRecords
  <2>2. voice' = [voice EXCEPT ![v] = [voice[v] EXCEPT !.at = at]]
    BY <1>1, <1>2
  <2>3. voice' \in [Voices -> VoiceRecords]
    BY <1>2, <2>1, <2>2
  <2>4. QED
    BY <1>1, <2>3 DEF SoundsInv, SoundTypes
<1>5. VoicesSing' /\ ProbeIsClear'
  BY <1>1, <1>2, <1>3 DEF SoundsInv, VoicesSing, ProbeIsClear
<1>6. ASSUME NEW d \in Channels PROVE ChannelIsHonest(d)'
  <2>1. \A w \in Voices : voice'[w].on = voice[w].on
    BY <1>3
  <2>2. ~channel[d].robbed => \A w \in Voices : voice[w].on = d => voice'[w].at # "cut"
    BY <1>1, <1>3 DEF SoundsInv, ChannelIsHonest
  <2>3. QED
    BY <1>1, <2>1, <2>2 DEF SoundsInv, ChannelIsHonest
<1>7. QED
  BY <1>4, <1>5, <1>6 DEF SoundsInv

\* The thread ends, and the mark of its channel is cleared.
LEMMA ThreadEndsStep ==
  ASSUME SoundsInv, NEW v \in Voices, Sound!ThreadEnds(v)
  PROVE  SoundsInv'
<1>1. PICK c \in Channels :
        /\ c = voice[v].on /\ voice' = [voice EXCEPT ![v] = [at |-> "done", on |-> None]]
        /\ channel' = [channel EXCEPT ![c].busy = FALSE] /\ UNCHANGED loop
  BY DEF SoundsInv, VoicesSing, Sound!ThreadEnds
<1>2. channel \in [Channels -> ChannelRecords] /\ voice \in [Voices -> VoiceRecords]
  BY DEF SoundsInv, SoundTypes
<1>3. /\ ~channel'[c].busy /\ channel'[c].robbed = channel[c].robbed
      /\ \A d \in Channels \ {c} : channel'[d] = channel[d]
  BY <1>1, <1>2 DEF ChannelRecords
<1>4. /\ voice'[v].at = "done" /\ voice'[v].on = None
      /\ \A w \in Voices \ {v} : voice'[w] = voice[w]
  BY <1>1, <1>2
<1>5. SoundTypes'
  <2>1. /\ [channel[c] EXCEPT !.busy = FALSE] \in ChannelRecords
        /\ [at |-> "done", on |-> None] \in VoiceRecords
    BY <1>2 DEF ChannelRecords, VoiceRecords
  <2>2. channel' = [channel EXCEPT ![c] = [channel[c] EXCEPT !.busy = FALSE]]
    BY <1>1, <1>2
  <2>3. channel' \in [Channels -> ChannelRecords] /\ voice' \in [Voices -> VoiceRecords]
    BY <1>1, <1>2, <2>1, <2>2
  <2>4. QED
    BY <1>1, <2>3 DEF SoundsInv, SoundTypes
<1>6. VoicesSing' /\ ProbeIsClear'
  BY <1>1, <1>3, <1>4 DEF SoundsInv, VoicesSing, ProbeIsClear
<1>7. ChannelIsHonest(c)'
  <2>1. ~channel[c].robbed => \A w \in Voices : voice'[w].on # c
    BY <1>1, <1>4, ServicesConstants DEF SoundsInv, ChannelIsHonest
  <2>2. QED
    BY <1>3, <2>1 DEF ChannelIsHonest
<1>8. ASSUME NEW d \in Channels \ {c} PROVE ChannelIsHonest(d)'
  <2>1. \A w \in Voices : voice'[w].on = d <=> voice[w].on = d
    BY <1>1, <1>4, ServicesConstants
  <2>2. \A w \in Voices : voice'[w].on = d => voice'[w] = voice[w]
    BY <1>4, ServicesConstants
  <2>3. QED
    BY <1>3, <2>1, <2>2 DEF SoundsInv, ChannelIsHonest
<1>9. QED
  BY <1>5, <1>6, <1>7, <1>8 DEF SoundsInv

\* What the other steps of the audio service do to the call the loop is in.
LEMMA LoopMoves ==
  ASSUME loop \in LoopRecords,
         \/ Sound!StopMusic \/ Sound!StopIfPlaying \/ Sound!Load \/ Sound!Start \/ Sound!Go
         \/ \E x \in Patterns : Sound!PlayMusic(x)
  PROVE  loop' \in LoopRecords /\ (loop'.at = "probe" => loop.at = "probe" /\ loop' = loop)
<1>1. CASE Sound!StopMusic
  BY <1>1 DEF Sound!StopMusic
<1>2. CASE Sound!StopIfPlaying \/ Sound!Load \/ Sound!Start
  <2>1. PICK at \in {"load", "start", "go"} : loop' = [loop EXCEPT !.at = at]
    BY <1>2 DEF Sound!StopIfPlaying, Sound!Load, Sound!Start
  <2>2. QED
    BY <2>1 DEF LoopRecords
<1>3. CASE Sound!Go
  BY <1>3 DEF Sound!Go, Sound!Free, LoopRecords, Sound!Priorities
<1>4. CASE \E x \in Patterns : Sound!PlayMusic(x)
  <2>1. PICK x \in Patterns : loop' = [Sound!Free EXCEPT !.at = "asked", !.what = x]
    BY <1>4 DEF Sound!PlayMusic
  <2>2. loop' = [at |-> "asked", what |-> x, priority |-> 0]
    BY <2>1 DEF Sound!Free
  <2>3. QED
    BY <2>2 DEF LoopRecords, Sound!Priorities
<1>5. QED
  BY <1>1, <1>2, <1>3, <1>4

\* A step that touches neither channel nor thread.
LEMMA SoundsAside ==
  ASSUME SoundsInv, UNCHANGED <<channel, voice>>, loop' \in LoopRecords,
         loop'.at = "probe" => loop' = loop
  PROVE  SoundsInv'
<1>1. SoundTypes' /\ VoicesSing' /\ ProbeIsClear'
  BY DEF SoundsInv, SoundTypes, VoicesSing, ProbeIsClear
<1>2. \A c \in Channels : ChannelIsHonest(c)'
  BY DEF SoundsInv, ChannelIsHonest
<1>3. QED
  BY <1>1, <1>2 DEF SoundsInv

\* The steps that leave the call, the channels and the threads alone.
LEMMA LoopAlone ==
  ASSUME \/ \E q \in Requests : Sound!Transition(q) \/ Sound!TransitionGoesOn(q)
         \/ \E f \in Fades : Sound!FadeStep(f) \/ Sound!FadeEnds(f)
         \/ Sound!Process \/ Sound!SongEnds \/ Sound!DeviceFails \/ Sound!ProcessDies
         \/ Sound!FlagChanges \/ Sound!Mute
         \/ \E q \in Requests : Sound!ChangeTempo(q) \/ Sound!Scheduled(q)
  PROVE  UNCHANGED <<loop, channel, voice>>
<1>1. CASE \E q \in Requests : Sound!Transition(q) \/ Sound!TransitionGoesOn(q)
  BY <1>1 DEF Sound!Transition, Sound!TransitionGoesOn, Sound!soundVars
<1>2. CASE \E f \in Fades : Sound!FadeStep(f) \/ Sound!FadeEnds(f)
  BY <1>2 DEF Sound!FadeStep, Sound!FadeEnds, Sound!soundVars
<1>3. CASE Sound!Process \/ Sound!SongEnds \/ Sound!DeviceFails \/ Sound!ProcessDies
  BY <1>3 DEF Sound!Process, Sound!SeesGeneration, Sound!SeesStop, Sound!SeesPattern, Sound!Plays,
     Sound!SongEnds, Sound!BrokenOff, Sound!ProcStep, Sound!DeviceFails, Sound!ProcessDies, Sound!soundVars
<1>4. CASE Sound!FlagChanges \/ Sound!Mute
  BY <1>4 DEF Sound!FlagChanges, Sound!Mute, Sound!soundVars
<1>5. CASE \E q \in Requests : Sound!ChangeTempo(q) \/ Sound!Scheduled(q)
  BY <1>5 DEF Sound!ChangeTempo, Sound!Scheduled, Sound!soundVars
<1>6. QED
  BY <1>1, <1>2, <1>3, <1>4, <1>5

\* Every step of the audio service.
LEMMA SoundsStep ==
  ASSUME SoundsInv, Sound!Next
  PROVE  SoundsInv'
<1>1. loop \in LoopRecords
  BY DEF SoundsInv, SoundTypes
<1>2. CASE \E p \in Sound!Priorities : Sound!PlaySound(p)
  BY <1>2, PlaySoundStep
<1>3. CASE Sound!Probed
  BY <1>3, ProbedStep
<1>4. CASE \E v \in Voices : Sound!SoundEnds(v) \/ Sound!ThreadEnds(v)
  BY <1>4, SoundEndsStep, ThreadEndsStep
<1>5. CASE \/ Sound!StopMusic \/ Sound!StopIfPlaying \/ Sound!Load \/ Sound!Start \/ Sound!Go
           \/ \E x \in Patterns : Sound!PlayMusic(x)
  <2>1. UNCHANGED <<channel, voice>>
    BY <1>5 DEF Sound!StopMusic, Sound!StopIfPlaying, Sound!Load, Sound!Start, Sound!Go,
       Sound!PlayMusic, Sound!soundVars
  <2>2. QED
    BY <1>1, <1>5, <2>1, LoopMoves, SoundsAside
<1>6. CASE \/ \E q \in Requests : Sound!Transition(q) \/ Sound!TransitionGoesOn(q)
           \/ \E f \in Fades : Sound!FadeStep(f) \/ Sound!FadeEnds(f)
           \/ Sound!Process \/ Sound!SongEnds \/ Sound!DeviceFails \/ Sound!ProcessDies
           \/ Sound!FlagChanges \/ Sound!Mute
           \/ \E q \in Requests : Sound!ChangeTempo(q) \/ Sound!Scheduled(q)
  BY <1>1, <1>6, LoopAlone, SoundsAside
<1>7. QED
  BY <1>2, <1>3, <1>4, <1>5, <1>6 DEF Sound!Next, Sound!Asyncio, Sound!Underway

\* At the start no channel is busy.
LEMMA InitSounds == Init => SoundsInv
<1> SUFFICES ASSUME Init PROVE SoundsInv
  OBVIOUS
<1>1. /\ channel = [c \in Channels |-> [busy |-> FALSE, priority |-> 0, robbed |-> FALSE]]
      /\ voice = [v \in Voices |-> [at |-> "done", on |-> None]] /\ loop = Sound!Free
  BY DEF Init, Sound!Init
<1>2. SoundTypes
  BY <1>1 DEF SoundTypes, ChannelRecords, VoiceRecords, LoopRecords, Sound!Priorities, Sound!Free
<1>3. VoicesSing /\ ProbeIsClear
  BY <1>1 DEF VoicesSing, ProbeIsClear, Sound!Free
<1>4. \A c \in Channels : ChannelIsHonest(c)
  BY <1>1, ServicesConstants DEF ChannelIsHonest
<1>5. QED
  BY <1>2, <1>3, <1>4 DEF SoundsInv

\* A step of the services is one of the audio service, or leaves it alone.
LEMMA SoundsNext == SoundsInv /\ [Next]_servicesVars => SoundsInv'
<1> SUFFICES ASSUME SoundsInv, [Next]_servicesVars PROVE SoundsInv'
  OBVIOUS
<1>1. Sound!Next \/ UNCHANGED audioVars
  BY DEF Next, BackOnly, HidOnly, DiscOnly, LightsOnly, servicesVars
<1>2. CASE UNCHANGED audioVars
  BY <1>2, SoundsAside DEF audioVars, SoundsInv, SoundTypes
<1>3. QED
  BY <1>1, <1>2, SoundsStep

\* How many threads there are on a channel, in the words of Audio.
LEMMA AtMostOneSings ==
  ASSUME NEW S, \A v, w \in S : v = w
  PROVE  Sound!Cardinality(S) <= 1
<1>1. Sound!Cardinality(S) = Cardinality(S)
  BY DEF Sound!Cardinality, Cardinality, Sound!IsFiniteSet, IsFiniteSet
<1>2. CASE S = {}
  BY <1>1, <1>2, FS_EmptySet
<1>3. CASE S # {}
  <2>1. PICK v : S = {v}
    BY <1>3
  <2>2. QED
    BY <1>1, <2>1, FS_Singleton
<1>4. QED
  BY <1>2, <1>3

\* The marks of the sound channels say who plays: a busy channel has a thread
\* that will clear the mark, and a channel that no critical sound has taken over
\* has no other thread, and cuts no sound short (servicer.py, SoundChannel).
THEOREM ChannelsStayHonest == Spec => []ChannelsAreHonest
<1>1. SoundsInv => ChannelsAreHonest
  <2> SUFFICES ASSUME SoundsInv, NEW c \in Channels
               PROVE  /\ channel[c].busy => Sound!Singing(c) # {}
                      /\ ~channel[c].robbed =>
                           /\ Sound!Cardinality(Sound!Singing(c)) <= 1
                           /\ \A v \in Sound!Singing(c) : voice[v].at # "cut"
    BY DEF ChannelsAreHonest, Sound!ChannelsAreHonest
  <2>1. channel[c].busy => Sound!Singing(c) # {}
    BY DEF SoundsInv, ChannelIsHonest, Sound!Singing
  <2>2. ~channel[c].robbed => /\ \A v, w \in Sound!Singing(c) : v = w
                              /\ \A v \in Sound!Singing(c) : voice[v].at # "cut"
    BY DEF SoundsInv, ChannelIsHonest, Sound!Singing
  <2>3. QED
    BY <2>1, <2>2, AtMostOneSings
<1>2. Spec => []SoundsInv
  BY InitSounds, SoundsNext, PTL DEF Spec
<1>3. QED
  BY <1>1, <1>2, PTL

-----------------------------------------------------------------------------
(* The tempo: the inductive invariant. *)

PlayerRecords  == [stopped : BOOLEAN, pattern : Patterns \cup {None}, gen : Nat,
                   track : Nat \cup {None}, ratio : Nat \cup {None}]
FadeRecords    == [at : {"done", "running", "cancelling"}, track : Nat \cup {None}]
RequestRecords == [at : {"done", "checked", "scheduled", "waiting"}, track : Nat \cup {None},
                   for : Fades \cup {None}]

TempoTypes ==
  /\ player \in PlayerRecords /\ transition \in Fades \cup {None}
  /\ fade \in [Fades -> FadeRecords] /\ request \in [Requests -> RequestRecords]

\* PlayMusic is amid a call that gave it a pattern.
PatternIsAsked == loop.at \in {"asked", "load"} => loop.what \in Patterns

\* Without music there is no track, and play_music begins one without music.
TrackPlays ==
  /\ loop.at \in {"load", "start", "go"} => player.stopped
  /\ player.stopped /\ loop.at # "go" => player.track = None

\* A call that is underway is about the track that plays, or known to be late.
Fresh(x) == x.track \in {player.track, None}

RequestsAreFresh == \A q \in Requests : request[q].at # "done" => Fresh(request[q])

\* A transition underway is, besides, the one that a stop will cancel.
FadesAreFresh ==
  \A f \in Fades : fade[f].at = "running" =>
    fade[f].track = None \/ (fade[f].track = player.track /\ f = transition)

\* The tempo is set before the track begins.
RatioIsFresh ==
  /\ loop.at = "start" => player.ratio = player.gen + 1
  /\ loop.at = "go" \/ ~player.stopped => player.ratio \in {player.track, None}

TempoInv ==
  TempoTypes /\ PatternIsAsked /\ TrackPlays /\ RequestsAreFresh /\ FadesAreFresh /\ RatioIsFresh

\* Everything is known to be late that may outlive its track.
AllStale ==
  /\ \A q \in Requests : request[q].track = None
  /\ \A f \in Fades : fade[f].at = "running" => fade[f].track = None

\* The player is stopped: whatever goes on about its tempo is late.
LEMMA StopKeeps ==
  ASSUME TempoInv, Sound!Stop
  PROVE  /\ player' \in PlayerRecords /\ player'.stopped /\ player'.track = None
         /\ fade' \in [Fades -> FadeRecords] /\ request' \in [Requests -> RequestRecords]
         /\ AllStale'
<1>1. TempoTypes
  BY DEF TempoInv
<1>2. player' \in PlayerRecords /\ player'.stopped /\ player'.track = None
  <2>1. player' = [player EXCEPT !.stopped = TRUE, !.pattern = None, !.track = None]
    BY DEF Sound!Stop
  <2>2. QED
    BY <1>1, <2>1 DEF TempoTypes, PlayerRecords
<1>3. /\ request' \in [Requests -> RequestRecords]
      /\ \A q \in Requests : request'[q].track = None
  <2>1. request' = [q \in Requests |-> [request[q] EXCEPT !.track = None]]
    BY DEF Sound!Stop, Sound!Outlive
  <2>2. ASSUME NEW q \in Requests
        PROVE  request'[q] \in RequestRecords /\ request'[q].track = None
    <3>1. request[q] \in RequestRecords
      BY <1>1 DEF TempoTypes
    <3>2. request'[q] = [request[q] EXCEPT !.track = None]
      BY <2>1
    <3>3. QED
      BY <3>1, <3>2 DEF RequestRecords
  <2>3. QED
    BY <2>1, <2>2
<1>4. /\ fade' \in [Fades -> FadeRecords]
      /\ \A f \in Fades : fade'[f].at = "running" => fade'[f].track = None
  <2>1. CASE transition # None /\ fade[transition].at # "done"
    <3>1. transition \in Fades /\ fade' = [fade EXCEPT ![transition].at = "cancelling"]
      BY <1>1, <2>1 DEF TempoTypes, Sound!Stop
    <3>2. [fade[transition] EXCEPT !.at = "cancelling"] \in FadeRecords
      BY <1>1, <3>1 DEF TempoTypes, FadeRecords
    <3>3. fade' = [fade EXCEPT ![transition] = [fade[transition] EXCEPT !.at = "cancelling"]]
      BY <1>1, <3>1 DEF TempoTypes
    <3>4. /\ fade' \in [Fades -> FadeRecords] /\ fade'[transition].at = "cancelling"
          /\ \A f \in Fades \ {transition} : fade'[f] = fade[f]
      BY <1>1, <3>1, <3>2, <3>3 DEF TempoTypes, FadeRecords
    <3>5. QED
      BY <3>4 DEF TempoInv, FadesAreFresh
  <2>2. CASE ~(transition # None /\ fade[transition].at # "done")
    <3>1. fade' = fade
      BY <2>2 DEF Sound!Stop
    <3>2. \A f \in Fades : fade[f].at = "running" => f # transition
      BY <2>2, ServicesConstants
    <3>3. QED
      BY <1>1, <3>1, <3>2 DEF TempoTypes, TempoInv, FadesAreFresh
  <2>3. QED
    BY <2>1, <2>2
<1>5. QED
  BY <1>2, <1>3, <1>4 DEF AllStale

\* A stop at a moment when no track is about to start.
LEMMA StopHolds ==
  ASSUME TempoInv, Sound!Stop, UNCHANGED transition, PatternIsAsked',
         loop'.at \notin {"start", "go"}
  PROVE  TempoInv'
<1>1. TempoTypes'
  BY StopKeeps DEF TempoInv, TempoTypes
<1>2. TrackPlays' /\ RatioIsFresh'
  BY StopKeeps DEF TrackPlays, RatioIsFresh
<1>3. RequestsAreFresh' /\ FadesAreFresh'
  BY StopKeeps DEF RequestsAreFresh, FadesAreFresh, AllStale, Fresh
<1>4. QED
  BY <1>1, <1>2, <1>3 DEF TempoInv

\* The steps that leave the player and the tempo alone, and let no track start.
LEMMA TempoAlone ==
  ASSUME TempoInv, UNCHANGED <<player, transition, fade, request>>, PatternIsAsked',
         \/ loop' = loop
         \/ loop'.at = "idle" /\ loop.at = "probe"
         \/ loop'.at \in {"probe", "asked"} /\ loop.at = "idle"
         \/ loop'.at = "load" /\ loop.at = "asked" /\ player.stopped
  PROVE  TempoInv'
<1>1. TempoTypes'
  BY DEF TempoInv, TempoTypes
<1>2. TrackPlays' /\ RatioIsFresh'
  BY DEF TempoInv, TrackPlays, RatioIsFresh
<1>3. RequestsAreFresh' /\ FadesAreFresh'
  BY DEF TempoInv, RequestsAreFresh, FadesAreFresh, Fresh
<1>4. QED
  BY <1>1, <1>2, <1>3 DEF TempoInv

\* PlayMusic and StopMusic, step by step, and the flag that mutes.
LEMMA MusicStep ==
  ASSUME TempoInv, loop \in LoopRecords,
         \/ Sound!StopMusic \/ Sound!StopIfPlaying \/ Sound!Mute
         \/ \E x \in Patterns : Sound!PlayMusic(x)
  PROVE  TempoInv'
<1>1. CASE Sound!StopMusic
  <2>1. Sound!Stop /\ UNCHANGED <<transition, loop>> /\ loop.at = "idle"
    BY <1>1 DEF Sound!StopMusic, Sound!Idle
  <2>2. QED
    BY <2>1, StopHolds DEF PatternIsAsked
<1>2. CASE Sound!Mute
  <2>1. Sound!Stop /\ UNCHANGED <<transition, loop>> /\ loop.at \notin {"load", "start", "go"}
    BY <1>2 DEF Sound!Mute, Sound!Locked
  <2>2. QED
    BY <2>1, StopHolds DEF PatternIsAsked, TempoInv
<1>3. CASE Sound!StopIfPlaying
  <2>1. /\ loop.at = "asked" /\ loop'.at = "load" /\ loop'.what = loop.what
        /\ UNCHANGED transition
        /\ IF player.stopped THEN UNCHANGED <<player, fade, request>> ELSE Sound!Stop
    BY <1>3 DEF Sound!StopIfPlaying, LoopRecords
  <2>2. PatternIsAsked'
    BY <2>1 DEF PatternIsAsked, TempoInv
  <2>3. QED
    BY <2>1, <2>2, StopHolds, TempoAlone
<1>4. CASE \E x \in Patterns : Sound!PlayMusic(x)
  <2>1. PICK x \in Patterns : Sound!PlayMusic(x)
    BY <1>4
  <2>2. /\ loop.at = "idle" /\ loop'.at = "asked" /\ loop'.what = x
        /\ UNCHANGED <<player, transition, fade, request>>
    BY <2>1 DEF Sound!PlayMusic, Sound!Idle, Sound!Free, Sound!tempoVars
  <2>3. PatternIsAsked'
    BY <2>2 DEF PatternIsAsked
  <2>4. QED
    BY <2>2, <2>3, TempoAlone
<1>5. QED
  BY <1>1, <1>2, <1>3, <1>4

\* The track is loaded, started, and told to go.
LEMMA TrackStep ==
  ASSUME TempoInv, loop \in LoopRecords, Sound!Load \/ Sound!Start \/ Sound!Go
  PROVE  TempoInv'
<1>1. UNCHANGED <<transition, fade, request>> /\ player \in PlayerRecords
  BY DEF Sound!Load, Sound!Start, Sound!Go, Sound!tempoVars, TempoInv, TempoTypes
<1>2. CASE Sound!Load
  <2>1. /\ loop.at = "load" /\ loop' = [loop EXCEPT !.at = "start"] /\ loop.what \in Patterns
        /\ player' = [player EXCEPT !.pattern = loop.what,
                                    !.ratio = player.gen + 1]
    BY <1>2 DEF Sound!Load, TempoInv, PatternIsAsked
  <2>2. /\ player' \in PlayerRecords /\ UNCHANGED <<player.stopped, player.track, player.gen>>
        /\ player'.ratio = player.gen + 1 /\ loop'.at = "start"
    <3>1. PICK n \in Nat : n = player.gen + 1
      BY <1>1 DEF PlayerRecords
    <3>2. player' = [player EXCEPT !.pattern = loop.what, !.ratio = n]
      BY <2>1, <3>1
    <3>3. player' \in PlayerRecords
      BY <1>1, <2>1, <3>2 DEF PlayerRecords
    <3>4. UNCHANGED <<player.stopped, player.track, player.gen>> /\ player'.ratio = n
      BY <1>1, <3>2 DEF PlayerRecords
    <3>5. QED
      BY <2>1, <3>1, <3>3, <3>4 DEF LoopRecords
  <2>3. player.stopped /\ player.track = None
    BY <2>1 DEF TempoInv, TrackPlays
  <2>4. TempoTypes' /\ PatternIsAsked' /\ TrackPlays' /\ RatioIsFresh'
    BY <1>1, <2>2, <2>3 DEF TempoInv, TempoTypes, PatternIsAsked, TrackPlays, RatioIsFresh
  <2>5. RequestsAreFresh' /\ FadesAreFresh'
    BY <1>1, <2>2 DEF TempoInv, RequestsAreFresh, FadesAreFresh, Fresh
  <2>6. QED
    BY <2>4, <2>5 DEF TempoInv
<1>3. CASE Sound!Start
  <2>1. /\ loop.at = "start" /\ loop' = [loop EXCEPT !.at = "go"]
        /\ player' = [player EXCEPT !.gen = player.gen + 1, !.track = player.gen + 1]
    BY <1>1, <1>3 DEF Sound!Start, PlayerRecords
  <2>2. /\ player' \in PlayerRecords /\ UNCHANGED <<player.stopped, player.ratio>>
        /\ player'.track = player.gen + 1 /\ loop'.at = "go"
    <3>1. PICK n \in Nat : n = player.gen + 1
      BY <1>1 DEF PlayerRecords
    <3>2. player' = [player EXCEPT !.gen = n, !.track = n]
      BY <2>1, <3>1
    <3>3. player' \in PlayerRecords
      BY <1>1, <3>2 DEF PlayerRecords
    <3>4. UNCHANGED <<player.stopped, player.ratio>> /\ player'.track = n
      BY <1>1, <3>2 DEF PlayerRecords
    <3>5. QED
      BY <2>1, <3>1, <3>3, <3>4 DEF LoopRecords
  <2>3. player.stopped /\ player.track = None /\ player.ratio = player.gen + 1
    BY <2>1 DEF TempoInv, TrackPlays, RatioIsFresh
  <2>4. TempoTypes' /\ PatternIsAsked' /\ TrackPlays' /\ RatioIsFresh'
    BY <1>1, <2>2, <2>3 DEF TempoInv, TempoTypes, PatternIsAsked, TrackPlays, RatioIsFresh
  <2>5. RequestsAreFresh' /\ FadesAreFresh'
    BY <1>1, <2>3 DEF TempoInv, RequestsAreFresh, FadesAreFresh, Fresh
  <2>6. QED
    BY <2>4, <2>5 DEF TempoInv
<1>4. CASE Sound!Go
  <2>1. loop.at = "go" /\ loop' = Sound!Free /\ player' = [player EXCEPT !.stopped = FALSE]
    BY <1>4 DEF Sound!Go
  <2>2. /\ player' \in PlayerRecords /\ UNCHANGED <<player.track, player.ratio, player.gen>>
        /\ ~player'.stopped /\ loop'.at = "idle"
    BY <1>1, <2>1 DEF PlayerRecords, Sound!Free
  <2>3. TempoTypes' /\ PatternIsAsked' /\ TrackPlays' /\ RatioIsFresh'
    BY <1>1, <2>1, <2>2 DEF TempoInv, TempoTypes, PatternIsAsked, TrackPlays, RatioIsFresh
  <2>4. RequestsAreFresh' /\ FadesAreFresh'
    BY <1>1, <2>2 DEF TempoInv, RequestsAreFresh, FadesAreFresh, Fresh
  <2>5. QED
    BY <2>3, <2>4 DEF TempoInv
<1>5. QED
  BY <1>2, <1>3, <1>4

\* The steps of the transitions leave the call, the player and its track alone.
LEMMA FadesMove ==
  ASSUME TempoInv, UNCHANGED <<player, loop>>, transition' \in Fades \cup {None},
         fade' \in [Fades -> FadeRecords], request' \in [Requests -> RequestRecords],
         \A q \in Requests : request'[q].at # "done" => Fresh(request'[q]),
         \A f \in Fades : fade'[f].at = "running" =>
           fade'[f].track = None \/ (fade'[f].track = player.track /\ f = transition')
  PROVE  TempoInv'
<1>1. TempoTypes' /\ PatternIsAsked' /\ TrackPlays' /\ RatioIsFresh'
  BY DEF TempoInv, TempoTypes, PatternIsAsked, TrackPlays, RatioIsFresh
<1>2. RequestsAreFresh' /\ FadesAreFresh'
  BY DEF RequestsAreFresh, FadesAreFresh, Fresh
<1>3. QED
  BY <1>1, <1>2 DEF TempoInv

\* A ChangeTempo is about the track that plays, or about none.
LEMMA RequestStep ==
  ASSUME TempoInv, NEW q \in Requests, Sound!ChangeTempo(q) \/ Sound!Scheduled(q)
  PROVE  TempoInv'
<1>1. UNCHANGED <<player, loop, transition, fade>>
  BY DEF Sound!ChangeTempo, Sound!Scheduled
<1>2. PICK x \in RequestRecords :
        /\ request' = [request EXCEPT ![q] = x]
        /\ x.at # "done" => Fresh(x)
  <2>1. CASE Sound!ChangeTempo(q)
    <3> DEFINE y == [at |-> "checked", track |-> player.track, for |-> None]
    <3>1. y \in RequestRecords /\ Fresh(y)
      BY DEF TempoInv, TempoTypes, PlayerRecords, RequestRecords, Fresh
    <3>2. request' = [request EXCEPT ![q] = y]
      BY <2>1 DEF Sound!ChangeTempo
    <3> HIDE DEF y
    <3>3. QED
      BY <3>1, <3>2
  <2>2. CASE Sound!Scheduled(q)
    <3>1. request[q] \in RequestRecords /\ request[q].at = "checked" /\ Fresh(request[q])
      BY <2>2 DEF Sound!Scheduled, TempoInv, TempoTypes, RequestsAreFresh
    <3>2. request' = [request EXCEPT ![q].at = "scheduled"]
      BY <2>2 DEF Sound!Scheduled
    <3> DEFINE y == [request[q] EXCEPT !.at = "scheduled"]
    <3>3. request' = [request EXCEPT ![q] = y]
      BY <3>2 DEF TempoInv, TempoTypes
    <3>4. y \in RequestRecords /\ Fresh(y)
      BY <3>1 DEF RequestRecords, Fresh
    <3> HIDE DEF y
    <3>5. QED
      BY <3>3, <3>4
  <2>3. QED
    BY <2>1, <2>2
<1>3. /\ request' \in [Requests -> RequestRecords] /\ request'[q] = x
      /\ \A w \in Requests \ {q} : request'[w] = request[w]
  BY <1>2 DEF TempoInv, TempoTypes
<1>4. \A w \in Requests : request'[w].at # "done" => Fresh(request'[w])
  BY <1>2, <1>3 DEF TempoInv, RequestsAreFresh
<1>5. QED
  BY <1>1, <1>3, <1>4, FadesMove DEF TempoInv, TempoTypes, FadesAreFresh

\* The task of a ChangeTempo begins; another that was created meanwhile is late.
LEMMA BeginsKeeps ==
  ASSUME TempoInv, NEW q \in Requests, request[q].at # "done", Sound!Begins(q),
         UNCHANGED <<player, loop>>
  PROVE  TempoInv'
<1>1. PICK f \in Fades :
        /\ transition' = f /\ request' = [request EXCEPT ![q] = Sound!NoRequest]
        /\ fade' = [g \in Fades |->
             CASE g = f -> [at |-> "running", track |-> request[q].track]
               [] g = transition /\ g # f /\ fade[g].at = "running" ->
                    [fade[g] EXCEPT !.track = None]
               [] OTHER -> fade[g]]
  <2>1. request[q].for \in Fades \cup {None}
    BY DEF TempoInv, TempoTypes, RequestRecords
  <2>2. Sound!AName(Sound!UnusedFades) \subseteq Fades
    BY DEF Sound!AName, Sound!UnusedFades
  <2>3. QED
    BY <2>1, <2>2 DEF Sound!Begins
<1>2. /\ request' \in [Requests -> RequestRecords]
      /\ \A w \in Requests : request'[w].at # "done" => Fresh(request'[w])
  <2>1. Sound!NoRequest \in RequestRecords /\ Sound!NoRequest.at = "done"
    BY DEF Sound!NoRequest, RequestRecords
  <2>2. /\ request' \in [Requests -> RequestRecords] /\ request'[q] = Sound!NoRequest
        /\ \A w \in Requests \ {q} : request'[w] = request[w]
    BY <1>1, <2>1 DEF TempoInv, TempoTypes
  <2>3. QED
    BY <2>1, <2>2 DEF TempoInv, RequestsAreFresh
<1>3. ASSUME NEW g \in Fades
      PROVE  /\ fade'[g] \in FadeRecords
             /\ fade'[g].at = "running" =>
                  fade'[g].track = None \/ (fade'[g].track = player.track /\ g = f)
  <2>1. fade[g] \in FadeRecords /\ request[q] \in RequestRecords /\ Fresh(request[q])
    BY DEF TempoInv, TempoTypes, RequestsAreFresh
  <2>2. CASE g = f
    <3>1. fade'[g] = [at |-> "running", track |-> request[q].track]
      BY <1>1, <2>2
    <3>2. QED
      BY <2>1, <2>2, <3>1 DEF FadeRecords, RequestRecords, Fresh
  <2>3. CASE g # f /\ g = transition /\ fade[g].at = "running"
    <3>1. fade'[g] = [fade[g] EXCEPT !.track = None]
      BY <1>1, <2>3
    <3>2. QED
      BY <2>1, <3>1 DEF FadeRecords
  <2>4. CASE g # f /\ ~(g = transition /\ fade[g].at = "running")
    <3>1. fade'[g] = fade[g]
      BY <1>1, <2>4
    <3>2. QED
      BY <2>1, <2>4, <3>1 DEF TempoInv, FadesAreFresh
  <2>5. QED
    BY <2>2, <2>3, <2>4
<1>4. fade' \in [Fades -> FadeRecords]
  BY <1>1, <1>3
<1>5. QED
  BY <1>1, <1>2, <1>3, <1>4, FadesMove

\* transition_ratio: it begins, or the one underway is cancelled and waited for.
LEMMA TransitionStep ==
  ASSUME TempoInv, NEW q \in Requests, Sound!Transition(q) \/ Sound!TransitionGoesOn(q)
  PROVE  TempoInv'
<1>1. UNCHANGED <<player, loop>> /\ request[q].at # "done"
  BY DEF Sound!Transition, Sound!TransitionGoesOn
<1>2. CASE Sound!Begins(q)
  BY <1>1, <1>2, BeginsKeeps
<1>3. CASE ~Sound!Begins(q)
  <2>1. /\ transition # None
        /\ fade' = [fade EXCEPT ![transition].at = "cancelling"]
        /\ request' = [request EXCEPT ![q].at = "waiting", ![q].for = transition]
        /\ UNCHANGED transition
    BY <1>3 DEF Sound!Transition, Sound!TransitionGoesOn
  <2>2. /\ fade \in [Fades -> FadeRecords] /\ request \in [Requests -> RequestRecords]
        /\ transition \in Fades
    BY <2>1 DEF TempoInv, TempoTypes
  <2>3. /\ fade' \in [Fades -> FadeRecords] /\ fade'[transition].at = "cancelling"
        /\ \A f \in Fades \ {transition} : fade'[f] = fade[f]
    <3>1. [fade[transition] EXCEPT !.at = "cancelling"] \in FadeRecords
      BY <2>2 DEF FadeRecords
    <3>2. fade' = [fade EXCEPT ![transition] = [fade[transition] EXCEPT !.at = "cancelling"]]
      BY <2>1, <2>2
    <3>3. QED
      BY <2>2, <3>1, <3>2 DEF FadeRecords
  <2>4. /\ request' \in [Requests -> RequestRecords]
        /\ \A w \in Requests : request'[w].at # "done" => Fresh(request'[w])
    <3> DEFINE y == [request[q] EXCEPT !.at = "waiting", !.for = transition]
    <3>1. request' = [request EXCEPT ![q] = y]
      BY <2>1, <2>2
    <3>2. y \in RequestRecords /\ Fresh(y)
      BY <1>1, <2>2 DEF RequestRecords, Fresh, TempoInv, RequestsAreFresh
    <3> HIDE DEF y
    <3>3. request'[q] = y /\ \A w \in Requests \ {q} : request'[w] = request[w]
      BY <2>2, <3>1
    <3>4. QED
      BY <2>2, <3>1, <3>2, <3>3 DEF TempoInv, RequestsAreFresh
  <2>5. \A f \in Fades : fade'[f].at = "running" =>
          fade'[f].track = None \/ (fade'[f].track = player.track /\ f = transition')
    BY <2>1, <2>3 DEF TempoInv, FadesAreFresh
  <2>6. QED
    BY <1>1, <2>1, <2>2, <2>3, <2>4, <2>5, FadesMove
<1>4. QED
  BY <1>2, <1>3

\* A transition sets the tempo of its track, which is the one that plays.
LEMMA FadeStepKeeps ==
  ASSUME TempoInv, NEW f \in Fades, Sound!FadeStep(f) \/ Sound!FadeEnds(f)
  PROVE  TempoInv'
<1>1. CASE Sound!FadeStep(f)
  <2>1. /\ player' = [player EXCEPT !.ratio = fade[f].track]
        /\ loop.at = "idle" /\ fade[f].at = "running" /\ ~player.stopped
        /\ UNCHANGED <<loop, transition, fade, request>>
    BY <1>1 DEF Sound!FadeStep, Sound!Idle, Sound!tempoVars
  <2>2. player \in PlayerRecords /\ fade[f] \in FadeRecords
    BY DEF TempoInv, TempoTypes
  <2>3. /\ player' \in PlayerRecords
        /\ UNCHANGED <<player.stopped, player.track, player.gen>>
        /\ player'.ratio = fade[f].track
    BY <2>1, <2>2 DEF PlayerRecords, FadeRecords
  <2>4. fade[f].track \in {player.track, None}
    BY <2>1 DEF TempoInv, FadesAreFresh
  <2>5. TempoTypes' /\ PatternIsAsked' /\ TrackPlays'
    BY <2>1, <2>3 DEF TempoInv, TempoTypes, PatternIsAsked, TrackPlays
  <2>6. RatioIsFresh'
    BY <2>1, <2>3, <2>4 DEF RatioIsFresh
  <2>7. RequestsAreFresh' /\ FadesAreFresh'
    BY <2>1, <2>3 DEF TempoInv, RequestsAreFresh, FadesAreFresh, Fresh
  <2>8. QED
    BY <2>5, <2>6, <2>7 DEF TempoInv
<1>2. CASE Sound!FadeEnds(f)
  <2>1. fade' = [fade EXCEPT ![f] = Sound!NoFade]
        /\ UNCHANGED <<player, loop, transition, request>>
    BY <1>2 DEF Sound!FadeEnds
  <2>2. Sound!NoFade \in FadeRecords /\ Sound!NoFade.at = "done"
    BY DEF Sound!NoFade, FadeRecords
  <2>3. /\ fade' \in [Fades -> FadeRecords] /\ fade'[f].at = "done"
        /\ \A g \in Fades \ {f} : fade'[g] = fade[g]
    BY <2>1, <2>2 DEF TempoInv, TempoTypes
  <2>4. \A g \in Fades : fade'[g].at = "running" =>
          fade'[g].track = None \/ (fade'[g].track = player.track /\ g = transition')
    BY <2>1, <2>3 DEF TempoInv, FadesAreFresh
  <2>5. QED
    BY <2>1, <2>3, <2>4, FadesMove DEF TempoInv, TempoTypes, RequestsAreFresh
<1>3. QED
  BY <1>1, <1>2

\* Every step of the audio service.
LEMMA TempoStep ==
  ASSUME TempoInv, loop \in LoopRecords, Sound!Next
  PROVE  TempoInv'
<1>1. CASE \E p \in Sound!Priorities : Sound!PlaySound(p)
  <2>1. loop.at = "idle" /\ loop'.at = "probe" /\ UNCHANGED <<player, transition, fade, request>>
    BY <1>1 DEF Sound!PlaySound, Sound!Idle, Sound!tempoVars
  <2>2. QED
    BY <2>1, TempoAlone DEF PatternIsAsked
<1>2. CASE Sound!Probed
  <2>1. loop.at = "probe" /\ loop'.at = "idle" /\ UNCHANGED <<player, transition, fade, request>>
    BY <1>2 DEF Sound!Probed, Sound!Free, Sound!tempoVars
  <2>2. QED
    BY <2>1, TempoAlone DEF PatternIsAsked
<1>3. CASE \/ Sound!Process \/ Sound!SongEnds \/ Sound!DeviceFails \/ Sound!ProcessDies
           \/ Sound!FlagChanges
           \/ \E v \in Voices : Sound!SoundEnds(v) \/ Sound!ThreadEnds(v)
  <2>1. UNCHANGED <<loop, player, transition, fade, request>>
    BY <1>3 DEF Sound!Process, Sound!SeesGeneration, Sound!SeesStop, Sound!SeesPattern,
       Sound!Plays, Sound!SongEnds, Sound!BrokenOff, Sound!ProcStep, Sound!DeviceFails,
       Sound!ProcessDies, Sound!FlagChanges, Sound!SoundEnds, Sound!ThreadEnds, Sound!tempoVars
  <2>2. QED
    BY <2>1, TempoAlone DEF TempoInv, PatternIsAsked
<1>4. CASE \/ Sound!StopMusic \/ Sound!StopIfPlaying \/ Sound!Mute
           \/ \E x \in Patterns : Sound!PlayMusic(x)
  BY <1>4, MusicStep
<1>5. CASE Sound!Load \/ Sound!Start \/ Sound!Go
  BY <1>5, TrackStep
<1>6. CASE \E q \in Requests : \/ Sound!Transition(q) \/ Sound!TransitionGoesOn(q)
                               \/ Sound!ChangeTempo(q) \/ Sound!Scheduled(q)
  BY <1>6, TransitionStep, RequestStep
<1>7. CASE \E f \in Fades : Sound!FadeStep(f) \/ Sound!FadeEnds(f)
  BY <1>7, FadeStepKeeps
<1>8. QED
  BY <1>1, <1>2, <1>3, <1>4, <1>5, <1>6, <1>7 DEF Sound!Next, Sound!Asyncio, Sound!Underway

\* At the start there is no music.
LEMMA InitTempo == Init => TempoInv
<1> SUFFICES ASSUME Init PROVE TempoInv
  OBVIOUS
<1>1. /\ player = [stopped |-> TRUE, pattern |-> None, gen |-> 0, track |-> None,
                   ratio |-> None]
      /\ transition = None /\ fade = [f \in Fades |-> Sound!NoFade]
      /\ request = [q \in Requests |-> Sound!NoRequest] /\ loop = Sound!Free
  BY DEF Init, Sound!Init
<1>2. TempoTypes
  BY <1>1 DEF TempoTypes, PlayerRecords, FadeRecords, RequestRecords, Sound!NoFade, Sound!NoRequest
<1>3. PatternIsAsked /\ TrackPlays /\ RatioIsFresh
  BY <1>1 DEF PatternIsAsked, TrackPlays, RatioIsFresh, Sound!Free
<1>4. RequestsAreFresh /\ FadesAreFresh
  BY <1>1 DEF RequestsAreFresh, FadesAreFresh, Fresh, Sound!NoFade, Sound!NoRequest
<1>5. QED
  BY <1>2, <1>3, <1>4 DEF TempoInv

\* A step of the services is one of the audio service, or leaves it alone.
LEMMA TempoNext == TempoInv /\ SoundsInv /\ [Next]_servicesVars => TempoInv'
<1> SUFFICES ASSUME TempoInv, SoundsInv, [Next]_servicesVars PROVE TempoInv'
  OBVIOUS
<1>1. Sound!Next \/ UNCHANGED audioVars
  BY DEF Next, BackOnly, HidOnly, DiscOnly, LightsOnly, servicesVars
<1>2. CASE UNCHANGED audioVars
  BY <1>2, TempoAlone DEF audioVars, TempoInv, PatternIsAsked
<1>3. QED
  BY <1>1, <1>2, TempoStep DEF SoundsInv, SoundTypes

\* The tempo of the music is the one that was asked for the track that plays,
\* unless it was a late call that brought it: one underway when the music stopped
\* or asked for while it was, or a transition replaced unseen (music_player.py,
\* servicer.py).
THEOREM TempoAlwaysStays == Spec => []TempoStaysWithTheTrack
<1>1. TempoInv => TempoStaysWithTheTrack
  BY DEF TempoInv, RatioIsFresh, TempoStaysWithTheTrack, Sound!TempoStaysWithTheTrack
<1>2. Spec => []SoundsInv
  BY InitSounds, SoundsNext, PTL DEF Spec
<1>3. Spec => []TempoInv
  BY <1>2, InitTempo, TempoNext, PTL DEF Spec
<1>4. QED
  BY <1>1, <1>3, PTL

-----------------------------------------------------------------------------
(* The types of the audio: the process, and the tracks, which the calls bound. *)

ProcRecords ==
  [at : {"dead", "head", "stop?", "song?", "play", "playing"}, song : Nat \cup {None},
   loaded : Playable \cup {None}, gen : Nat \cup {None}, plays : Nat \cup {None}]

\* A PlayMusic that is to start a track has been counted, and the track has not.
Due == IF loop.at \in {"asked", "load", "start"} THEN 1 ELSE 0

TracksCount ==
  /\ calls \in Nat /\ player.gen + calls + Due <= MaxCalls
  /\ player.track \in 1..player.gen \cup {None}

AudioInv ==
  /\ enabled \in BOOLEAN /\ muting \in BOOLEAN /\ proc \in ProcRecords /\ TracksCount

\* What the calls leave of the count.
LEMMA CountHolds ==
  ASSUME TracksCount, player.gen \in Nat, calls' \in {calls, calls - 1}, calls' \in Nat,
         player'.gen = player.gen, player'.track \in {player.track, None},
         Due' = Due \/ Due' = 0 \/ calls' = calls - 1
  PROVE  TracksCount'
<1>1. Due \in {0, 1} /\ Due' \in {0, 1} /\ MaxCalls \in Nat
  BY ServicesConstants DEF Due
<1>2. player'.track \in 1..player'.gen \cup {None}
  BY DEF TracksCount
<1>3. player'.gen + calls' + Due' <= MaxCalls
  BY <1>1 DEF TracksCount
<1>4. QED
  BY <1>2, <1>3 DEF TracksCount

\* The calls: each is counted once, and stopping the music takes its track away.
LEMMA CallsCount ==
  ASSUME AudioInv, TempoTypes, loop \in LoopRecords,
         \/ \E p \in Sound!Priorities : Sound!PlaySound(p)
         \/ \E x \in Patterns : Sound!PlayMusic(x)
         \/ Sound!StopMusic \/ Sound!StopIfPlaying \/ Sound!Mute \/ Sound!FlagChanges
         \/ \E q \in Requests : Sound!ChangeTempo(q)
  PROVE  AudioInv'
<1>1. calls' \in {calls, calls - 1} /\ calls \in Nat /\ calls' \in Nat /\ proc' = proc
  <2>1. calls' = calls \/ (calls > 0 /\ calls' = calls - 1)
    BY DEF Sound!PlaySound, Sound!PlayMusic, Sound!StopMusic, Sound!StopIfPlaying, Sound!Mute,
       Sound!FlagChanges, Sound!ChangeTempo, Sound!Call
  <2>2. proc' = proc
    BY DEF Sound!PlaySound, Sound!PlayMusic, Sound!StopMusic, Sound!StopIfPlaying, Sound!Mute,
       Sound!FlagChanges, Sound!ChangeTempo
  <2>3. QED
    BY <2>1, <2>2 DEF AudioInv, TracksCount
<1>2. enabled' \in BOOLEAN /\ muting' \in BOOLEAN
  <2>1. CASE Sound!FlagChanges
    BY <2>1 DEF Sound!FlagChanges, AudioInv
  <2>2. CASE Sound!Mute
    BY <2>2 DEF Sound!Mute, AudioInv
  <2>3. CASE ~Sound!FlagChanges /\ ~Sound!Mute
    <3>1. UNCHANGED <<enabled, muting>>
      BY <2>3 DEF Sound!PlaySound, Sound!PlayMusic, Sound!StopMusic, Sound!StopIfPlaying,
         Sound!ChangeTempo
    <3>2. QED
      BY <3>1 DEF AudioInv
  <2>4. QED
    BY <2>1, <2>2, <2>3
<1>3. player \in PlayerRecords /\ player.gen \in Nat
  BY DEF TempoTypes, PlayerRecords
<1>4. player'.gen = player.gen /\ player'.track \in {player.track, None}
  BY <1>3 DEF PlayerRecords, Sound!PlaySound, Sound!PlayMusic, Sound!StopMusic, Sound!StopIfPlaying,
     Sound!Mute, Sound!FlagChanges, Sound!ChangeTempo, Sound!Stop
<1>5. Due' = Due \/ Due' = 0 \/ calls' = calls - 1
  <2>1. CASE Sound!StopIfPlaying
    BY <2>1 DEF Sound!StopIfPlaying, LoopRecords, Due
  <2>2. CASE Sound!Mute
    BY <2>2 DEF Sound!Mute, Due
  <2>3. CASE ~Sound!StopIfPlaying /\ ~Sound!Mute
    BY <2>3 DEF Sound!PlaySound, Sound!PlayMusic, Sound!StopMusic, Sound!FlagChanges,
       Sound!ChangeTempo, Sound!Call
  <2>4. QED
    BY <2>1, <2>2, <2>3
<1>6. TracksCount'
  BY <1>1, <1>3, <1>4, <1>5, CountHolds DEF AudioInv
<1>7. QED
  BY <1>1, <1>6, <1>2 DEF AudioInv

\* A track is started: the generation, and the track, are counted.
LEMMA StartCounts ==
  ASSUME AudioInv, TempoTypes, loop \in LoopRecords, Sound!Start
  PROVE  AudioInv'
<1>1. /\ loop.at = "start" /\ loop' = [loop EXCEPT !.at = "go"]
      /\ proc' = IF proc.at = "dead" THEN Sound!NewProcess ELSE proc
      /\ player' = [player EXCEPT !.gen = player.gen + 1, !.track = player.gen + 1]
      /\ UNCHANGED <<enabled, muting, calls>>
  BY DEF Sound!Start
<1>2. player \in PlayerRecords /\ player.gen \in Nat /\ calls \in Nat /\ MaxCalls \in Nat
  BY ServicesConstants DEF TempoTypes, PlayerRecords, AudioInv, TracksCount
<1>3. player'.gen = player.gen + 1 /\ player'.track = player.gen + 1
  BY <1>1, <1>2 DEF PlayerRecords
<1>4. Due = 1 /\ Due' = 0
  BY <1>1 DEF Due, LoopRecords
<1>5. TracksCount'
  <2>1. player'.track \in 1..player'.gen
    BY <1>2, <1>3
  <2>2. player'.gen + calls' + Due' <= MaxCalls
    BY <1>1, <1>2, <1>3, <1>4 DEF AudioInv, TracksCount
  <2>3. QED
    BY <1>1, <1>2, <2>1, <2>2 DEF TracksCount
<1>6. proc' \in ProcRecords
  BY <1>1 DEF AudioInv, ProcRecords, Sound!NewProcess
<1>7. QED
  BY <1>1, <1>5, <1>6 DEF AudioInv

\* Load, the end of PlayMusic, a sound that is looked at and the transitions leave
\* the count.
LEMMA OthersCount ==
  ASSUME AudioInv, TempoTypes, loop \in LoopRecords,
         \/ Sound!Probed \/ Sound!Load \/ Sound!Go
         \/ \E q \in Requests : \/ Sound!Scheduled(q) \/ Sound!Transition(q)
                                \/ Sound!TransitionGoesOn(q)
         \/ \E f \in Fades : Sound!FadeStep(f) \/ Sound!FadeEnds(f)
         \/ \E v \in Voices : Sound!SoundEnds(v) \/ Sound!ThreadEnds(v)
  PROVE  AudioInv'
<1>1. UNCHANGED <<enabled, muting, proc, calls>> /\ calls \in Nat
  <2>1. UNCHANGED <<enabled, muting, proc, calls>>
    BY DEF Sound!Probed, Sound!Load, Sound!Go, Sound!Scheduled, Sound!Transition,
       Sound!TransitionGoesOn, Sound!FadeStep, Sound!FadeEnds, Sound!SoundEnds, Sound!ThreadEnds
  <2>2. QED
    BY <2>1 DEF AudioInv, TracksCount
<1>2. player \in PlayerRecords /\ player.gen \in Nat
  BY DEF TempoTypes, PlayerRecords
<1>3. player'.gen = player.gen /\ player'.track = player.track
  <2>1. CASE Sound!Load \/ Sound!Go \/ \E f \in Fades : Sound!FadeStep(f)
    BY <1>2, <2>1 DEF PlayerRecords, Sound!Load, Sound!Go, Sound!FadeStep
  <2>2. CASE ~(Sound!Load \/ Sound!Go \/ \E f \in Fades : Sound!FadeStep(f))
    BY <2>2 DEF Sound!Probed, Sound!Scheduled, Sound!Transition, Sound!TransitionGoesOn,
       Sound!FadeEnds, Sound!SoundEnds, Sound!ThreadEnds
  <2>3. QED
    BY <2>1, <2>2
<1>4. Due' = Due \/ Due' = 0
  <2>1. CASE Sound!Load
    BY <2>1 DEF Sound!Load, LoopRecords, Due
  <2>2. CASE Sound!Probed \/ Sound!Go
    BY <2>2 DEF Sound!Probed, Sound!Go, Sound!Free, Due
  <2>3. CASE ~(Sound!Load \/ Sound!Probed \/ Sound!Go)
    <3>1. UNCHANGED loop
      BY <2>3 DEF Sound!Scheduled, Sound!Transition, Sound!TransitionGoesOn, Sound!FadeStep,
         Sound!FadeEnds, Sound!SoundEnds, Sound!ThreadEnds
    <3>2. QED
      BY <3>1 DEF Due
  <2>4. QED
    BY <2>1, <2>2, <2>3
<1>5. TracksCount'
  BY <1>1, <1>2, <1>3, <1>4, CountHolds DEF AudioInv
<1>6. QED
  BY <1>1, <1>5 DEF AudioInv

\* The process, whatever it sees of the player, keeps to its records.
LEMMA ProcessStays ==
  ASSUME AudioInv, TempoTypes,
         Sound!Process \/ Sound!SongEnds \/ Sound!DeviceFails \/ Sound!ProcessDies
  PROVE  AudioInv'
<1>1. UNCHANGED <<enabled, muting, loop, player, calls>>
  BY DEF Sound!Process, Sound!SeesGeneration, Sound!SeesStop, Sound!SeesPattern, Sound!Plays,
     Sound!SongEnds, Sound!BrokenOff, Sound!ProcStep, Sound!DeviceFails, Sound!ProcessDies
<1>2. player.gen \in Nat /\ proc \in ProcRecords
  BY DEF TempoTypes, PlayerRecords, AudioInv
<1>3. Sound!Restarted \in ProcRecords /\ Sound!NewProcess \in ProcRecords
  BY <1>2 DEF Sound!Restarted, Sound!NewProcess, ProcRecords
<1>4. proc' \in ProcRecords
  <2>1. CASE Sound!SeesGeneration
    <3>1. PICK x \in ProcRecords : proc' = [x EXCEPT !.gen = player.gen, !.at = "stop?"]
      BY <1>2, <1>3, <2>1 DEF Sound!SeesGeneration
    <3>2. QED
      BY <1>2, <3>1 DEF ProcRecords
  <2>2. CASE Sound!SeesStop
    <3>1. \/ proc' = [Sound!Restarted EXCEPT !.at = "head"]
          \/ proc' = [proc EXCEPT !.at = "song?"]
      BY <2>2 DEF Sound!SeesStop
    <3>2. QED
      BY <1>2, <1>3, <3>1 DEF ProcRecords
  <2>3. CASE Sound!SeesPattern
    <3>1. \/ proc' = [Sound!Restarted EXCEPT !.at = "head"]
          \/ proc' = [proc EXCEPT !.at = "play"]
          \/ /\ player.pattern \in Playable
             /\ proc' = [proc EXCEPT !.at = "head", !.loaded = player.pattern, !.song = proc.gen]
          \/ proc' = [proc EXCEPT !.at = "head"]
      BY <2>3 DEF Sound!SeesPattern
    <3>2. QED
      BY <1>2, <1>3, <3>1 DEF ProcRecords
  <2>4. CASE Sound!Plays
    BY <1>2, <2>4 DEF Sound!Plays, ProcRecords
  <2>5. CASE Sound!SongEnds \/ Sound!BrokenOff
    BY <1>2, <2>5 DEF Sound!SongEnds, Sound!BrokenOff, Sound!ToHead, ProcRecords
  <2>6. CASE Sound!DeviceFails \/ Sound!ProcessDies
    BY <1>3, <2>6 DEF Sound!DeviceFails, Sound!ProcessDies, ProcRecords
  <2>7. QED
    BY <2>1, <2>2, <2>3, <2>4, <2>5, <2>6 DEF Sound!Process
<1>5. QED
  BY <1>1, <1>4 DEF AudioInv, TracksCount, Due

\* The audio keeps its types: the tracks are as many as the calls allow, and none
\* has a number that was not given out (servicer.py, music_player.py).
THEOREM AudioIsTyped == Spec => []Sound!TypeOK
<1>1. Init => AudioInv
  <2>1. SUFFICES ASSUME Sound!Init PROVE AudioInv
    BY DEF Init
  <2>2. enabled \in BOOLEAN /\ muting \in BOOLEAN /\ proc \in ProcRecords
    BY <2>1 DEF Sound!Init, Sound!NewProcess, ProcRecords
  <2>3. player.gen = 0 /\ player.track = None /\ calls = MaxCalls /\ Due = 0
    BY <2>1 DEF Sound!Init, Sound!Free, Due
  <2>4. QED
    BY <2>2, <2>3, ServicesConstants DEF AudioInv, TracksCount
<1>2. AudioInv /\ SoundsInv /\ TempoInv /\ [Next]_servicesVars => AudioInv'
  <2>1. SUFFICES ASSUME AudioInv, SoundsInv, TempoInv, [Next]_servicesVars PROVE AudioInv'
    OBVIOUS
  <2>2. TempoTypes /\ loop \in LoopRecords
    BY <2>1 DEF TempoInv, SoundsInv, SoundTypes
  <2>3. CASE Sound!Next
    BY <2>1, <2>2, <2>3, CallsCount, StartCounts, OthersCount, ProcessStays
       DEF Sound!Next, Sound!Asyncio, Sound!Underway
  <2>4. CASE UNCHANGED audioVars
    BY <2>1, <2>4 DEF audioVars, AudioInv, TracksCount, Due
  <2>5. Sound!Next \/ UNCHANGED audioVars
    BY <2>1 DEF Next, servicesVars, LightsOnly, BackOnly, HidOnly, DiscOnly
  <2>6. QED
    BY <2>3, <2>4, <2>5
<1>3. AudioInv /\ SoundsInv /\ TempoInv => Sound!TypeOK
  <2>1. SUFFICES ASSUME AudioInv, SoundsInv, TempoInv PROVE Sound!TypeOK
    OBVIOUS
  <2>2. /\ channel \in [Channels -> ChannelRecords] /\ voice \in [Voices -> VoiceRecords]
        /\ loop \in LoopRecords /\ player \in PlayerRecords /\ transition \in Fades \cup {None}
        /\ fade \in [Fades -> FadeRecords] /\ request \in [Requests -> RequestRecords]
    BY <2>1 DEF SoundsInv, SoundTypes, TempoInv, TempoTypes
  <2>3. player.gen \in 0..MaxCalls /\ player.track \in 1..MaxCalls \cup {None}
    <3>1. player.gen \in Nat /\ calls \in Nat /\ Due \in {0, 1} /\ MaxCalls \in Nat
      BY <2>1, <2>2, ServicesConstants DEF PlayerRecords, Due, AudioInv, TracksCount
    <3>2. player.gen <= MaxCalls
      BY <2>1, <3>1 DEF AudioInv, TracksCount
    <3>3. QED
      BY <2>1, <3>1, <3>2 DEF AudioInv, TracksCount
  <2>4. player.pattern \in Patterns \cup {None} /\ player.stopped \in BOOLEAN
    BY <2>2 DEF PlayerRecords
  <2>5. /\ \A f \in Fades : fade[f].at \in {"done", "running", "cancelling"}
        /\ \A q \in Requests : request[q].at \in {"done", "checked", "scheduled", "waiting"}
    BY <2>2 DEF FadeRecords, RequestRecords
  <2>6. /\ loop.at \in {"idle", "probe", "asked", "load", "start", "go"}
        /\ proc.at \in {"dead", "head", "stop?", "song?", "play", "playing"}
        /\ proc.loaded \in Playable \cup {None}
    BY <2>1, <2>2 DEF LoopRecords, AudioInv, ProcRecords
  <2>7. QED
    BY <2>1, <2>2, <2>3, <2>4, <2>5, <2>6
       DEF Sound!TypeOK, AudioInv, ChannelRecords, VoiceRecords
<1>4. Spec => []SoundsInv
  BY InitSounds, SoundsNext, PTL DEF Spec
<1>5. Spec => []TempoInv
  BY <1>4, InitTempo, TempoNext, PTL DEF Spec
<1>6. QED
  BY <1>1, <1>2, <1>3, <1>4, <1>5, PTL DEF Spec

-----------------------------------------------------------------------------
(* The types of the back end: what the thread, the call and the pipes hold. *)

Shades  == Colours \cup {None}
Outputs == [serial : Serials, colour : Shades, motor : {0, 1}]

OutputTypes ==
  /\ present \subseteq Serials /\ effects \subseteq Serials
  /\ preferred \in [Serials -> Preferences] /\ opened \in [Adapters -> SUBSET Serials]
  /\ lit \in [Serials -> Shades] /\ sent \in [Serials -> Shades] /\ motor \in [Serials -> {0, 1}]

PipeTypes ==
  /\ up \subseteq Adapters /\ pipe \in [Adapters -> Seq(Outputs)]
  /\ \A a \in Adapters : Len(pipe[a]) <= MaxPipe
  /\ lamp \in [Serials -> [colour : Shades, motor : {0, 1}]]

\* The thread writes to an adapter: it looked for one, and only the scan, which is
\* the same thread, takes the route away.
ThreadTypes ==
  /\ route \in [Serials -> Adapters \cup {None}]
  /\ thread \in [at : {"idle", "refresh", "write", "mark", "scan", "clean"}, rest : SUBSET Serials,
                 colour : [Serials -> Shades] \cup {None}, motor : {0, 1},
                 found : Serials \cup [Adapters -> SUBSET Serials] \cup {None}]
  /\ thread.at \in {"refresh", "write", "mark"} => thread.colour \in [Serials -> Shades]
  /\ thread.at \in {"write", "mark"} => thread.found \in Serials
  /\ thread.at = "write" => route[thread.found] \in Adapters
  /\ thread.at = "scan" => thread.found \in [Adapters -> SUBSET Serials]

SetterTypes ==
  /\ setter \in [at : {"idle", "light", "lit", "motor"}, serial : Serials \cup {None},
                 colour : Shades, adapter : Adapters \cup {None}]
  /\ setter.at # "idle" => setter.serial \in Serials /\ setter.adapter \in Adapters

BackInv == OutputTypes /\ PipeTypes /\ ThreadTypes /\ SetterTypes

\* An output that is queued, or refused, leaves the queues within their bound.
LEMMA OutputKeeps ==
  ASSUME OutputTypes, PipeTypes, NEW a \in Adapters, NEW s \in Serials, NEW c \in Shades,
         NEW r \in {0, 1}, Back!Output(a, s, c, r)
  PROVE  pipe' \in [Adapters -> Seq(Outputs)] /\ \A b \in Adapters : Len(pipe'[b]) <= MaxPipe
<1>1. PICK x \in Outputs : x = [serial |-> s, colour |-> c, motor |-> r]
  BY DEF Outputs
<1>2. pipe[a] \in Seq(Outputs) /\ Len(pipe[a]) \in Nat /\ MaxPipe \in Nat
  BY ServicesConstants, LenProperties DEF PipeTypes
<1>3. Append(pipe[a], x) \in Seq(Outputs) /\ Len(Append(pipe[a], x)) = Len(pipe[a]) + 1
  BY <1>2, AppendProperties
<1>4. pipe' = IF Back!Accepts(a) THEN [pipe EXCEPT ![a] = Append(pipe[a], x)] ELSE pipe
  BY <1>1 DEF Back!Output
<1>5. CASE Back!Accepts(a)
  <2>1. Len(pipe[a]) < MaxPipe /\ pipe' = [pipe EXCEPT ![a] = Append(pipe[a], x)]
    BY <1>4, <1>5 DEF Back!Accepts
  <2>2. QED
    BY <1>2, <1>3, <2>1 DEF PipeTypes
<1>6. CASE ~Back!Accepts(a)
  BY <1>4, <1>6 DEF PipeTypes
<1>7. QED
  BY <1>5, <1>6

\* What has been queued goes out at the other end.
LEMMA TailKeeps ==
  ASSUME PipeTypes, NEW a \in Adapters, pipe[a] # <<>>, pipe' = [pipe EXCEPT ![a] = Tail(pipe[a])]
  PROVE  /\ pipe' \in [Adapters -> Seq(Outputs)]
         /\ \A b \in Adapters : Len(pipe'[b]) <= MaxPipe
         /\ Head(pipe[a]) \in Outputs
<1>1. pipe[a] \in Seq(Outputs) /\ Len(pipe[a]) \in Nat /\ MaxPipe \in Nat /\ Len(pipe[a]) <= MaxPipe
  BY ServicesConstants, LenProperties DEF PipeTypes
<1>2. /\ Head(pipe[a]) \in Outputs /\ Tail(pipe[a]) \in Seq(Outputs)
      /\ Len(Tail(pipe[a])) = Len(pipe[a]) - 1
  BY <1>1, HeadTailProperties
<1>3. QED
  BY <1>1, <1>2 DEF PipeTypes

\* The calls of the asyncio loop.
LEMMA SettersStep ==
  ASSUME BackInv,
         \/ \E s \in Serials : Back!SetEffect(s)
         \/ \E s \in Serials, c \in Colours : Back!SetLight(s, c)
         \/ \E s \in Serials, x \in {0, 1} : Back!SetMotor(s, x)
         \/ Back!Stored \/ Back!Written
  PROVE  BackInv'
<1> USE DEF Back!routeVars, Back!stateVars, Back!wireVars
<1>1. ASSUME NEW s \in Serials, Back!SetEffect(s) PROVE BackInv'
  <2>1. effects' \subseteq Serials /\ UNCHANGED <<present, preferred, route, opened, lit, motor, sent,
                                                  up, pipe, lamp, thread, setter>>
    BY <1>1 DEF Back!SetEffect, BackInv, OutputTypes
  <2>2. QED
    BY <2>1 DEF BackInv, OutputTypes, PipeTypes, ThreadTypes, SetterTypes
<1>2. ASSUME NEW s \in Serials, NEW c \in Colours, Back!SetLight(s, c) PROVE BackInv'
  <2>1. setter' = [at |-> "light", serial |-> s, colour |-> c, adapter |-> route[s]]
        /\ route[s] # None /\ UNCHANGED <<present, preferred, route, opened, lit, motor, sent, effects,
                                          up, pipe, lamp, thread>>
    BY <1>2 DEF Back!SetLight
  <2>2. SetterTypes'
    BY <2>1 DEF BackInv, ThreadTypes, SetterTypes, Shades
  <2>3. QED
    BY <2>1, <2>2 DEF BackInv, OutputTypes, PipeTypes, ThreadTypes
<1>3. ASSUME NEW s \in Serials, NEW x \in {0, 1}, Back!SetMotor(s, x) PROVE BackInv'
  <2>1. setter' = [at |-> "motor", serial |-> s, colour |-> None, adapter |-> route[s]]
        /\ motor' = [motor EXCEPT ![s] = x]
        /\ route[s] # None /\ UNCHANGED <<present, preferred, route, opened, lit, sent, effects,
                                          up, pipe, lamp, thread>>
    BY <1>3 DEF Back!SetMotor
  <2>2. SetterTypes' /\ motor' \in [Serials -> {0, 1}]
    BY <2>1 DEF BackInv, ThreadTypes, SetterTypes, OutputTypes, Shades
  <2>3. QED
    BY <2>1, <2>2 DEF BackInv, OutputTypes, PipeTypes, ThreadTypes
<1>4. CASE Back!Stored
  <2>1. /\ setter.at = "light" /\ setter' = [setter EXCEPT !.at = "lit"]
        /\ lit' = [lit EXCEPT ![setter.serial] = setter.colour]
        /\ UNCHANGED <<present, preferred, route, opened, motor, sent, effects, up, pipe, lamp, thread>>
    BY <1>4 DEF Back!Stored
  <2>2. SetterTypes'
    BY <2>1 DEF BackInv, SetterTypes
  <2>3. lit' \in [Serials -> Shades]
    BY <2>1 DEF BackInv, SetterTypes, OutputTypes
  <2>4. QED
    BY <2>1, <2>2, <2>3 DEF BackInv, OutputTypes, PipeTypes, ThreadTypes
<1>5. CASE Back!Written
  <2>1. /\ setter.serial \in Serials /\ setter.adapter \in Adapters /\ setter.colour \in Shades
        /\ setter' = Back!Calm
        /\ UNCHANGED <<present, preferred, route, opened, lit, motor, effects, up, lamp, thread>>
    BY <1>5 DEF Back!Written, BackInv, SetterTypes
  <2>2. PICK c \in Shades : c = IF setter.at = "lit" THEN setter.colour ELSE lit[setter.serial]
    BY <2>1 DEF BackInv, OutputTypes
  <2>3. UNCHANGED pipe \/ Back!Output(setter.adapter, setter.serial, c, motor[setter.serial])
    BY <1>5, <2>2 DEF Back!Written
  <2>4. pipe' \in [Adapters -> Seq(Outputs)] /\ \A b \in Adapters : Len(pipe'[b]) <= MaxPipe
    <3>1. motor[setter.serial] \in {0, 1}
      BY <2>1 DEF BackInv, OutputTypes
    <3>2. QED
      BY <2>1, <2>2, <2>3, <3>1, OutputKeeps DEF BackInv, PipeTypes
  <2>5. sent' = sent \/ sent' = [sent EXCEPT ![setter.serial] = setter.colour]
    BY <1>5 DEF Back!Written
  <2>6. sent' \in [Serials -> Shades]
    BY <2>1, <2>5 DEF BackInv, OutputTypes
  <2>7. SetterTypes'
    BY <2>1 DEF Back!Calm, SetterTypes, Shades
  <2>8. QED
    BY <2>1, <2>4, <2>6, <2>7 DEF BackInv, OutputTypes, PipeTypes, ThreadTypes
<1>6. QED
  BY <1>1, <1>2, <1>3, <1>4, <1>5

\* The thread at rest.
LEMMA RestIs ==
  /\ Back!Rest \in [at : {"idle", "refresh", "write", "mark", "scan", "clean"}, rest : SUBSET Serials,
                    colour : [Serials -> Shades] \cup {None}, motor : {0, 1},
                    found : Serials \cup [Adapters -> SUBSET Serials] \cup {None}]
  /\ Back!Rest.at = "idle"
BY DEF Back!Rest

\* The refresh: each controller is passed over, or written to and marked.
LEMMA RefreshStep ==
  ASSUME BackInv,
         \/ Back!RefreshBegins \/ Back!RefreshWrites \/ Back!RefreshMarks
         \/ \E s \in Serials, l \in BOOLEAN : Back!RefreshNext(s, l)
  PROVE  BackInv'
<1> USE DEF Back!routeVars, Back!stateVars, Back!wireVars
<1>1. CASE Back!RefreshBegins
  <2>1. PICK S \in SUBSET Serials :
          thread' = [at |-> "refresh", rest |-> S, colour |-> lit, motor |-> 0, found |-> None]
    BY <1>1 DEF Back!RefreshBegins, Back!Rest
  <2>2. UNCHANGED <<present, preferred, route, opened, lit, motor, sent, effects, up, pipe, lamp, setter>>
    BY <1>1 DEF Back!RefreshBegins
  <2>3. ThreadTypes'
    BY <2>1, <2>2 DEF BackInv, ThreadTypes, OutputTypes
  <2>4. QED
    BY <2>2, <2>3 DEF BackInv, OutputTypes, PipeTypes, SetterTypes
<1>2. ASSUME NEW s \in Serials, thread.at \in {"refresh", "mark"}, thread' = Back!Past(s),
             UNCHANGED route
      PROVE  ThreadTypes'
  <2>1. thread' = Back!Rest \/ thread' = [thread EXCEPT !.at = "refresh", !.rest = thread.rest \ {s},
                                                        !.found = None]
    <3>1. CASE thread.rest = {s}
      BY <1>2, <3>1 DEF Back!Past
    <3>2. CASE thread.rest # {s}
      BY <1>2, <3>2 DEF Back!Past
    <3>3. QED
      BY <3>1, <3>2
  <2>2. CASE thread' = Back!Rest
    BY <1>2, <2>2, RestIs DEF BackInv, ThreadTypes
  <2>3. CASE thread' = [thread EXCEPT !.at = "refresh", !.rest = thread.rest \ {s}, !.found = None]
    BY <1>2, <2>3 DEF BackInv, ThreadTypes
  <2>4. QED
    BY <2>1, <2>2, <2>3
<1>3. ASSUME NEW s \in Serials, NEW l \in BOOLEAN, Back!RefreshNext(s, l) PROVE BackInv'
  <2>1. UNCHANGED <<present, preferred, route, opened, lit, motor, sent, effects, up, pipe, lamp, setter>>
        /\ thread.at = "refresh"
    BY <1>3 DEF Back!RefreshNext
  <2>2. ThreadTypes'
    <3>1. CASE thread' = Back!Past(s)
      BY <1>2, <2>1, <3>1
    <3>2. CASE thread' = [thread EXCEPT !.at = "write", !.found = s, !.motor = motor[s]]
               /\ route[s] # None
      <4>1. motor[s] \in {0, 1}
        BY DEF BackInv, OutputTypes
      <4>2. QED
        BY <2>1, <3>2, <4>1 DEF BackInv, ThreadTypes
    <3>3. QED
      BY <1>3, <3>1, <3>2 DEF Back!RefreshNext
  <2>3. QED
    BY <2>1, <2>2 DEF BackInv, OutputTypes, PipeTypes, SetterTypes
<1>4. CASE Back!RefreshWrites
  <2>1. /\ thread.at = "write" /\ thread' = [thread EXCEPT !.at = "mark", !.motor = 0]
        /\ UNCHANGED <<present, preferred, route, opened, lit, motor, sent, effects, up, lamp, setter>>
        /\ Back!Output(route[thread.found], thread.found, thread.colour[thread.found], thread.motor)
    BY <1>4 DEF Back!RefreshWrites
  <2>2. thread.found \in Serials /\ route[thread.found] \in Adapters
        /\ thread.colour[thread.found] \in Shades /\ thread.motor \in {0, 1}
    BY <2>1 DEF BackInv, ThreadTypes
  <2>3. pipe' \in [Adapters -> Seq(Outputs)] /\ \A b \in Adapters : Len(pipe'[b]) <= MaxPipe
    BY <2>1, <2>2, OutputKeeps DEF BackInv
  <2>4. ThreadTypes'
    BY <2>1 DEF BackInv, ThreadTypes
  <2>5. QED
    BY <2>1, <2>3, <2>4 DEF BackInv, OutputTypes, PipeTypes, SetterTypes
<1>5. CASE Back!RefreshMarks
  <2>1. PICK s : s = thread.found
    OBVIOUS
  <2>2. /\ thread.at = "mark" /\ thread' = Back!Past(s)
        /\ sent' = [sent EXCEPT ![s] = thread.colour[s]]
        /\ UNCHANGED <<present, preferred, route, opened, lit, motor, effects, up, pipe, lamp, setter>>
    BY <1>5, <2>1 DEF Back!RefreshMarks
  <2>3. s \in Serials /\ thread.colour[s] \in Shades
    BY <2>1, <2>2 DEF BackInv, ThreadTypes
  <2>4. ThreadTypes' /\ sent' \in [Serials -> Shades]
    <3>1. ThreadTypes'
      BY <1>2, <2>2, <2>3
    <3>2. sent' \in [Serials -> Shades]
      BY <2>2, <2>3 DEF BackInv, OutputTypes
    <3>3. QED
      BY <3>1, <3>2
  <2>5. QED
    BY <2>2, <2>4 DEF BackInv, OutputTypes, PipeTypes, SetterTypes
<1>6. QED
  BY <1>1, <1>3, <1>4, <1>5

\* The scan finds, routes and cleans up.
LEMMA ScansStep ==
  ASSUME BackInv, (\E full \in BOOLEAN : Back!ScanDiscovers(full)) \/ Back!ScanRoutes \/ Back!ScanCleans
  PROVE  BackInv'
<1> USE DEF Back!routeVars, Back!stateVars, Back!wireVars
<1>1. ASSUME NEW full \in BOOLEAN, Back!ScanDiscovers(full) PROVE BackInv'
  <2>1. PICK answer \in SUBSET Adapters, found \in [Adapters -> SUBSET Serials] :
          /\ opened' = [a \in Adapters |-> opened[a] \cup found[a]]
          /\ thread' = [at |-> "scan", rest |-> {}, colour |-> None, motor |-> 0, found |-> found]
    <3>1. PICK answer \in SUBSET Adapters :
            LET found == [a \in Adapters |-> IF a \in answer THEN Back!Finds(a, full) ELSE {}] IN
            /\ opened' = [a \in Adapters |-> opened[a] \cup found[a]]
            /\ thread' = [at |-> "scan", rest |-> {}, colour |-> None, motor |-> 0, found |-> found]
      BY <1>1 DEF Back!ScanDiscovers, Back!Rest
    <3>2. \A a \in Adapters : Back!Finds(a, full) \subseteq Serials
      BY DEF Back!Finds, BackInv, OutputTypes
    <3>3. [a \in Adapters |-> IF a \in answer THEN Back!Finds(a, full) ELSE {}]
            \in [Adapters -> SUBSET Serials]
      BY <3>2
    <3>4. QED
      BY <3>1, <3>3
  <2>2. up' = Adapters /\ UNCHANGED <<present, preferred, route, lit, motor, sent, effects, pipe, lamp,
                                      setter>>
    BY <1>1 DEF Back!ScanDiscovers, Back!EnsureStreams
  <2>3. opened' \in [Adapters -> SUBSET Serials]
    BY <2>1 DEF BackInv, OutputTypes
  <2>4. ThreadTypes'
    BY <2>1, <2>2 DEF BackInv, ThreadTypes
  <2>5. QED
    BY <2>2, <2>3, <2>4 DEF BackInv, OutputTypes, PipeTypes, SetterTypes
<1>2. CASE Back!ScanRoutes
  <2>1. /\ thread' = [Back!Rest EXCEPT !.at = "clean"]
        /\ route' \in [Serials -> Adapters \cup {None}]
        /\ UNCHANGED <<present, preferred, lit, motor, sent, effects, up, pipe, lamp, setter>>
    BY <1>2 DEF Back!ScanRoutes
  <2>2. opened' \in [Adapters -> SUBSET Serials]
    BY <1>2 DEF Back!ScanRoutes
  <2>3. ThreadTypes'
    BY <2>1, RestIs DEF ThreadTypes
  <2>4. QED
    BY <2>1, <2>2, <2>3 DEF BackInv, OutputTypes, PipeTypes, SetterTypes
<1>3. CASE Back!ScanCleans
  <2>1. PICK S : /\ lit' = [s \in Serials |-> IF s \in S THEN None ELSE lit[s]]
                 /\ sent' = [s \in Serials |-> IF s \in S THEN None ELSE sent[s]]
                 /\ motor' = [s \in Serials |-> IF s \in S THEN 0 ELSE motor[s]]
                 /\ effects' = effects \ S
    BY <1>3 DEF Back!ScanCleans
  <2>2. thread' = Back!Rest /\ UNCHANGED <<present, preferred, route, opened, up, pipe, lamp, setter>>
    BY <1>3 DEF Back!ScanCleans
  <2>3. OutputTypes'
    BY <2>1, <2>2 DEF BackInv, OutputTypes, Shades
  <2>4. ThreadTypes'
    BY <2>2, RestIs DEF BackInv, ThreadTypes
  <2>5. QED
    BY <2>2, <2>3, <2>4 DEF BackInv, PipeTypes, SetterTypes
<1>4. QED
  BY <1>1, <1>2, <1>3

\* The streams deliver and break; controllers and flags change.
LEMMA OutsideStep ==
  ASSUME BackInv,
         \/ \E a \in Adapters : Back!Delivered(a) \/ Back!StreamBreaks(a)
         \/ \E s \in Serials : Back!Goes(s) \/ Back!Comes(s)
         \/ \E s \in Serials, a \in Preferences : Back!FlagChanges(s, a)
  PROVE  BackInv'
<1> USE DEF Back!routeVars, Back!stateVars, Back!wireVars
<1>1. ASSUME NEW a \in Adapters, Back!Delivered(a) PROVE BackInv'
  <2>1. PICK x : x = Head(pipe[a])
    OBVIOUS
  <2>2. /\ pipe[a] # <<>> /\ pipe' = [pipe EXCEPT ![a] = Tail(pipe[a])]
        /\ UNCHANGED <<present, preferred, route, opened, lit, motor, sent, effects, up, thread, setter>>
    BY <1>1 DEF Back!Delivered, BackInv, PipeTypes
  <2>3. \/ lamp' = lamp
        \/ lamp' = [lamp EXCEPT ![Head(pipe[a]).serial] =
                      [colour |-> Head(pipe[a]).colour, motor |-> Head(pipe[a]).motor]]
    BY <1>1 DEF Back!Delivered
  <2>4. /\ pipe' \in [Adapters -> Seq(Outputs)] /\ \A b \in Adapters : Len(pipe'[b]) <= MaxPipe
        /\ x \in Outputs
    BY <2>1, <2>2, TailKeeps DEF BackInv
  <2>5. lamp' \in [Serials -> [colour : Shades, motor : {0, 1}]]
    BY <2>1, <2>3, <2>4 DEF BackInv, PipeTypes, Outputs
  <2>6. QED
    BY <2>2, <2>4, <2>5 DEF BackInv, OutputTypes, PipeTypes, ThreadTypes, SetterTypes
<1>2. ASSUME NEW a \in Adapters, Back!StreamBreaks(a) PROVE BackInv'
  <2>1. up' = up \ {a} /\ UNCHANGED <<present, preferred, route, opened, lit, motor, sent, effects, lamp,
                                      thread, setter>>
    BY <1>2 DEF Back!StreamBreaks
  <2>2. pipe' = pipe \/ (pipe[a] # <<>> /\ pipe' = [pipe EXCEPT ![a] = Tail(pipe[a])])
    BY <1>2 DEF Back!StreamBreaks, BackInv, PipeTypes
  <2>3. pipe' \in [Adapters -> Seq(Outputs)] /\ \A b \in Adapters : Len(pipe'[b]) <= MaxPipe
    BY <2>2, TailKeeps DEF BackInv, PipeTypes
  <2>4. QED
    BY <2>1, <2>3 DEF BackInv, OutputTypes, PipeTypes, ThreadTypes, SetterTypes
<1>3. ASSUME NEW s \in Serials, Back!Goes(s) PROVE BackInv'
  <2>1. /\ present' = present \ {s} /\ opened' = [a \in Adapters |-> opened[a] \ {s}]
        /\ lamp' = [lamp EXCEPT ![s] = Back!Off]
        /\ UNCHANGED <<preferred, route, lit, motor, sent, effects, up, pipe, thread, setter>>
    BY <1>3 DEF Back!Goes
  <2>2. OutputTypes'
    BY <2>1 DEF BackInv, OutputTypes
  <2>3. lamp' \in [Serials -> [colour : Shades, motor : {0, 1}]]
    BY <2>1 DEF BackInv, PipeTypes, Back!Off, Shades
  <2>4. QED
    BY <2>1, <2>2, <2>3 DEF BackInv, PipeTypes, ThreadTypes, SetterTypes
<1>4. ASSUME NEW s \in Serials, Back!Comes(s) PROVE BackInv'
  BY <1>4 DEF Back!Comes, BackInv, OutputTypes, PipeTypes, ThreadTypes, SetterTypes
<1>5. ASSUME NEW s \in Serials, NEW a \in Preferences, Back!FlagChanges(s, a) PROVE BackInv'
  BY <1>5 DEF Back!FlagChanges, BackInv, OutputTypes, PipeTypes, ThreadTypes, SetterTypes
<1>6. QED
  BY <1>1, <1>2, <1>3, <1>4, <1>5

\* The types of the back end hold, whichever part is followed; no pipe outgrows
\* its bound, and the refresh never writes without an adapter.
THEOREM OutputsAreTyped ==
  Spec => [](Back!TypeOK /\ (thread.at = "write" => route[thread.found] \in Adapters))
<1>1. Init => BackInv
  <2>1. SUFFICES ASSUME Back!Init PROVE BackInv
    BY DEF Init
  <2>2. OutputTypes
    BY <2>1 DEF Back!Init, OutputTypes, Shades
  <2>3. PipeTypes
    <3>1. <<>> \in Seq(Outputs) /\ Len(<<>>) = 0 /\ 0 <= MaxPipe
      BY EmptySeq, ServicesConstants
    <3>2. QED
      BY <2>1, <3>1 DEF Back!Init, PipeTypes, Back!Off, Shades
  <2>4. ThreadTypes
    BY <2>1, RestIs DEF Back!Init, ThreadTypes
  <2>5. SetterTypes
    BY <2>1 DEF Back!Init, Back!Calm, SetterTypes, Shades
  <2>6. QED
    BY <2>2, <2>3, <2>4, <2>5 DEF BackInv
<1>2. BackInv /\ [Next]_servicesVars => BackInv'
  <2>1. SUFFICES ASSUME BackInv, [Next]_servicesVars PROVE BackInv'
    OBVIOUS
  <2>2. CASE Back!Next
    BY <2>1, <2>2, SettersStep, RefreshStep, ScansStep, OutsideStep DEF Back!Next, Back!ThreadStep
  <2>3. CASE UNCHANGED outputVars
    <3>1. UNCHANGED <<present, preferred, route, lit, motor, sent, effects, thread, setter,
                      opened, up, pipe, lamp>>
      BY <2>3 DEF outputVars
    <3>2. QED
      BY <2>1, <3>1 DEF BackInv, OutputTypes, PipeTypes, ThreadTypes, SetterTypes
  <2>4. Back!Next \/ UNCHANGED outputVars
    BY <2>1 DEF Next, servicesVars, LightsOnly, HidOnly, DiscOnly, SoundOnly
  <2>5. QED
    BY <2>2, <2>3, <2>4
<1>3. BackInv => Back!TypeOK /\ (thread.at = "write" => route[thread.found] \in Adapters)
  BY DEF BackInv, OutputTypes, PipeTypes, ThreadTypes, SetterTypes, Back!TypeOK, Shades
<1>4. QED
  BY <1>1, <1>2, <1>3, PTL DEF Spec

-----------------------------------------------------------------------------
(* The types of the HID services: what is in the command queue and in the  *)
(* stream.                                                                 *)

\* The python service's stream needs no command.
Commands(k) ==
  {c \in [op : {"discover", "open", "output", "close", "closeAll", "register", "unregister"},
          serial : Serials \cup {None}, stream : Links \cup {None},
          scan : {"force", "full", "verify", None}, excluded : SUBSET Serials, awaited : BOOLEAN] :
     /\ c.op = "register" => c.stream \in Links
     /\ k = "python" => c.op \notin {"register", "unregister"}}

Handles  == [at : Paths \cup {None}, lives : BOOLEAN]
Readings == [serial : Serials, press : BOOLEAN]

DeviceTypes ==
  /\ there \in [Serials -> Paths \cup {None}] /\ press \in [Serials -> BOOLEAN]
  /\ handle \in [Serials -> Handles]

StreamTypes ==
  /\ registered \subseteq Links /\ late \subseteq leaving /\ leaving \subseteq Links
  /\ linked \in Links \cup {None} /\ known \in [Serials -> BOOLEAN \cup {None}]
  /\ feed \in Seq(Readings) /\ Len(feed) <= MaxFeed

CallTypes ==
  /\ kind \in Implementations /\ inbox \in Seq(Commands(kind))
  /\ asking \in {None, "discover", "open", "close"} /\ listed \subseteq Serials

HidInv == DeviceTypes /\ StreamTypes /\ CallTypes

\* Scanning, opening and writing leave handles.
LEMMA HandlesStay ==
  ASSUME DeviceTypes, NEW c \in Commands(kind), NEW s
  PROVE  /\ Hid!PythonDiscovers(c) \in [Serials -> Handles]
         /\ Hid!RustDiscovers(c) \in [Serials -> Handles]
         /\ Hid!Opens(s) \in [Serials -> Handles] /\ Hid!RustOpens(s) \in [Serials -> Handles]
         /\ Hid!Cleaned(s) \in [Serials -> Handles] /\ Hid!AllClosed \in [Serials -> Handles]
         /\ Hid!PythonWrites(s) \in [Serials -> Handles]
<1>1. Hid!Closed \in Handles /\ \A p \in Paths : Hid!OpenAt(p) \in Handles
  BY DEF Hid!Closed, Hid!OpenAt, Handles
<1>2. \A h \in [Serials -> Handles] :
        /\ Hid!Verified(h) \in [Serials -> Handles] /\ Hid!Remaining(h) \in [Serials -> Handles]
        /\ \A x : Hid!Enumerated(h, x) \in [Serials -> Handles]
        /\ \A x : Hid!RustEnumerated(h, x) \in [Serials -> Handles]
  <2>1. SUFFICES ASSUME NEW h \in [Serials -> Handles], NEW x
                 PROVE  /\ Hid!Verified(h) \in [Serials -> Handles]
                        /\ Hid!Remaining(h) \in [Serials -> Handles]
                        /\ Hid!Enumerated(h, x) \in [Serials -> Handles]
                        /\ Hid!RustEnumerated(h, x) \in [Serials -> Handles]
    OBVIOUS
  <2>2. Hid!Verified(h) \in [Serials -> Handles]
    BY <1>1 DEF Hid!Verified
  <2>3. Hid!Remaining(h) \in [Serials -> Handles]
    BY <1>1 DEF Hid!Remaining
  <2>4. Hid!Enumerated(h, x) \in [Serials -> Handles]
    BY <1>1 DEF Hid!Enumerated, DeviceTypes
  <2>5. Hid!RustEnumerated(h, x) \in [Serials -> Handles]
    BY <1>1 DEF Hid!RustEnumerated, DeviceTypes
  <2>6. QED
    BY <2>2, <2>3, <2>4, <2>5
<1>3. handle \in [Serials -> Handles]
  BY DEF DeviceTypes
<1>4. Hid!PythonDiscovers(c) \in [Serials -> Handles]
  BY <1>2, <1>3 DEF Hid!PythonDiscovers
<1>5. Hid!RustDiscovers(c) \in [Serials -> Handles]
  BY <1>2, <1>3 DEF Hid!RustDiscovers
<1>6. Hid!Opens(s) \in [Serials -> Handles]
  BY <1>1, <1>3 DEF Hid!Opens, DeviceTypes
<1>7. Hid!RustOpens(s) \in [Serials -> Handles]
  BY <1>1, <1>3 DEF Hid!RustOpens, Hid!OpenedBySerial, DeviceTypes
<1>8. Hid!Cleaned(s) \in [Serials -> Handles] /\ Hid!AllClosed \in [Serials -> Handles]
  BY <1>1, <1>3 DEF Hid!Cleaned, Hid!AllClosed
<1>9. Hid!PythonWrites(s) \in [Serials -> Handles]
  BY <1>3, <1>8 DEF Hid!PythonWrites
<1>10. QED
  BY <1>4, <1>5, <1>6, <1>7, <1>8, <1>9

\* A command that is asked for is one.
LEMMA AskedIs ==
  ASSUME kind \in Implementations, NEW op \in {"discover", "open", "output", "close", "closeAll"},
         NEW s \in Serials \cup {None}
  PROVE  Hid!Asked(op, s) \in Commands(kind)
BY DEF Hid!Asked, Commands

\* A device thread that handles a command.
LEMMA HandlesStep ==
  ASSUME HidInv, Hid!Handles
  PROVE  HidInv'
<1>1. PICK c : c = Head(inbox)
  OBVIOUS
<1>2. inbox # <<>> /\ inbox' = Tail(inbox) /\ kind' = kind
  BY DEF Hid!Handles, Hid!PythonHandles, Hid!RustHandles
<1>3. c \in Commands(kind) /\ inbox' \in Seq(Commands(kind'))
  BY <1>1, <1>2, HeadTailProperties DEF HidInv, CallTypes
<1>4. c.op \in {"discover", "open", "output", "close", "closeAll", "register", "unregister"}
      /\ (c.op = "register" => c.stream \in Links)
      /\ (kind = "python" => c.op \notin {"register", "unregister"})
  BY <1>3 DEF Commands
<1>5. DeviceTypes
  BY DEF HidInv
<1>6. handle' \in [Serials -> Handles]
  <2>1. CASE Hid!PythonHandles
    <3>1. kind = "python" /\
          handle' = CASE c.op = "discover" -> Hid!PythonDiscovers(c)
                      [] c.op = "open"     -> Hid!Opens(c.serial)
                      [] c.op = "output"   -> Hid!PythonWrites(c.serial)
                      [] c.op = "close"    -> Hid!Cleaned(c.serial)
                      [] c.op = "closeAll" -> Hid!AllClosed
      BY <1>1, <2>1 DEF Hid!PythonHandles
    <3>2. QED
      BY <1>3, <1>4, <1>5, <3>1, HandlesStay
  <2>2. CASE Hid!RustHandles
    <3>1. handle' = CASE c.op = "discover" -> Hid!RustDiscovers(c)
                      [] c.op = "open"     -> Hid!RustOpens(c.serial)
                      [] c.op = "close"    -> Hid!Cleaned(c.serial)
                      [] c.op = "closeAll" -> Hid!AllClosed
                      [] OTHER             -> handle
      BY <1>1, <2>2 DEF Hid!RustHandles
    <3>2. handle \in [Serials -> Handles]
      BY <1>5 DEF DeviceTypes
    <3>3. QED
      BY <1>3, <1>4, <1>5, <3>1, <3>2, HandlesStay
  <2>3. QED
    BY <2>1, <2>2 DEF Hid!Handles
<1>7. there' = there /\ press' = press
  BY DEF Hid!Handles, Hid!PythonHandles, Hid!RustHandles
<1>8. registered' \subseteq Links /\ UNCHANGED <<feed, leaving, late, linked, known>>
  <2>1. CASE Hid!PythonHandles
    BY <2>1 DEF Hid!PythonHandles, Hid!streamVars, HidInv, StreamTypes
  <2>2. CASE Hid!RustHandles
    BY <1>1, <1>4, <2>2 DEF Hid!RustHandles, Hid!Registers, HidInv, StreamTypes
  <2>3. QED
    BY <2>1, <2>2 DEF Hid!Handles
<1>9. asking' \in {None, "discover", "open", "close"} /\ listed' \subseteq Serials
  <2>1. Hid!Answered(c)
    BY <1>1 DEF Hid!Handles, Hid!PythonHandles, Hid!RustHandles
  <2>2. QED
    BY <2>1 DEF Hid!Answered, Hid!Held, HidInv, CallTypes
<1>10. DeviceTypes'
  BY <1>5, <1>6, <1>7 DEF DeviceTypes
<1>11. StreamTypes'
  BY <1>8 DEF HidInv, StreamTypes
<1>12. CallTypes'
  BY <1>2, <1>3, <1>9 DEF HidInv, CallTypes
<1>13. QED
  BY <1>10, <1>11, <1>12 DEF HidInv

\* A reading is queued or dropped.
LEMMA PollsStep ==
  ASSUME HidInv, NEW s \in Serials, Hid!Polls(s)
  PROVE  HidInv'
<1>1. UNCHANGED <<kind, there, press, registered, leaving, late, linked, known, inbox, asking, listed>>
  BY DEF Hid!Polls, Hid!PythonPolls, Hid!RustPolls, Hid!deviceVars, Hid!callVars
<1>2. PICK x \in Readings : x = Hid!Reading(s)
  BY DEF HidInv, DeviceTypes, Hid!Reading, Readings
<1>3. feed \in Seq(Readings) /\ Len(feed) <= MaxFeed /\ MaxFeed \in Nat \ {0} /\ Len(feed) \in Nat
  BY ServicesConstants, LenProperties DEF HidInv, StreamTypes
<1>4. /\ Append(feed, x) \in Seq(Readings) /\ Len(Append(feed, x)) = Len(feed) + 1
      /\ Len(feed) = MaxFeed =>
           /\ Append(Tail(feed), x) \in Seq(Readings)
           /\ Len(Append(Tail(feed), x)) = Len(feed)
  <2>1. Append(feed, x) \in Seq(Readings) /\ Len(Append(feed, x)) = Len(feed) + 1
    BY <1>3, AppendProperties
  <2>2. ASSUME Len(feed) = MaxFeed
        PROVE  Append(Tail(feed), x) \in Seq(Readings) /\ Len(Append(Tail(feed), x)) = Len(feed)
    <3>1. feed # <<>>
      BY <1>3, <2>2, EmptySeq
    <3>2. Tail(feed) \in Seq(Readings) /\ Len(Tail(feed)) = Len(feed) - 1
      BY <1>3, <3>1, HeadTailProperties
    <3>3. QED
      BY <1>3, <3>2, AppendProperties
  <2>3. QED
    BY <2>1, <2>2
<1>5. feed' \in Seq(Readings) /\ Len(feed') <= MaxFeed
  <2>1. CASE Hid!RustPolls(s)
    BY <1>2, <1>3, <1>4, <2>1 DEF Hid!RustPolls, Hid!Full
  <2>2. CASE Hid!PythonPolls(s)
    <3>1. \/ feed' = feed
          \/ feed' = Append(feed, x) /\ Len(feed) # MaxFeed
          \/ feed' = Append(Tail(feed), x) /\ Len(feed) = MaxFeed
      BY <1>2, <2>2 DEF Hid!PythonPolls, Hid!Pushed, Hid!Full
    <3>2. QED
      BY <1>3, <1>4, <3>1
  <2>3. QED
    BY <2>1, <2>2 DEF Hid!Polls
<1>6. handle' \in [Serials -> Handles]
  <2>1. handle' = handle \/ handle' = Hid!Cleaned(s)
    BY DEF Hid!Polls, Hid!PythonPolls, Hid!RustPolls, Hid!deviceVars
  <2>2. Hid!Closed \in Handles
    BY DEF Hid!Closed, Handles
  <2>3. QED
    BY <2>1, <2>2 DEF Hid!Cleaned, HidInv, DeviceTypes
<1>7. DeviceTypes'
  BY <1>1, <1>6 DEF HidInv, DeviceTypes
<1>8. StreamTypes'
  BY <1>1, <1>5 DEF HidInv, StreamTypes
<1>9. CallTypes'
  BY <1>1 DEF HidInv, CallTypes
<1>10. QED
  BY <1>7, <1>8, <1>9 DEF HidInv

\* Streams that end, for the adapter or for the service, and readings taken.
LEMMA StreamsStep ==
  ASSUME HidInv, Hid!Leaves \/ Hid!Breaks \/ Hid!Takes
  PROVE  HidInv'
<1>1. UNCHANGED <<kind, there, press, handle, asking, listed>>
  BY DEF Hid!Leaves, Hid!SenderDropped, Hid!RustLeaves, Hid!PythonLeaves, Hid!Breaks, Hid!Takes,
     Hid!deviceVars, Hid!callVars
<1>2. inbox' \in Seq(Commands(kind'))
  <2>1. ASSUME NEW l \in Links, Hid!RustLeaves(l) PROVE inbox' \in Seq(Commands(kind'))
    <3>1. PICK c : c = [Hid!Asked("unregister", None) EXCEPT !.stream = l]
      OBVIOUS
    <3>2. kind = "rust" /\ kind' = kind /\ inbox' = Append(inbox, c)
      BY <2>1, <3>1 DEF Hid!RustLeaves
    <3>3. c \in Commands(kind)
      BY <3>1, <3>2 DEF Hid!Asked, Commands
    <3>4. QED
      BY <3>2, <3>3, AppendProperties DEF HidInv, CallTypes
  <2>2. ASSUME NEW l \in Links, Hid!PythonLeaves(l) PROVE inbox' \in Seq(Commands(kind'))
    BY <2>2 DEF Hid!PythonLeaves, Hid!callVars, HidInv, CallTypes
  <2>3. CASE Hid!SenderDropped \/ Hid!Breaks \/ Hid!Takes
    BY <2>3 DEF Hid!SenderDropped, Hid!Breaks, Hid!Takes, Hid!callVars, HidInv, CallTypes
  <2>4. QED
    BY <2>1, <2>2, <2>3 DEF Hid!Leaves
<1>3. StreamTypes'
  <2>1. ASSUME NEW l \in Links, Hid!RustLeaves(l) \/ Hid!PythonLeaves(l) PROVE StreamTypes'
    BY <2>1 DEF Hid!RustLeaves, Hid!PythonLeaves, HidInv, StreamTypes
  <2>2. CASE Hid!SenderDropped \/ Hid!Breaks
    <3>1. Hid!Ends /\ linked # None /\ UNCHANGED <<registered, known>>
          /\ late' \in {late, late \cup {linked}}
      BY <2>2 DEF Hid!SenderDropped, Hid!Breaks
    <3>2. <<>> \in Seq(Readings) /\ Len(<<>>) = 0 /\ 0 <= MaxFeed
      BY EmptySeq, ServicesConstants
    <3>3. QED
      BY <3>1, <3>2 DEF Hid!Ends, HidInv, StreamTypes
  <2>3. CASE Hid!Takes
    <3>1. feed # <<>> /\ feed \in Seq(Readings)
      BY <2>3 DEF Hid!Takes, HidInv, StreamTypes
    <3>2. Head(feed) \in Readings /\ Tail(feed) \in Seq(Readings) /\ Len(Tail(feed)) = Len(feed) - 1
          /\ Len(feed) \in Nat
      BY <3>1, HeadTailProperties, LenProperties
    <3>3. feed' \in Seq(Readings) /\ Len(feed') <= MaxFeed
      BY <2>3, <3>2, ServicesConstants DEF Hid!Takes, HidInv, StreamTypes
    <3>4. known' \in [Serials -> BOOLEAN \cup {None}]
      BY <2>3, <3>2 DEF Hid!Takes, HidInv, StreamTypes, Readings
    <3>5. QED
      BY <2>3, <3>3, <3>4 DEF Hid!Takes, HidInv, StreamTypes
  <2>4. QED
    BY <2>1, <2>2, <2>3 DEF Hid!Leaves
<1>4. DeviceTypes'
  BY <1>1 DEF HidInv, DeviceTypes
<1>5. CallTypes'
  BY <1>1, <1>2 DEF HidInv, CallTypes
<1>6. QED
  BY <1>3, <1>4, <1>5 DEF HidInv

\* A call begins, with a stream and a command of it if it has none.
LEMMA CallBegins ==
  ASSUME HidInv, NEW c \in Commands(kind), Hid!Streaming, inbox' = Hid!Queued(c), kind' = kind
  PROVE  /\ inbox' \in Seq(Commands(kind'))
         /\ registered' \subseteq Links /\ linked' \in Links \cup {None}
         /\ feed' \in Seq(Readings) /\ Len(feed') <= MaxFeed
<1>1. CASE linked # None
  BY <1>1, AppendProperties DEF Hid!Streaming, Hid!Queued, HidInv, StreamTypes, CallTypes
<1>2. CASE linked = None
  <2>1. PICK l \in Links : Hid!Starts(l)
    BY <1>2 DEF Hid!Streaming, Hid!FreeLinks
  <2>2. linked' = l /\ feed' = <<>> /\ registered' \subseteq Links
    BY <2>1 DEF Hid!Starts, HidInv, StreamTypes
  <2>3. <<>> \in Seq(Readings) /\ Len(<<>>) = 0 /\ 0 <= MaxFeed
    BY EmptySeq, ServicesConstants
  <2>4. PICK r : r = [Hid!Asked("register", None) EXCEPT !.stream = l]
    OBVIOUS
  <2>5. kind = "rust" => r \in Commands(kind)
    BY <2>4 DEF Hid!Asked, Commands
  <2>6. inbox' = Append(inbox, c) \/ (kind = "rust" /\ inbox' = inbox \o <<r, c>>)
    BY <2>2, <2>4 DEF Hid!Queued
  <2>7. inbox \in Seq(Commands(kind))
    BY DEF HidInv, CallTypes
  <2>8. kind = "rust" => inbox \o <<r, c>> \in Seq(Commands(kind))
    <3>1. SUFFICES ASSUME r \in Commands(kind) PROVE inbox \o <<r, c>> \in Seq(Commands(kind))
      BY <2>5
    <3>2. <<r, c>> \in Seq(Commands(kind))
      BY <3>1
    <3>3. QED
      BY <2>7, <3>2, ConcatProperties
  <2>9. inbox' \in Seq(Commands(kind'))
    <3>1. Append(inbox, c) \in Seq(Commands(kind))
      BY <2>7, AppendProperties
    <3>2. QED
      BY <2>6, <2>8, <3>1
  <2>10. QED
    BY <2>2, <2>3, <2>9
<1>3. QED
  BY <1>1, <1>2

\* The adapter's calls.
LEMMA CallsStep ==
  ASSUME HidInv,
         \/ \E scan0 \in {"force", "full", "verify"}, excluded \in SUBSET Serials : Hid!Scan(scan0, excluded)
         \/ \E s \in Serials : Hid!Open(s) \/ Hid!Output(s) \/ Hid!Close(s)
         \/ Hid!CloseAll \/ Hid!CallFails
  PROVE  HidInv'
<1>0. kind \in Implementations /\ None \in Serials \cup {None}
  BY DEF HidInv, CallTypes
<1>1. ASSUME NEW x \in {"force", "full", "verify"}, NEW excluded \in SUBSET Serials,
             Hid!Scan(x, excluded)
      PROVE  HidInv'
  <2>1. PICK c : c = [Hid!Asked("discover", None) EXCEPT !.scan = x, !.excluded = excluded]
    OBVIOUS
  <2>2. c \in Commands(kind)
    BY <1>0, <2>1 DEF Hid!Asked, Commands
  <2>3. Hid!Streaming /\ inbox' = Hid!Queued(c) /\ asking' = "discover"
        /\ UNCHANGED <<kind, there, press, handle, leaving, late, known, listed>>
    BY <1>1, <2>1 DEF Hid!Scan, Hid!deviceVars
  <2>4. QED
    BY <2>2, <2>3, CallBegins DEF HidInv, DeviceTypes, StreamTypes, CallTypes
<1>2. ASSUME NEW s \in Serials, Hid!Open(s) PROVE HidInv'
  <2>1. PICK c \in Commands(kind) : c = Hid!Asked("open", s)
    BY <1>0, AskedIs
  <2>2. Hid!Streaming /\ inbox' = Hid!Queued(c) /\ asking' = "open"
        /\ UNCHANGED <<kind, there, press, handle, leaving, late, known, listed>>
    BY <1>2, <2>1 DEF Hid!Open, Hid!deviceVars
  <2>3. QED
    BY <2>1, <2>2, CallBegins DEF HidInv, DeviceTypes, StreamTypes, CallTypes
<1>3. ASSUME NEW s \in Serials, Hid!Output(s) \/ Hid!Close(s) PROVE HidInv'
  <2>1. PICK c \in Commands(kind) : inbox' = Append(inbox, c)
    BY <1>0, <1>3, AskedIs DEF Hid!Output, Hid!Close
  <2>2. asking' \in {None, "discover", "open", "close"} /\ known' \in [Serials -> BOOLEAN \cup {None}]
        /\ UNCHANGED <<kind, there, press, handle, registered, feed, leaving, late, linked, listed>>
    BY <1>3 DEF Hid!Output, Hid!Close, Hid!deviceVars, Hid!streamVars, HidInv, StreamTypes, CallTypes
  <2>3. inbox' \in Seq(Commands(kind'))
    BY <2>1, <2>2, AppendProperties DEF HidInv, CallTypes
  <2>4. QED
    BY <2>2, <2>3 DEF HidInv, DeviceTypes, StreamTypes, CallTypes
<1>4. CASE Hid!CloseAll
  <2>1. PICK c \in Commands(kind) : c = Hid!Asked("closeAll", None)
    BY <1>0, AskedIs
  <2>2. /\ inbox' = Append(inbox, c) /\ listed' = {} /\ known' = [s \in Serials |-> None]
        /\ UNCHANGED <<kind, there, press, handle, registered, late, asking>>
    BY <1>4, <2>1 DEF Hid!CloseAll, Hid!deviceVars
  <2>3. /\ linked' \in Links \cup {None} /\ feed' \in {feed, <<>>}
        /\ leaving' \subseteq Links /\ leaving \subseteq leaving'
    BY <1>4 DEF Hid!CloseAll, Hid!Ends, HidInv, StreamTypes
  <2>4. <<>> \in Seq(Readings) /\ Len(<<>>) = 0 /\ 0 <= MaxFeed
    BY EmptySeq, ServicesConstants
  <2>5. StreamTypes'
    BY <2>2, <2>3, <2>4 DEF HidInv, StreamTypes
  <2>6. CallTypes'
    BY <2>1, <2>2, AppendProperties DEF HidInv, CallTypes
  <2>7. QED
    BY <2>2, <2>5, <2>6 DEF HidInv, DeviceTypes
<1>5. CASE Hid!CallFails
  <2>1. /\ asking' = None /\ listed' \in {listed, {}}
        /\ inbox' = [i \in DOMAIN inbox |-> [inbox[i] EXCEPT !.awaited = FALSE]]
        /\ UNCHANGED <<kind, there, press, handle, registered, feed, leaving, late, linked, known>>
    BY <1>5 DEF Hid!CallFails, Hid!deviceVars, Hid!streamVars
  <2>2. PICK n \in Nat : n = Len(inbox) /\ DOMAIN inbox = 1..n
    BY LenProperties DEF HidInv, CallTypes
  <2>3. ASSUME NEW i \in 1..n PROVE [inbox[i] EXCEPT !.awaited = FALSE] \in Commands(kind)
    <3>1. inbox[i] \in Commands(kind)
      BY <2>2, LenProperties DEF HidInv, CallTypes
    <3>2. QED
      BY <3>1 DEF Commands
  <2>4. inbox' \in [1..n -> Commands(kind)]
    BY <2>1, <2>2, <2>3
  <2>5. inbox' \in Seq(Commands(kind'))
    BY <2>1, <2>4, ListIsSeq
  <2>6. QED
    BY <2>1, <2>5 DEF HidInv, DeviceTypes, StreamTypes, CallTypes
<1>6. QED
  BY <1>1, <1>2, <1>3, <1>4, <1>5

\* Controllers come, go and are pressed; the service is started again.
LEMMA DevicesStep ==
  ASSUME HidInv,
         \/ \E s \in Serials, p \in Paths : Hid!Comes(s, p)
         \/ \E s \in Serials : Hid!Goes(s) \/ Hid!Presses(s)
         \/ Hid!Restarts
  PROVE  HidInv'
<1>1. ASSUME NEW s \in Serials, NEW p \in Paths, Hid!Comes(s, p) PROVE HidInv'
  BY <1>1 DEF Hid!Comes, Hid!streamVars, Hid!callVars, HidInv, DeviceTypes, StreamTypes, CallTypes
<1>2. ASSUME NEW s \in Serials, Hid!Goes(s) PROVE HidInv'
  <2>1. /\ there' = [there EXCEPT ![s] = None] /\ handle' = [handle EXCEPT ![s].lives = FALSE]
        /\ UNCHANGED <<kind, press, registered, feed, leaving, late, linked, known, inbox, asking, listed>>
    BY <1>2 DEF Hid!Goes, Hid!streamVars, Hid!callVars
  <2>2. handle' \in [Serials -> Handles]
    BY <2>1 DEF HidInv, DeviceTypes, Handles
  <2>3. QED
    BY <2>1, <2>2 DEF HidInv, DeviceTypes, StreamTypes, CallTypes
<1>3. ASSUME NEW s \in Serials, Hid!Presses(s) PROVE HidInv'
  <2>1. /\ press' = [press EXCEPT ![s] = ~press[s]]
        /\ UNCHANGED <<kind, there, handle, registered, feed, leaving, late, linked, known, inbox,
                       asking, listed>>
    BY <1>3 DEF Hid!Presses, Hid!streamVars, Hid!callVars, HidInv, DeviceTypes
  <2>2. press' \in [Serials -> BOOLEAN]
    BY <2>1 DEF HidInv, DeviceTypes
  <2>3. QED
    BY <2>1, <2>2 DEF HidInv, DeviceTypes, StreamTypes, CallTypes
<1>4. CASE Hid!Restarts
  <2>1. /\ handle' = Hid!AllClosed /\ inbox' = <<>> /\ registered' = {} /\ leaving' = {}
        /\ late' = {} /\ linked' = None /\ feed' = <<>> /\ asking' = None
        /\ listed' \in {listed, {}} /\ UNCHANGED <<kind, there, press, known>>
    BY <1>4 DEF Hid!Restarts
  <2>2. <<>> \in Seq(Readings) /\ <<>> \in Seq(Commands(kind)) /\ Len(<<>>) = 0 /\ 0 <= MaxFeed
    BY EmptySeq, ServicesConstants
  <2>3. handle' \in [Serials -> Handles]
    BY <2>1 DEF Hid!AllClosed, Hid!Closed, Handles
  <2>4. QED
    BY <2>1, <2>2, <2>3 DEF HidInv, DeviceTypes, StreamTypes, CallTypes
<1>5. QED
  BY <1>1, <1>2, <1>3, <1>4

\* The types of the HID service hold, whichever part is followed.
THEOREM DevicesAreTyped == Spec => []Hid!TypeOK
<1>1. Init => HidInv
  <2>1. SUFFICES ASSUME Hid!Init PROVE HidInv
    BY DEF Init
  <2>2. <<>> \in Seq(Readings) /\ <<>> \in Seq(Commands(kind)) /\ Len(<<>>) = 0 /\ 0 <= MaxFeed
    BY EmptySeq, ServicesConstants
  <2>3. DeviceTypes
    BY <2>1 DEF Hid!Init, DeviceTypes, Hid!Closed, Handles
  <2>4. StreamTypes /\ CallTypes
    BY <2>1, <2>2 DEF Hid!Init, StreamTypes, CallTypes
  <2>5. QED
    BY <2>3, <2>4 DEF HidInv
<1>2. HidInv /\ [Next]_servicesVars => HidInv'
  <2>1. SUFFICES ASSUME HidInv, [Next]_servicesVars PROVE HidInv'
    OBVIOUS
  <2>2. CASE Hid!Next
    BY <2>1, <2>2, HandlesStep, PollsStep, StreamsStep, CallsStep, DevicesStep DEF Hid!Next
  <2>3. CASE UNCHANGED hidVars
    <3>1. UNCHANGED <<kind, there, press, handle, inbox, registered, feed, leaving, late, linked,
                      known, asking, listed>>
      BY <2>3 DEF hidVars
    <3>2. QED
      BY <2>1, <3>1 DEF HidInv, DeviceTypes, StreamTypes, CallTypes
  <2>4. Hid!Next \/ UNCHANGED hidVars
    BY <2>1 DEF Next, servicesVars, LightsOnly, BackOnly, DiscOnly, SoundOnly
  <2>5. QED
    BY <2>2, <2>3, <2>4
<1>3. HidInv => Hid!TypeOK
  BY DEF HidInv, DeviceTypes, StreamTypes, CallTypes, Hid!TypeOK, Handles
<1>4. QED
  BY <1>1, <1>2, <1>3, PTL DEF Spec

-----------------------------------------------------------------------------
\* Whichever part is followed, its variables have their types.
THEOREM TypeCorrect == Spec => []TypeOK
<1>1. /\ Lights!TypeOK /\ Back!TypeOK /\ Hid!TypeOK /\ Sound!TypeOK
      /\ part = "discovery" => Disc!TypeOK
      => TypeOK
  BY DEF TypeOK
<1>2. QED
  BY <1>1, LightsAreTyped, OutputsAreTyped, DevicesAreTyped, DiscoveryIsTyped, AudioIsTyped, PTL
=============================================================================
