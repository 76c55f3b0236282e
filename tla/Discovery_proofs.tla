--------------------------- MODULE Discovery_proofs ---------------------------
(***************************************************************************)
(* What a client of the button events knows, for every set of controllers, *)
(* buttons and clients and every size of their queues.                     *)
(*                                                                         *)
(* The promise is about what a client will know when it has read its       *)
(* queue.  The invariant follows that reading event by event: an event     *)
(* that is queued makes the reading one step longer, one that is read makes*)
(* it one step shorter, and in between nothing has to be computed anew.    *)
(***************************************************************************)
EXTENDS Services, FiniteSetTheorems, SequenceTheorems, WellFoundedInduction, TLAPS

\* Every set of numbers has a least one.
LEMMA LeastNumber ==
  ASSUME NEW S \in SUBSET Nat, S # {}
  PROVE  \E x \in S : \A y \in S : x <= y
<1> DEFINE R == OpToRel(<, Nat)
<1>1. IsWellFoundedOn(R, Nat)
  BY NatLessThanWellFounded
<1>2. \A x, y \in Nat : <<x, y>> \in R <=> x < y
  BY DEF OpToRel
<1> HIDE DEF R
<1>3. PICK x \in S : \A y \in S : ~(<<y, x>> \in R)
  BY <1>1, WFMin
<1>4. \A y \in S : x \in Nat /\ y \in Nat /\ ~(y < x)
  BY <1>2, <1>3
<1>5. QED
  BY <1>4

-----------------------------------------------------------------------------
(* What a client knows, and what it will know. *)

Events == {e \in [kind : {"press", "release", "connect", "disconnect"}, serial : Controllers,
                  button : Buttons \cup {None}, all : SUBSET Controllers] :
             e.kind \in {"press", "release"} => e.button \in Buttons}

Views == [here : SUBSET Controllers, held : [Controllers -> SUBSET Buttons]]

StreamRecords == [open : BOOLEAN, queue : Seq(Events), here : SUBSET Controllers,
                  held : [Controllers -> SUBSET Buttons], missed : BOOLEAN, ghosts : BOOLEAN]

View(x) == [here |-> x.here, held |-> x.held]

\* h is what somebody who knows v knows after each event of q.
Reading(h, v, q) ==
  /\ h \in [0..Len(q) -> Views] /\ h[0] = v
  /\ \A i \in 1..Len(q) : h[i] = Disc!Hears(h[i - 1], q[i])

Learns(v, q, y) == \E h : Reading(h, v, q) /\ h[Len(q)] = y

\* y is true of the controllers A that were announced, of T that are tracked, and
\* of their buttons B, as far as the stream x has missed nothing.
Told(x, y, A, T, B) ==
  /\ ~x.missed => A \subseteq y.here /\ y.held = B
  /\ ~x.ghosts /\ T # {} => y.here \subseteq T

GoodStream(x, A, T, B) ==
  /\ x \in StreamRecords /\ x.open /\ Len(x.queue) <= MaxQueue
  /\ \E y \in Views : Learns(View(x), x.queue, y) /\ Told(x, y, A, T, B)

\* An event makes a view into one.
LEMMA HearsView ==
  ASSUME NEW v \in Views, NEW e \in Events
  PROVE  Disc!Hears(v, e) \in Views
<1> DEFINE named == CASE e.kind = "connect"    -> v.here \cup {e.serial}
                      [] e.kind = "disconnect" -> v.here \ {e.serial}
                      [] OTHER                 -> v.here
           rest == IF e.all = {} THEN named ELSE named \cap e.all
           held  == CASE e.kind = "press"   -> [v.held EXCEPT ![e.serial] = @ \cup {e.button}]
                      [] e.kind = "release" -> [v.held EXCEPT ![e.serial] = @ \ {e.button}]
                      [] OTHER -> [s \in Controllers |->
                                     IF s \in (v.here \cup named) \ rest THEN {} ELSE v.held[s]]
<1>1. v.here \subseteq Controllers /\ v.held \in [Controllers -> SUBSET Buttons]
  BY DEF Views
<1>2. e.serial \in Controllers /\ (e.kind \in {"press", "release"} => e.button \in Buttons)
  BY DEF Events
<1>3. rest \subseteq Controllers
  BY <1>1, <1>2
<1>4. held \in [Controllers -> SUBSET Buttons]
  <2>1. CASE e.kind = "press"
    BY <1>1, <1>2, <2>1
  <2>2. CASE e.kind = "release"
    BY <1>1, <1>2, <2>2
  <2>3. CASE e.kind \notin {"press", "release"}
    <3>1. held = [s \in Controllers |->
                    IF s \in (v.here \cup named) \ rest THEN {} ELSE v.held[s]]
      BY <2>3
    <3>2. QED
      BY <1>1, <3>1
  <2>4. QED
    BY <2>1, <2>2, <2>3
<1>5. Disc!Hears(v, e) = [v EXCEPT !.here = rest, !.held = held]
  BY DEF Disc!Hears
<1> HIDE DEF named, rest, held
<1>6. QED
  BY <1>3, <1>4, <1>5 DEF Views

\* A stream hears an event as its client's view does.
LEMMA HearsLikeView ==
  ASSUME NEW x \in StreamRecords, NEW e \in Events
  PROVE  Disc!Hears(x, e) = [x EXCEPT !.here = Disc!Hears(View(x), e).here,
                                      !.held = Disc!Hears(View(x), e).held]
<1>1. PICK v : v = View(x)
  OBVIOUS
<1>2. v.here = x.here /\ v.held = x.held /\ v \in [here : {x.here}, held : {x.held}]
  BY <1>1 DEF View
<1>3. \E a, b : Disc!Hears(x, e) = [x EXCEPT !.here = a, !.held = b]
                /\ Disc!Hears(v, e) = [v EXCEPT !.here = a, !.held = b]
  BY <1>2 DEF Disc!Hears
<1>4. PICK a, b : /\ Disc!Hears(x, e) = [x EXCEPT !.here = a, !.held = b]
                  /\ Disc!Hears(v, e) = [v EXCEPT !.here = a, !.held = b]
  BY <1>3
<1>5. Disc!Hears(v, e).here = a /\ Disc!Hears(v, e).held = b
  BY <1>2, <1>4
<1>6. QED
  BY <1>1, <1>4, <1>5

\* Without events a client knows what it knew.
LEMMA LearnsNothing ==
  ASSUME NEW v \in Views
  PROVE  Learns(v, <<>>, v)
<1>1. Reading([i \in 0..0 |-> v], v, <<>>)
  BY DEF Reading
<1>2. QED
  BY <1>1 DEF Learns

\* One event more is one step more.
LEMMA LearnsMore ==
  ASSUME NEW v, NEW q \in Seq(Events), NEW y \in Views, NEW e \in Events, Learns(v, q, y)
  PROVE  Learns(v, Append(q, e), Disc!Hears(y, e))
<1>1. PICK h : Reading(h, v, q) /\ h[Len(q)] = y
  BY DEF Learns
<1>2. PICK n \in Nat : n = Len(q) /\ Len(Append(q, e)) = n + 1
  OBVIOUS
<1>3. PICK z \in Views : z = Disc!Hears(y, e)
  BY HearsView
<1> DEFINE g == [i \in 0..(n + 1) |-> IF i = n + 1 THEN z ELSE h[i]]
<1>4. \A i \in 0..n : g[i] = h[i]
  BY <1>2
<1>5. g \in [0..(n + 1) -> Views] /\ g[0] = v /\ g[n + 1] = z
  BY <1>1, <1>2, <1>4 DEF Reading
<1>6. ASSUME NEW i \in 1..(n + 1) PROVE g[i] = Disc!Hears(g[i - 1], Append(q, e)[i])
  <2>1. CASE i = n + 1
    <3>1. g[i - 1] = y /\ Append(q, e)[i] = e
      BY <1>1, <1>2, <1>4, <2>1
    <3>2. QED
      BY <1>3, <1>5, <2>1, <3>1
  <2>2. CASE i # n + 1
    <3>1. i \in 1..n /\ i - 1 \in 0..n /\ i \in 0..n
      BY <2>2
    <3>2. g[i] = h[i] /\ g[i - 1] = h[i - 1] /\ Append(q, e)[i] = q[i]
      BY <1>2, <1>4, <3>1
    <3>3. QED
      BY <1>1, <1>2, <3>1, <3>2 DEF Reading
  <2>3. QED
    BY <2>1, <2>2
<1> HIDE DEF g
<1>7. Reading(g, v, Append(q, e))
  BY <1>2, <1>5, <1>6 DEF Reading
<1>8. QED
  BY <1>2, <1>3, <1>5, <1>7 DEF Learns

\* The first event read is one step less.
LEMMA LearnsLess ==
  ASSUME NEW v \in Views, NEW q \in Seq(Events), q # <<>>, NEW y, Learns(v, q, y)
  PROVE  Learns(Disc!Hears(v, Head(q)), Tail(q), y)
<1>1. PICK h : Reading(h, v, q) /\ h[Len(q)] = y
  BY DEF Learns
<1>2. PICK n \in Nat : n + 1 = Len(q) /\ Len(Tail(q)) = n
  <2>1. Len(q) \in Nat /\ Len(q) # 0 /\ Len(Tail(q)) = Len(q) - 1
    BY EmptySeq, LenProperties, HeadTailProperties
  <2>2. Len(q) - 1 \in Nat /\ (Len(q) - 1) + 1 = Len(q)
    BY <2>1
  <2>3. QED
    BY <2>1, <2>2
<1> DEFINE g == [i \in 0..n |-> h[i + 1]]
<1>3. g \in [0..n -> Views]
  BY <1>1, <1>2 DEF Reading
<1>4. g[0] = Disc!Hears(v, Head(q))
  <2>1. g[0] = h[1] /\ 1 \in 1..Len(q) /\ Head(q) = q[1]
    BY <1>2
  <2>2. QED
    BY <1>1, <2>1 DEF Reading
<1>5. g[n] = y
  BY <1>1, <1>2
<1>6. ASSUME NEW i \in 1..n PROVE g[i] = Disc!Hears(g[i - 1], Tail(q)[i])
  <2>1. i + 1 \in 1..Len(q) /\ Tail(q)[i] = q[i + 1]
    BY <1>2
  <2>2. h[i + 1] = Disc!Hears(h[(i + 1) - 1], q[i + 1])
    BY <1>1, <2>1 DEF Reading
  <2>3. g[i] = h[i + 1] /\ g[i - 1] = h[i] /\ (i + 1) - 1 = i
    OBVIOUS
  <2>4. QED
    BY <2>1, <2>2, <2>3
<1> HIDE DEF g
<1>7. Reading(g, Disc!Hears(v, Head(q)), Tail(q))
  BY <1>2, <1>3, <1>4, <1>6 DEF Reading
<1>8. QED
  BY <1>2, <1>5, <1>7 DEF Learns

-----------------------------------------------------------------------------
(* Events that are published. *)

\* Who knew of A, T and B and hears of e knows of A2, T2 and B2.
Tells(e, A, T, B, A2, T2, B2) ==
  /\ \A y \in Views : A \subseteq y.here /\ y.held = B =>
       A2 \subseteq Disc!Hears(y, e).here /\ Disc!Hears(y, e).held = B2
  /\ T2 # {} /\ e.all # {} => \A y \in Views : Disc!Hears(y, e).here \subseteq T2
  /\ T2 # {} /\ e.all = {} =>
       T2 = T /\ \A y \in Views : y.here \subseteq T => Disc!Hears(y, e).here \subseteq T2
  /\ e.kind \notin {"connect", "disconnect"} => T2 = T

\* One event is queued, or recorded as missed.
LEMMA OfferGood ==
  ASSUME NEW e \in Events, NEW A, NEW T, NEW B, NEW A2, NEW T2, NEW B2, NEW x,
         GoodStream(x, A, T, B), Tells(e, A, T, B, A2, T2, B2)
  PROVE  GoodStream(Disc!Offer(x, e), A2, T2, B2)
<1>1. x \in StreamRecords /\ x.open /\ Len(x.queue) <= MaxQueue /\ x.queue \in Seq(Events)
  BY DEF GoodStream, StreamRecords
<1>2. PICK y \in Views : Learns(View(x), x.queue, y) /\ Told(x, y, A, T, B)
  BY DEF GoodStream
<1>3. CASE Len(x.queue) < MaxQueue
  <2>1. PICK z : z = [x EXCEPT !.queue = Append(x.queue, e),
                               !.ghosts = x.ghosts /\ e.all = {}]
    OBVIOUS
  <2>2. Disc!Offer(x, e) = z
    BY <1>1, <1>3, <2>1 DEF Disc!Offer, StreamRecords
  <2>3. Append(x.queue, e) \in Seq(Events) /\ Len(Append(x.queue, e)) = Len(x.queue) + 1
    BY <1>1, AppendProperties
  <2>4. /\ z \in StreamRecords /\ z.open /\ z.queue = Append(x.queue, e)
        /\ z.missed = x.missed /\ (z.ghosts <=> x.ghosts /\ e.all = {})
        /\ z.here = x.here /\ z.held = x.held
    BY <1>1, <2>1, <2>3 DEF StreamRecords
  <2>5. Learns(View(z), z.queue, Disc!Hears(y, e))
    BY <1>1, <1>2, <2>4, LearnsMore DEF View
  <2>6. Told(z, Disc!Hears(y, e), A2, T2, B2)
    BY <1>2, <2>4 DEF Told, Tells
  <2>7. Len(z.queue) <= MaxQueue
    <3>1. Len(x.queue) \in Nat /\ MaxQueue \in Nat
      BY <1>1, LenProperties, ServicesConstants
    <3>2. QED
      BY <1>3, <2>3, <2>4, <3>1
  <2>8. QED
    BY <2>2, <2>4, <2>5, <2>6, <2>7, HearsView DEF GoodStream
<1>4. CASE ~(Len(x.queue) < MaxQueue)
  <2>1. PICK z : z = [x EXCEPT !.missed = TRUE,
                               !.ghosts = x.ghosts \/ e.kind \in {"connect", "disconnect"}]
    OBVIOUS
  <2>2. Disc!Offer(x, e) = z
    BY <1>1, <1>4, <2>1 DEF Disc!Offer, StreamRecords
  <2>3. /\ z \in StreamRecords /\ z.open /\ z.queue = x.queue /\ z.missed
        /\ z.ghosts <=> x.ghosts \/ e.kind \in {"connect", "disconnect"}
        /\ z.here = x.here /\ z.held = x.held
    BY <1>1, <2>1 DEF StreamRecords
  <2>4. Learns(View(z), z.queue, y)
    BY <1>2, <2>3 DEF View
  <2>5. Told(z, y, A2, T2, B2)
    BY <1>2, <2>3 DEF Told, Tells
  <2>6. QED
    BY <1>1, <2>2, <2>3, <2>4, <2>5 DEF GoodStream
<1>5. QED
  BY <1>3, <1>4

\* What Offered computes: there is such a function, whatever the events.
LEMMA OfferedIs ==
  ASSUME NEW x, NEW events \in Seq(Events)
  PROVE  \E f : /\ f[0] = x /\ Disc!Offered(x, events) = f[Len(events)]
                /\ \A i \in 1..Len(events) : f[i] = Disc!Offer(f[i - 1], events[i])
<1> DEFINE Goes(f, n) ==
      f = [i \in 0..n |-> IF i = 0 THEN x ELSE Disc!Offer(f[i - 1], events[i])]
           bad == {n \in Nat : ~\E f : Goes(f, n)}
<1>1. bad = {}
  <2>1. SUFFICES ASSUME bad # {} PROVE FALSE
    OBVIOUS
  <2>2. PICK n \in bad : \A m \in bad : n <= m
    BY <2>1, LeastNumber
  <2>3. CASE n = 0
    <3>1. Goes([i \in 0..0 |-> x], 0)
      OBVIOUS
    <3>2. QED
      BY <2>3, <3>1
  <2>4. CASE n # 0
    <3>1. n - 1 \in Nat /\ ~(n <= n - 1) /\ n \in Nat
      BY <2>4
    <3>2. PICK f : Goes(f, n - 1)
      BY <2>2, <3>1
    <3> DEFINE g == [i \in 0..n |-> IF i = n THEN Disc!Offer(f[n - 1], events[n]) ELSE f[i]]
    <3>3. \A i \in 0..(n - 1) : g[i] = f[i]
      BY <3>1
    <3>4. g[n] = Disc!Offer(g[n - 1], events[n])
      BY <3>1, <3>3
    <3>5. ASSUME NEW i \in 0..n
          PROVE  g[i] = IF i = 0 THEN x ELSE Disc!Offer(g[i - 1], events[i])
      <4>1. CASE i = n
        BY <2>4, <3>4, <4>1
      <4>2. CASE i # n /\ i # 0
        <5>1. i \in 0..(n - 1) /\ i - 1 \in 0..(n - 1)
          BY <3>1, <4>2
        <5>2. f[i] = Disc!Offer(f[i - 1], events[i])
          BY <3>2, <4>2, <5>1
        <5>3. QED
          BY <3>3, <4>2, <5>1, <5>2
      <4>3. CASE i # n /\ i = 0
        BY <3>1, <3>2, <3>3, <4>3
      <4>4. QED
        BY <4>1, <4>2, <4>3
    <3>6. Goes(g, n)
      BY <3>5
    <3>7. QED
      BY <3>6
  <2>5. QED
    BY <2>3, <2>4
<1>2. PICK n \in Nat : n = Len(events)
  BY LenProperties
<1> DEFINE f == CHOOSE f : Goes(f, n)
<1>3. Goes(f, n)
  BY <1>1
<1>4. Disc!Offered(x, events) = f[n]
  BY <1>2 DEF Disc!Offered
<1> HIDE DEF f
<1>5. f[0] = x /\ \A i \in 1..n : f[i] = Disc!Offer(f[i - 1], events[i])
  BY <1>3
<1>6. QED
  BY <1>2, <1>4, <1>5

\* Events that tell, one by one, of the changes from A[0], T[0] and B[0] on.
LEMMA OfferedGood ==
  ASSUME NEW x, NEW events \in Seq(Events), NEW n \in Nat, n = Len(events),
         NEW A, NEW T, NEW B, GoodStream(x, A[0], T[0], B[0]),
         \A i \in 1..n : Tells(events[i], A[i - 1], T[i - 1], B[i - 1], A[i], T[i], B[i])
  PROVE  GoodStream(Disc!Offered(x, events), A[n], T[n], B[n])
<1>1. PICK f : /\ f[0] = x /\ Disc!Offered(x, events) = f[n]
               /\ \A i \in 1..n : f[i] = Disc!Offer(f[i - 1], events[i])
  BY OfferedIs
<1> DEFINE bad == {i \in 0..n : ~GoodStream(f[i], A[i], T[i], B[i])}
<1>2. bad = {}
  <2>1. SUFFICES ASSUME bad # {} PROVE FALSE
    OBVIOUS
  <2>2. PICK i \in bad : \A j \in bad : i <= j
    <3>1. bad \in SUBSET Nat
      OBVIOUS
    <3> HIDE DEF bad
    <3>2. QED
      BY <2>1, <3>1, LeastNumber
  <2>3. i # 0
    BY <1>1
  <2>4. i \in 1..n /\ i - 1 \in 0..n /\ ~(i <= i - 1)
    BY <2>3
  <2>5. GoodStream(f[i - 1], A[i - 1], T[i - 1], B[i - 1])
    BY <2>2, <2>4
  <2>6. events[i] \in Events
    BY <2>4, LenProperties
  <2>7. GoodStream(f[i], A[i], T[i], B[i])
    BY <1>1, <2>4, <2>5, <2>6, OfferGood
  <2>8. QED
    BY <2>7
<1>3. n \in 0..n
  OBVIOUS
<1>4. QED
  BY <1>1, <1>2, <1>3

-----------------------------------------------------------------------------
(* What the events of the service tell. *)

\* A connect event lists those who are tracked, with the new one or without.
LEMMA ConnectTells ==
  ASSUME NEW s \in Controllers, NEW A, NEW T, NEW A2, NEW T2 \in SUBSET Controllers,
         A2 \subseteq (A \cup {s}) \cap T2,
         NEW B \in [Controllers -> SUBSET Buttons], \A u \in Controllers \ T2 : B[u] = {}
  PROVE  /\ Disc!Event("connect", s, None, T2) \in Events
         /\ Tells(Disc!Event("connect", s, None, T2), A, T, B, A2, T2, B)
<1>1. PICK e : e = Disc!Event("connect", s, None, T2)
  OBVIOUS
<1>2. e = [kind |-> "connect", serial |-> s, button |-> None, all |-> T2]
  BY <1>1 DEF Disc!Event
<1>3. e.kind = "connect" /\ e.serial = s /\ e.all = T2 /\ e \in Events
  BY <1>2 DEF Events
<1>4. ASSUME NEW y \in Views
      PROVE  /\ Disc!Hears(y, e).here = IF T2 = {} THEN y.here \cup {s}
                                        ELSE (y.here \cup {s}) \cap T2
             /\ y.held = B => Disc!Hears(y, e).held = B
  <2>1. PICK rest : rest = IF T2 = {} THEN y.here \cup {s} ELSE (y.here \cup {s}) \cap T2
    OBVIOUS
  <2>2. PICK held : held = [u \in Controllers |->
            IF u \in (y.here \cup (y.here \cup {s})) \ rest THEN {} ELSE y.held[u]]
    OBVIOUS
  <2>3. Disc!Hears(y, e) = [y EXCEPT !.here = rest, !.held = held]
    BY <1>3, <2>1, <2>2 DEF Disc!Hears
  <2>4. Disc!Hears(y, e).here = rest /\ Disc!Hears(y, e).held = held
    BY <2>3 DEF Views
  <2>5. y.held = B => held = B
    BY <2>1, <2>2
  <2>6. QED
    BY <2>1, <2>4, <2>5
<1>5. Tells(e, A, T, B, A2, T2, B)
  BY <1>3, <1>4 DEF Tells
<1>6. QED
  BY <1>1, <1>3, <1>5

\* A disconnect event lists those who are left.
LEMMA DisconnectTells ==
  ASSUME NEW T \in SUBSET Controllers, NEW s \in T,
         NEW B \in [Controllers -> SUBSET Buttons], \A u \in Controllers \ T : B[u] = {},
         NEW T2, T2 = T \ {s}, NEW B2, B2 = [u \in Controllers |-> IF u = s THEN {} ELSE B[u]]
  PROVE  /\ Disc!Event("disconnect", s, None, T2) \in Events
         /\ Tells(Disc!Event("disconnect", s, None, T2), T, T, B, T2, T2, B2)
<1>1. PICK e : e = Disc!Event("disconnect", s, None, T2)
  OBVIOUS
<1>2. e = [kind |-> "disconnect", serial |-> s, button |-> None, all |-> T2]
  BY <1>1 DEF Disc!Event
<1>3. e.kind = "disconnect" /\ e.serial = s /\ e.all = T2 /\ e \in Events
  BY <1>2 DEF Events
<1>4. ASSUME NEW y \in Views
      PROVE  /\ Disc!Hears(y, e).here = IF T2 = {} THEN y.here \ {s} ELSE (y.here \ {s}) \cap T2
             /\ T \subseteq y.here /\ y.held = B => Disc!Hears(y, e).held = B2
  <2>1. PICK rest : rest = IF T2 = {} THEN y.here \ {s} ELSE (y.here \ {s}) \cap T2
    OBVIOUS
  <2>2. PICK held : held = [u \in Controllers |->
            IF u \in (y.here \cup (y.here \ {s})) \ rest THEN {} ELSE y.held[u]]
    OBVIOUS
  <2>3. Disc!Hears(y, e) = [y EXCEPT !.here = rest, !.held = held]
    BY <1>3, <2>1, <2>2 DEF Disc!Hears
  <2>4. Disc!Hears(y, e).here = rest /\ Disc!Hears(y, e).held = held
    BY <2>3 DEF Views
  <2>5. ASSUME T \subseteq y.here, y.held = B PROVE held = B2
    <3>1. ASSUME NEW u \in Controllers PROVE held[u] = B2[u]
      <4>1. u \in (y.here \cup (y.here \ {s})) \ rest <=> u \in y.here /\ (u = s \/ (T2 # {} /\ u \notin T2))
        BY <2>1
      <4>2. u \notin T => B[u] = {}
        OBVIOUS
      <4>3. QED
        BY <2>2, <2>5, <4>1, <4>2
    <3>2. QED
      BY <2>2, <3>1
  <2>6. QED
    BY <2>1, <2>4, <2>5
<1>5. Tells(e, T, T, B, T2, T2, B2)
  BY <1>3, <1>4 DEF Tells
<1>6. QED
  BY <1>1, <1>3, <1>5

\* An event of a button tells of that button.
LEMMA ButtonTells ==
  ASSUME NEW s \in Controllers, NEW b \in Buttons, NEW T, NEW k \in {"press", "release"},
         NEW B \in [Controllers -> SUBSET Buttons], NEW B2,
         B2 = [B EXCEPT ![s] = IF k = "press" THEN B[s] \cup {b} ELSE B[s] \ {b}]
  PROVE  /\ Disc!Event(k, s, b, {}) \in Events
         /\ Tells(Disc!Event(k, s, b, {}), T, T, B, T, T, B2)
<1>1. PICK e : e = Disc!Event(k, s, b, {})
  OBVIOUS
<1>2. e = [kind |-> k, serial |-> s, button |-> b, all |-> {}]
  BY <1>1 DEF Disc!Event
<1>3. e.kind = k /\ e.serial = s /\ e.button = b /\ e.all = {} /\ e \in Events
  BY <1>2 DEF Events
<1>4. ASSUME NEW y \in Views
      PROVE  Disc!Hears(y, e).here = y.here /\ (y.held = B => Disc!Hears(y, e).held = B2)
  <2>1. PICK held : held = [y.held EXCEPT ![s] = IF k = "press" THEN y.held[s] \cup {b}
                                                 ELSE y.held[s] \ {b}]
    OBVIOUS
  <2>2. Disc!Hears(y, e) = [y EXCEPT !.here = y.here, !.held = held]
    <3>1. CASE k = "press"
      BY <1>3, <2>1, <3>1 DEF Disc!Hears, Views
    <3>2. CASE k = "release"
      BY <1>3, <2>1, <3>2 DEF Disc!Hears, Views
    <3>3. QED
      BY <3>1, <3>2
  <2>3. QED
    BY <2>1, <2>2 DEF Views
<1>5. Tells(e, T, T, B, T, T, B2)
  BY <1>3, <1>4 DEF Tells
<1>6. QED
  BY <1>1, <1>3, <1>5

-----------------------------------------------------------------------------
(* Orders of a set. *)

\* A list is a sequence.
LEMMA ListIsSeq ==
  ASSUME NEW S, NEW n \in Nat, NEW q \in [1..n -> S]
  PROVE  q \in Seq(S) /\ Len(q) = n
  OBVIOUS

\* An order of a finite set has all of it.
LEMMA OrderHasAll ==
  ASSUME NEW S, IsFiniteSet(S), NEW f \in [1..Cardinality(S) -> S],
         \A i, j \in 1..Cardinality(S) : f[i] = f[j] => i = j
  PROVE  \A x \in S : \E i \in 1..Cardinality(S) : f[i] = x
<1>1. PICK n \in Nat : n = Cardinality(S)
  BY FS_CardinalityType
<1>2. IsFiniteSet(1..n) /\ Cardinality(1..n) = n
  BY FS_Interval
<1>3. f \in Injection(1..n, S)
  BY <1>1 DEF Injection, IsInjective
<1>4. f \in Surjection(1..n, S)
  BY <1>1, <1>2, <1>3, FS_Injection
<1>5. QED
  BY <1>1, <1>4 DEF Surjection

\* SetToSeq is an order of a finite set.
LEMMA SetToSeqOrders ==
  ASSUME NEW S, IsFiniteSet(S)
  PROVE  /\ Cardinality(S) \in Nat /\ Disc!SetToSeq(S) \in [1..Cardinality(S) -> S]
         /\ \A i, j \in 1..Cardinality(S) : Disc!SetToSeq(S)[i] = Disc!SetToSeq(S)[j] => i = j
<1>1. PICK n \in Nat : n = Cardinality(S)
  BY FS_CardinalityType
<1>2. PICK f \in [1..n -> S] : \A i, j \in 1..n : f[i] = f[j] => i = j
  BY <1>1, FS_CardinalityType DEF ExistsBijection, Bijection, Injection, IsInjective
<1>3. Disc!Cardinality(S) = n
  BY <1>1 DEF Disc!Cardinality, Cardinality, Disc!IsFiniteSet, IsFiniteSet
<1>4. Disc!IsInjective(f)
  BY <1>2 DEF Disc!IsInjective
<1>5. Disc!SetToSeq(S) \in [1..n -> S] /\ Disc!IsInjective(Disc!SetToSeq(S))
  BY <1>2, <1>3, <1>4 DEF Disc!SetToSeq
<1>6. QED
  BY <1>1, <1>5 DEF Disc!IsInjective

\* SetToSeq has all of a finite set.
LEMMA SetToSeqAll ==
  ASSUME NEW S, IsFiniteSet(S)
  PROVE  \E n \in Nat : /\ Disc!SetToSeq(S) \in [1..n -> S]
                        /\ \A x \in S : \E i \in 1..n : Disc!SetToSeq(S)[i] = x
                        /\ \A i, j \in 1..n : Disc!SetToSeq(S)[i] = Disc!SetToSeq(S)[j] => i = j
<1>1. PICK f : f = Disc!SetToSeq(S)
  OBVIOUS
<1>2. /\ Cardinality(S) \in Nat /\ f \in [1..Cardinality(S) -> S]
      /\ \A i, j \in 1..Cardinality(S) : f[i] = f[j] => i = j
  BY <1>1, SetToSeqOrders
<1>3. \A x \in S : \E i \in 1..Cardinality(S) : f[i] = x
  BY <1>2, OrderHasAll
<1>4. QED
  BY <1>1, <1>2, <1>3

-----------------------------------------------------------------------------
(* The inductive invariant. *)

\* A stream that is open will tell its client who is there; one that is closed
\* is empty, and its client may know of somebody who is gone.
Follows(x, T, B) ==
  IF x.open THEN GoodStream(x, T, T, B)
  ELSE x \in StreamRecords /\ x.queue = <<>> /\ (x.ghosts \/ x.here = {})

\* Whoever is not tracked has no button pressed, and may be in the scan.
ScanInv ==
  /\ trackedControllers \subseteq Controllers
  /\ buttonStates \in [Controllers -> SUBSET Buttons]
  /\ \A s \in Controllers \ trackedControllers : buttonStates[s] = {}
  /\ scan \in [rest : SUBSET Controllers, spawning : Controllers \cup {None}]
  /\ scan.rest \cap trackedControllers = {} /\ scan.spawning \notin scan.rest \cup trackedControllers

StreamsInv ==
  /\ stream \in [Streams -> StreamRecords]
  /\ \A r \in Streams : Follows(stream[r], trackedControllers, buttonStates)

DiscInv == ScanInv /\ StreamsInv

\* An open stream's client will know what the published events tell.
LEMMA PublishKeeps ==
  ASSUME StreamsInv, NEW events \in Seq(Events), NEW n \in Nat, n = Len(events),
         NEW T, NEW B, T[0] = trackedControllers, B[0] = buttonStates,
         \A i \in 1..n : Tells(events[i], T[i - 1], T[i - 1], B[i - 1], T[i], T[i], B[i]),
         Disc!Publish(events), T[n] = trackedControllers', B[n] = buttonStates'
  PROVE  StreamsInv'
<1>1. stream' = [r \in Streams |-> IF stream[r].open THEN Disc!Offered(stream[r], events)
                                   ELSE stream[r]]
  BY DEF Disc!Publish
<1>2. ASSUME NEW r \in Streams
      PROVE  stream'[r] \in StreamRecords /\ Follows(stream'[r], T[n], B[n])
  <2>1. CASE stream[r].open
    <3>1. GoodStream(stream[r], T[0], T[0], B[0])
      BY <2>1 DEF StreamsInv, Follows
    <3>2. GoodStream(Disc!Offered(stream[r], events), T[n], T[n], B[n])
      BY <3>1, OfferedGood
    <3>3. stream'[r] = Disc!Offered(stream[r], events)
      BY <1>1, <2>1
    <3>4. QED
      BY <3>2, <3>3 DEF Follows, GoodStream
  <2>2. CASE ~stream[r].open
    <3>1. stream'[r] = stream[r]
      BY <1>1, <2>2
    <3>2. QED
      BY <2>2, <3>1 DEF StreamsInv, Follows
  <2>3. QED
    BY <2>1, <2>2
<1>3. stream' \in [Streams -> StreamRecords]
  BY <1>1, <1>2
<1>4. QED
  BY <1>2, <1>3 DEF StreamsInv

\* One stream changes, the others do not.
LEMMA OneStream ==
  ASSUME StreamsInv, NEW r \in Streams, NEW x, stream' = [stream EXCEPT ![r] = x],
         Follows(x, trackedControllers, buttonStates), x \in StreamRecords,
         UNCHANGED <<trackedControllers, buttonStates>>
  PROVE  StreamsInv'
<1>1. stream' \in [Streams -> StreamRecords] /\ stream'[r] = x
  BY DEF StreamsInv
<1>2. \A w \in Streams \ {r} : stream'[w] = stream[w]
  BY DEF StreamsInv
<1>3. QED
  BY <1>1, <1>2 DEF StreamsInv

\* A stream that ended leaves nothing in the queue.
LEMMA ClosedFollows ==
  ASSUME NEW x \in StreamRecords, NEW T, NEW B
  PROVE  Disc!Closed(x) \in StreamRecords /\ Follows(Disc!Closed(x), T, B)
<1>1. PICK z : z = [x EXCEPT !.open = FALSE, !.queue = <<>>, !.ghosts = TRUE]
  OBVIOUS
<1>2. z \in StreamRecords /\ z.open = FALSE /\ z.queue = <<>> /\ z.ghosts = TRUE
  BY <1>1, EmptySeq DEF StreamRecords
<1>3. QED
  BY <1>1, <1>2 DEF Disc!Closed, Follows

\* A client joins: it is told of the controllers one by one.
LEMMA SubscribeStep ==
  ASSUME DiscInv, NEW r \in Streams, Disc!Subscribe(r)
  PROVE  DiscInv'
<1>1. PICK x : /\ x = [stream[r] EXCEPT !.open = TRUE, !.held = buttonStates, !.missed = FALSE]
               /\ stream' = [stream EXCEPT ![r] = Disc!Offered(x, Disc!Initial)]
  BY DEF Disc!Subscribe, DiscInv, StreamsInv
<1>2. ~stream[r].open /\ UNCHANGED <<trackedControllers, buttonStates, scan>>
  BY DEF Disc!Subscribe
<1>3. /\ stream[r] \in StreamRecords /\ stream[r].queue = <<>>
      /\ stream[r].ghosts \/ stream[r].here = {}
  BY <1>2 DEF DiscInv, StreamsInv, Follows
<1>4. /\ x \in StreamRecords /\ x.open /\ x.queue = <<>> /\ ~x.missed
      /\ x.ghosts = stream[r].ghosts /\ x.here = stream[r].here /\ x.held = buttonStates
  BY <1>1, <1>3 DEF StreamRecords, DiscInv, ScanInv
<1>5. GoodStream(x, {}, trackedControllers, buttonStates)
  <2>1. View(x) \in Views /\ View(x).here = x.here /\ View(x).held = x.held
    BY <1>4 DEF View, Views, StreamRecords
  <2>2. Learns(View(x), x.queue, View(x))
    BY <1>4, <2>1, LearnsNothing
  <2>3. Told(x, View(x), {}, trackedControllers, buttonStates)
    BY <1>3, <1>4, <2>1 DEF Told
  <2>4. Len(x.queue) <= MaxQueue
    BY <1>4, ServicesConstants
  <2>5. QED
    BY <1>4, <2>1, <2>2, <2>3, <2>4 DEF GoodStream
<1> DEFINE order == Disc!SetToSeq(trackedControllers)
<1>6. IsFiniteSet(trackedControllers)
  BY ServicesConstants, FS_Subset DEF DiscInv, ScanInv
<1>7. PICK n \in Nat : /\ order \in [1..n -> trackedControllers]
                       /\ \A s \in trackedControllers : \E i \in 1..n : order[i] = s
  BY <1>6, SetToSeqAll
<1>8. Disc!Initial = [i \in 1..n |-> Disc!Event("connect", order[i], None, trackedControllers)]
  BY <1>7 DEF Disc!Initial
<1> HIDE DEF order
<1> DEFINE A == [i \in 0..n |-> {order[j] : j \in 1..i}]
           T == [i \in 0..n |-> trackedControllers]
           B == [i \in 0..n |-> buttonStates]
<1>9. ASSUME NEW i \in 1..n
      PROVE  /\ Disc!Initial[i] \in Events
             /\ Tells(Disc!Initial[i], A[i - 1], T[i - 1], B[i - 1], A[i], T[i], B[i])
  <2>1. order[i] \in trackedControllers /\ i - 1 \in 0..n /\ i \in 0..n
    BY <1>7
  <2>2. A[i] \subseteq (A[i - 1] \cup {order[i]}) \cap trackedControllers
    <3>1. ASSUME NEW j \in 1..i PROVE order[j] \in (A[i - 1] \cup {order[i]}) \cap trackedControllers
      <4>1. j \in 1..n /\ (j = i \/ j \in 1..(i - 1))
        OBVIOUS
      <4>2. QED
        BY <1>7, <2>1, <4>1
    <3>2. QED
      BY <2>1, <3>1
  <2>3. Disc!Initial[i] = Disc!Event("connect", order[i], None, trackedControllers)
    BY <1>8
  <2>4. /\ T[i - 1] = trackedControllers /\ T[i] = trackedControllers
        /\ B[i - 1] = buttonStates /\ B[i] = buttonStates
    BY <2>1
  <2>5. /\ order[i] \in Controllers /\ trackedControllers \in SUBSET Controllers
        /\ buttonStates \in [Controllers -> SUBSET Buttons]
        /\ \A u \in Controllers \ trackedControllers : buttonStates[u] = {}
    BY <2>1 DEF DiscInv, ScanInv
  <2> HIDE DEF A, T, B
  <2>6. QED
    BY <2>2, <2>3, <2>4, <2>5, ConnectTells
<1>10. Disc!Initial \in Seq(Events) /\ Len(Disc!Initial) = n
  <2>1. Disc!Initial \in [1..n -> Events]
    BY <1>8, <1>9
  <2>2. QED
    BY <2>1, ListIsSeq
<1>11. /\ A[0] = {} /\ A[n] = trackedControllers
       /\ T[0] = trackedControllers /\ T[n] = trackedControllers
       /\ B[0] = buttonStates /\ B[n] = buttonStates
  <2>1. A[n] = trackedControllers
    BY <1>7
  <2>2. QED
    BY <2>1
<1> HIDE DEF A, T, B
<1>12. GoodStream(Disc!Offered(x, Disc!Initial), A[n], T[n], B[n])
  <2>1. GoodStream(x, A[0], T[0], B[0])
    BY <1>5, <1>11
  <2>2. QED
    BY <1>9, <1>10, <2>1, OfferedGood
<1>13. GoodStream(Disc!Offered(x, Disc!Initial), trackedControllers, trackedControllers, buttonStates)
  BY <1>11, <1>12
<1>14. StreamsInv'
  BY <1>1, <1>2, <1>13, OneStream DEF DiscInv, Follows, GoodStream
<1>15. QED
  BY <1>2, <1>14 DEF DiscInv, ScanInv
\* A stream ends.
LEMMA StreamEndsStep ==
  ASSUME DiscInv, NEW r \in Streams, Disc!StreamEnds(r)
  PROVE  DiscInv'
<1>1. /\ stream' = [stream EXCEPT ![r] = Disc!Closed(stream[r])]
      /\ UNCHANGED <<trackedControllers, buttonStates, scan>>
  BY DEF Disc!StreamEnds, DiscInv, StreamsInv
<1>2. Disc!Closed(stream[r]) \in StreamRecords /\ Follows(Disc!Closed(stream[r]), trackedControllers, buttonStates)
  BY ClosedFollows DEF DiscInv, StreamsInv
<1>3. StreamsInv'
  BY <1>1, <1>2, OneStream DEF DiscInv
<1>4. QED
  BY <1>1, <1>3 DEF DiscInv, ScanInv

\* A client reads the next event.
LEMMA ReadStep ==
  ASSUME DiscInv, NEW r \in Streams, Disc!Read(r)
  PROVE  DiscInv'
<1>1. PICK x : x = stream[r]
  OBVIOUS
<1>2. x \in StreamRecords /\ Follows(x, trackedControllers, buttonStates)
  BY <1>1 DEF DiscInv, StreamsInv
<1>3. x.queue # <<>> /\ UNCHANGED <<trackedControllers, buttonStates, scan>>
  BY <1>1 DEF Disc!Read
<1>4. GoodStream(x, trackedControllers, trackedControllers, buttonStates)
  BY <1>2, <1>3 DEF Follows
<1>5. PICK y \in Views : /\ Learns(View(x), x.queue, y)
                         /\ Told(x, y, trackedControllers, trackedControllers, buttonStates)
  BY <1>4 DEF GoodStream
<1>6. x.queue \in Seq(Events) /\ Head(x.queue) \in Events /\ Tail(x.queue) \in Seq(Events)
      /\ Len(Tail(x.queue)) = Len(x.queue) - 1 /\ Len(x.queue) \in Nat
  BY <1>2, <1>3, HeadTailProperties, LenProperties DEF StreamRecords
<1>7. PICK w : w = Disc!Hears(View(x), Head(x.queue))
  OBVIOUS
<1>8. View(x) \in Views /\ w \in Views /\ Learns(w, Tail(x.queue), y)
  <2>1. View(x) \in Views
    BY <1>2 DEF View, Views, StreamRecords
  <2>2. QED
    BY <1>3, <1>5, <1>6, <1>7, <2>1, HearsView, LearnsLess
<1>9. Disc!Hears(x, Head(x.queue)) = [x EXCEPT !.here = w.here, !.held = w.held]
  BY <1>2, <1>6, <1>7, HearsLikeView
<1>10. PICK z : z = [Disc!Hears(x, Head(x.queue)) EXCEPT !.queue = Tail(x.queue)]
  OBVIOUS
<1>11. /\ z \in StreamRecords /\ z.open = x.open /\ z.queue = Tail(x.queue) /\ View(z) = w
       /\ z.missed = x.missed /\ z.ghosts = x.ghosts
  <2>1. w.here \in SUBSET Controllers /\ w.held \in [Controllers -> SUBSET Buttons]
        /\ w = [here |-> w.here, held |-> w.held]
    BY <1>8 DEF Views
  <2>2. z \in StreamRecords /\ z.open = x.open /\ z.queue = Tail(x.queue)
        /\ z.here = w.here /\ z.held = w.held /\ z.missed = x.missed /\ z.ghosts = x.ghosts
    BY <1>2, <1>6, <1>9, <1>10, <2>1 DEF StreamRecords
  <2>3. QED
    BY <2>1, <2>2 DEF View
<1>12. stream' = [stream EXCEPT ![r] = z]
  BY <1>1, <1>10 DEF Disc!Read
<1>13. GoodStream(z, trackedControllers, trackedControllers, buttonStates)
  <2>1. Told(z, y, trackedControllers, trackedControllers, buttonStates)
    BY <1>5, <1>11 DEF Told
  <2>2. Len(z.queue) <= MaxQueue
    BY <1>4, <1>6, <1>11, ServicesConstants DEF GoodStream
  <2>3. z.open
    BY <1>4, <1>11 DEF GoodStream
  <2>4. QED
    BY <1>5, <1>8, <1>11, <2>1, <2>2, <2>3 DEF GoodStream
<1>14. StreamsInv'
  BY <1>3, <1>11, <1>12, <1>13, OneStream DEF DiscInv, Follows, GoodStream
<1>15. QED
  BY <1>3, <1>14 DEF DiscInv, ScanInv

\* A step of the scan that no client hears of.
LEMMA ScanSteps ==
  ASSUME DiscInv, (\E s \in Controllers : Disc!Spawn(s)) \/ Disc!ScanBreaks
  PROVE  DiscInv'
<1>1. UNCHANGED <<trackedControllers, buttonStates, stream>>
  BY DEF Disc!Spawn, Disc!ScanBreaks
<1>2. StreamsInv'
  BY <1>1 DEF DiscInv, StreamsInv
<1>3. ScanInv'
  <2>1. ASSUME NEW s \in Controllers, Disc!Spawn(s) PROVE ScanInv'
    BY <1>1, <2>1 DEF Disc!Spawn, DiscInv, ScanInv
  <2>2. CASE Disc!ScanBreaks
    BY <1>1, <2>2, ServicesConstants DEF Disc!ScanBreaks, Disc!Idle, DiscInv, ScanInv
  <2>3. QED
    BY <2>1, <2>2
<1>4. QED
  BY <1>2, <1>3 DEF DiscInv

\* A poll: the buttons that changed are reported one by one.
LEMMA PolledStep ==
  ASSUME DiscInv, NEW s \in Controllers, NEW now \in SUBSET Buttons, Disc!Polled(s, now)
  PROVE  DiscInv'
<1>1. /\ s \in trackedControllers /\ Disc!Publish(Disc!Transitions(s, now))
      /\ buttonStates' = [buttonStates EXCEPT ![s] = now]
      /\ UNCHANGED <<trackedControllers, scan>>
  BY DEF Disc!Polled
<1>2. /\ buttonStates \in [Controllers -> SUBSET Buttons]
      /\ \A u \in Controllers \ trackedControllers : buttonStates[u] = {}
  BY DEF DiscInv, ScanInv
<1> DEFINE D == (now \ buttonStates[s]) \cup (buttonStates[s] \ now)
           order == Disc!SetToSeq(D)
<1>3. IsFiniteSet(D) /\ D \subseteq Buttons
  <2>1. D \subseteq Buttons
    BY <1>2
  <2>2. QED
    BY <2>1, ServicesConstants, FS_Subset
<1>4. PICK n \in Nat : order \in [1..n -> D] /\ \A b \in D : \E i \in 1..n : order[i] = b
  <2> HIDE DEF D
  <2>1. QED
    BY <1>3, SetToSeqAll
<1>5. Disc!Transitions(s, now) =
        [i \in 1..n |-> Disc!Event(IF order[i] \in now THEN "press" ELSE "release", s, order[i], {})]
  BY <1>4 DEF Disc!Transitions
<1> HIDE DEF order
<1> DEFINE T == [i \in 0..n |-> trackedControllers]
           P(i) == {b \in Buttons : IF b \in {order[j] : j \in 1..i} THEN b \in now
                                    ELSE b \in buttonStates[s]}
           B == [i \in 0..n |-> [buttonStates EXCEPT ![s] = P(i)]]
<1>6. ASSUME NEW i \in 1..n
      PROVE  /\ Disc!Transitions(s, now)[i] \in Events
             /\ Tells(Disc!Transitions(s, now)[i], T[i - 1], T[i - 1], B[i - 1], T[i], T[i], B[i])
  <2>1. order[i] \in D /\ order[i] \in Buttons /\ i - 1 \in 0..n /\ i \in 0..n
    BY <1>3, <1>4
  <2>2. PICK k \in {"press", "release"} : k = IF order[i] \in now THEN "press" ELSE "release"
    OBVIOUS
  <2>3. P(i) = IF k = "press" THEN P(i - 1) \cup {order[i]} ELSE P(i - 1) \ {order[i]}
    <3>1. \A b : b \in {order[j] : j \in 1..i} <=> b \in {order[j] : j \in 1..(i - 1)} \/ b = order[i]
      <4>1. \A j : j \in 1..i <=> j \in 1..(i - 1) \/ j = i
        OBVIOUS
      <4>2. QED
        BY <4>1
    <3>2. QED
      BY <2>1, <2>2, <3>1
  <2>4. /\ T[i - 1] = trackedControllers /\ T[i] = trackedControllers
        /\ B[i - 1] = [buttonStates EXCEPT ![s] = P(i - 1)]
        /\ B[i] = [buttonStates EXCEPT ![s] = P(i)]
    BY <2>1
  <2>5. P(i - 1) \in SUBSET Buttons /\ P(i) \in SUBSET Buttons
    OBVIOUS
  <2>6. Disc!Transitions(s, now)[i] = Disc!Event(k, s, order[i], {})
    BY <1>5, <2>2
  <2> HIDE DEF T, B, P
  <2>7. B[i - 1] \in [Controllers -> SUBSET Buttons] /\ B[i - 1][s] = P(i - 1)
    BY <1>2, <2>4, <2>5
  <2>8. B[i] = [B[i - 1] EXCEPT ![s] = P(i)]
    BY <1>2, <2>4, <2>5
  <2>9. B[i] = [B[i - 1] EXCEPT ![s] = IF k = "press" THEN B[i - 1][s] \cup {order[i]}
                                       ELSE B[i - 1][s] \ {order[i]}]
    BY <2>3, <2>7, <2>8
  <2>10. LET e == Disc!Event(k, s, order[i], {})
         IN  /\ e \in Events
             /\ Tells(e, trackedControllers, trackedControllers, B[i - 1],
                      trackedControllers, trackedControllers, B[i])
    BY <2>1, <2>2, <2>7, <2>9, ButtonTells
  <2>11. QED
    BY <2>4, <2>6, <2>10
<1>7. Disc!Transitions(s, now) \in Seq(Events) /\ Len(Disc!Transitions(s, now)) = n
  <2>1. Disc!Transitions(s, now) \in [1..n -> Events]
    BY <1>5, <1>6
  <2>2. QED
    BY <2>1, ListIsSeq
<1>8. T[0] = trackedControllers /\ T[n] = trackedControllers
  OBVIOUS
<1>9. B[0] = buttonStates
  <2>1. P(0) = buttonStates[s]
    BY <1>2
  <2>2. 0 \in 0..n
    OBVIOUS
  <2> HIDE DEF P
  <2>3. B[0] = [buttonStates EXCEPT ![s] = P(0)]
    BY <2>2
  <2> HIDE DEF B
  <2>4. B[0] = [buttonStates EXCEPT ![s] = buttonStates[s]]
    BY <2>1, <2>3
  <2>5. QED
    BY <1>2, <2>4
<1>10. B[n] = buttonStates'
  <2>1. \A b \in Buttons : b \notin {order[j] : j \in 1..n} => (b \in now <=> b \in buttonStates[s])
    BY <1>4
  <2>2. P(n) = now
    BY <2>1
  <2>3. n \in 0..n
    OBVIOUS
  <2> HIDE DEF P
  <2>4. B[n] = [buttonStates EXCEPT ![s] = P(n)]
    BY <2>3
  <2> HIDE DEF B
  <2>5. QED
    BY <1>1, <2>2, <2>4
<1> HIDE DEF T, B, P, D
<1>11. StreamsInv'
  <2>1. T[n] = trackedControllers'
    BY <1>1, <1>8
  <2>2. StreamsInv
    BY DEF DiscInv
  <2>3. QED
    BY <1>1, <1>6, <1>7, <1>8, <1>9, <1>10, <2>1, <2>2, PublishKeeps
<1>12. ScanInv'
  BY <1>1 DEF DiscInv, ScanInv
<1>13. QED
  BY <1>11, <1>12 DEF DiscInv

\* The back end's answer: those who are gone are reported one by one.
LEMMA AnswerStep ==
  ASSUME DiscInv, NEW found \in SUBSET Controllers, Disc!Answer(found)
  PROVE  DiscInv'
<1> DEFINE gone == trackedControllers \ found
<1>1. /\ trackedControllers' = trackedControllers \cap found
      /\ buttonStates' = [s \in Controllers |-> IF s \in gone THEN {} ELSE buttonStates[s]]
      /\ scan' = [Disc!Idle EXCEPT !.rest = found \ trackedControllers]
  BY DEF Disc!Answer
<1>2. PICK order \in Disc!SetToSeqs(gone) : Disc!Publish(Disc!Departures(order))
  BY DEF Disc!Answer
<1>3. /\ trackedControllers \subseteq Controllers /\ buttonStates \in [Controllers -> SUBSET Buttons]
      /\ \A u \in Controllers \ trackedControllers : buttonStates[u] = {}
  BY DEF DiscInv, ScanInv
<1>4. PICK n \in Nat : /\ order \in [1..n -> gone]
                       /\ \A i, j \in 1..n : order[i] = order[j] => i = j
                       /\ \A s \in gone : \E k \in 1..n : order[k] = s
  <2>1. IsFiniteSet(gone)
    BY <1>3, ServicesConstants, FS_Subset
  <2> HIDE DEF gone
  <2>2. PICK n \in Nat : n = Cardinality(gone)
    BY <2>1, FS_CardinalityType
  <2>3. Disc!Cardinality(gone) = n
    BY <2>2 DEF Disc!Cardinality, Cardinality, Disc!IsFiniteSet, IsFiniteSet
  <2>4. order \in [1..n -> gone] /\ \A i, j \in 1..n : order[i] = order[j] => i = j
    BY <1>2, <2>3 DEF Disc!SetToSeqs, Disc!IsInjective
  <2>5. QED
    BY <2>1, <2>2, <2>4, OrderHasAll
<1> DEFINE Left(i) == trackedControllers \ {order[j] : j \in 1..i}
           T == [i \in 0..n |-> Left(i)]
           B == [i \in 0..n |-> [u \in Controllers |-> IF u \in {order[j] : j \in 1..i} THEN {}
                                                        ELSE buttonStates[u]]]
<1>5. Disc!Departures(order) = [i \in 1..n |-> Disc!Event("disconnect", order[i], None, Left(i))]
  BY <1>4 DEF Disc!Departures
<1>6. ASSUME NEW i \in 1..n
      PROVE  /\ Disc!Departures(order)[i] \in Events
             /\ Tells(Disc!Departures(order)[i], T[i - 1], T[i - 1], B[i - 1], T[i], T[i], B[i])
  <2>1. order[i] \in trackedControllers /\ i - 1 \in 0..n /\ i \in 0..n
    BY <1>4
  <2>2. \A u : u \in {order[j] : j \in 1..i} <=> u \in {order[j] : j \in 1..(i - 1)} \/ u = order[i]
    <3>1. \A j : j \in 1..i <=> j \in 1..(i - 1) \/ j = i
      OBVIOUS
    <3>2. QED
      BY <3>1
  <2>3. order[i] \notin {order[j] : j \in 1..(i - 1)}
    <3>1. \A j \in 1..(i - 1) : j \in 1..n /\ j # i
      OBVIOUS
    <3>2. QED
      BY <1>4, <3>1
  <2>4. T[i - 1] = Left(i - 1) /\ T[i] = Left(i)
    BY <2>1
  <2>5. order[i] \in Left(i - 1) /\ Left(i) = Left(i - 1) \ {order[i]}
    BY <2>1, <2>2, <2>3
  <2>6. Left(i - 1) \in SUBSET Controllers
    BY <1>3
  <2>7. /\ B[i - 1] \in [Controllers -> SUBSET Buttons]
        /\ \A u \in Controllers : B[i - 1][u] = IF u \in {order[j] : j \in 1..(i - 1)} THEN {}
                                                ELSE buttonStates[u]
    BY <1>3, <2>1
  <2>8. \A u \in Controllers \ Left(i - 1) : B[i - 1][u] = {}
    BY <1>3, <2>7
  <2>9. B[i] = [u \in Controllers |-> IF u = order[i] THEN {} ELSE B[i - 1][u]]
    <3>1. B[i] = [u \in Controllers |-> IF u \in {order[j] : j \in 1..i} THEN {} ELSE buttonStates[u]]
      BY <2>1
    <3> HIDE DEF B
    <3>2. QED
      BY <2>2, <2>7, <3>1
  <2>10. Disc!Departures(order)[i] = Disc!Event("disconnect", order[i], None, Left(i))
    BY <1>5
  <2> HIDE DEF T, B, Left
  <2>11. LET e == Disc!Event("disconnect", order[i], None, Left(i))
         IN  /\ e \in Events
             /\ Tells(e, Left(i - 1), Left(i - 1), B[i - 1], Left(i), Left(i), B[i])
    BY <2>5, <2>6, <2>7, <2>8, <2>9, DisconnectTells
  <2>12. QED
    BY <2>4, <2>10, <2>11
<1>7. Disc!Departures(order) \in Seq(Events) /\ Len(Disc!Departures(order)) = n
  <2>1. Disc!Departures(order) \in [1..n -> Events]
    BY <1>5, <1>6
  <2>2. QED
    BY <2>1, ListIsSeq
<1>8. T[0] = trackedControllers /\ B[0] = buttonStates
  <2>1. Left(0) = trackedControllers
    OBVIOUS
  <2>2. B[0] = [u \in Controllers |-> buttonStates[u]]
    OBVIOUS
  <2>3. QED
    BY <1>3, <2>1, <2>2
<1>9. T[n] = trackedControllers' /\ B[n] = buttonStates'
  <2>1. {order[j] : j \in 1..n} = gone
    BY <1>4
  <2>2. Left(n) = trackedControllers'
    BY <1>1, <2>1
  <2>3. n \in 0..n
    OBVIOUS
  <2>4. T[n] = Left(n)
    BY <2>3
  <2>5. B[n] = [u \in Controllers |-> IF u \in {order[j] : j \in 1..n} THEN {} ELSE buttonStates[u]]
    BY <2>3
  <2>6. B[n] = buttonStates'
    BY <1>1, <2>1, <2>5
  <2>7. QED
    BY <2>2, <2>4, <2>6
<1>10. ScanInv'
  <2>1. scan' = [rest |-> found \ trackedControllers, spawning |-> None]
    BY <1>1 DEF Disc!Idle
  <2>2. buttonStates' \in [Controllers -> SUBSET Buttons]
    BY <1>1, <1>3
  <2>3. \A u \in Controllers \ trackedControllers' : buttonStates'[u] = {}
    BY <1>1, <1>3
  <2>4. QED
    <3>1. trackedControllers' \subseteq Controllers
      BY <1>1, <1>3
    <3>2. scan' \in [rest : SUBSET Controllers, spawning : Controllers \cup {None}]
      BY <2>1
    <3>3. scan'.rest \cap trackedControllers' = {}
      BY <1>1, <2>1
    <3>4. scan'.spawning = None /\ None \notin scan'.rest \cup trackedControllers'
      BY <3>1, <3>2, <2>1, ServicesConstants
    <3>5. QED
      BY <2>2, <2>3, <3>1, <3>2, <3>3, <3>4 DEF ScanInv
<1> HIDE DEF T, B, Left, gone
<1>11. StreamsInv'
  <2>1. StreamsInv
    BY DEF DiscInv
  <2>2. QED
    BY <1>2, <1>6, <1>7, <1>8, <1>9, <2>1, PublishKeeps
<1>12. QED
  BY <1>10, <1>11 DEF DiscInv

\* A new controller is announced, tracked or not.
LEMMA SpawnedStep ==
  ASSUME DiscInv, Disc!Spawned
  PROVE  DiscInv'
<1>1. PICK s : s = scan.spawning
  OBVIOUS
<1>2. /\ s \in Controllers /\ s \notin scan.rest \cup trackedControllers
      /\ trackedControllers \in SUBSET Controllers
      /\ buttonStates \in [Controllers -> SUBSET Buttons]
      /\ \A u \in Controllers \ trackedControllers : buttonStates[u] = {}
  BY <1>1 DEF Disc!Spawned, DiscInv, ScanInv
<1>3. PICK T2 \in SUBSET Controllers : T2 = trackedControllers'
  BY <1>1, <1>2 DEF Disc!Spawned
<1>4. T2 = trackedControllers \cup {s} \/ T2 = trackedControllers
  BY <1>1, <1>3 DEF Disc!Spawned
<1>5. PICK e : e = Disc!Event("connect", s, None, T2)
  OBVIOUS
<1>6. Disc!Publish(<<e>>) /\ scan' = [scan EXCEPT !.spawning = None]
      /\ UNCHANGED buttonStates
  BY <1>1, <1>3, <1>5 DEF Disc!Spawned
<1> DEFINE T == [i \in 0..1 |-> IF i = 0 THEN trackedControllers ELSE T2]
           B == [i \in 0..1 |-> buttonStates]
<1>7. /\ T[0] = trackedControllers /\ T[1] = T2
      /\ B[0] = buttonStates /\ B[1] = buttonStates
  OBVIOUS
<1> HIDE DEF T, B
<1>8. e \in Events /\ Tells(e, trackedControllers, trackedControllers, buttonStates, T2, T2, buttonStates)
  <2>1. T2 \subseteq (trackedControllers \cup {s}) \cap T2
    BY <1>4
  <2>2. \A u \in Controllers \ T2 : buttonStates[u] = {}
    BY <1>2, <1>4
  <2>3. QED
    BY <1>2, <1>5, <2>1, <2>2, ConnectTells
<1>9. <<e>> \in Seq(Events) /\ Len(<<e>>) = 1 /\ <<e>>[1] = e
  BY <1>8
<1>10. \A i \in 1..1 : Tells(<<e>>[i], T[i - 1], T[i - 1], B[i - 1], T[i], T[i], B[i])
  <2>1. ASSUME NEW i \in 1..1
        PROVE  Tells(<<e>>[i], T[i - 1], T[i - 1], B[i - 1], T[i], T[i], B[i])
    <3>1. i = 1 /\ i - 1 = 0
      OBVIOUS
    <3>2. QED
      BY <1>7, <1>8, <1>9, <3>1
  <2>2. QED
    BY <2>1
<1>11. StreamsInv'
  <2>1. PICK q \in Seq(Events) : q = <<e>>
    BY <1>9
  <2>2. StreamsInv /\ 1 \in Nat /\ Len(q) = 1 /\ Disc!Publish(q)
    BY <1>6, <1>9, <2>1 DEF DiscInv
  <2>3. \A i \in 1..1 : Tells(q[i], T[i - 1], T[i - 1], B[i - 1], T[i], T[i], B[i])
    BY <1>10, <2>1
  <2>4. T[1] = trackedControllers' /\ B[1] = buttonStates'
    BY <1>3, <1>6, <1>7
  <2>5. QED
    BY <1>7, <2>2, <2>3, <2>4, PublishKeeps
<1>12. ScanInv'
  <2>1. scan' \in [rest : SUBSET Controllers, spawning : Controllers \cup {None}]
        /\ scan'.rest = scan.rest /\ scan'.spawning = None
    BY <1>6 DEF DiscInv, ScanInv
  <2>2. scan'.rest \cap T2 = {} /\ None \notin scan'.rest \cup T2
    BY <1>2, <1>4, <2>1, ServicesConstants DEF DiscInv, ScanInv
  <2>3. \A u \in Controllers \ T2 : buttonStates'[u] = {}
    BY <1>2, <1>4, <1>6
  <2>4. QED
    BY <1>2, <1>3, <1>6, <2>1, <2>2, <2>3 DEF ScanInv
<1>13. QED
  BY <1>11, <1>12 DEF DiscInv

\* A restart ends every stream.
LEMMA RestartStep ==
  ASSUME DiscInv, Disc!Restart
  PROVE  DiscInv'
<1>1. /\ trackedControllers' = {} /\ buttonStates' = Disc!Released /\ scan' = Disc!Idle
      /\ stream' = [r \in Streams |-> IF stream[r].open THEN Disc!Closed(stream[r]) ELSE stream[r]]
  BY DEF Disc!Restart
<1>2. ScanInv'
  BY <1>1, ServicesConstants DEF ScanInv, Disc!Released, Disc!Idle
<1>3. ASSUME NEW r \in Streams
      PROVE  stream'[r] \in StreamRecords /\ Follows(stream'[r], trackedControllers', buttonStates')
  <2>1. stream[r] \in StreamRecords /\ Follows(stream[r], trackedControllers, buttonStates)
    BY DEF DiscInv, StreamsInv
  <2>2. CASE stream[r].open
    <3>1. stream'[r] = Disc!Closed(stream[r])
      BY <1>1, <2>2
    <3>2. QED
      BY <2>1, <3>1, ClosedFollows
  <2>3. CASE ~stream[r].open
    <3>1. stream'[r] = stream[r]
      BY <1>1, <2>3
    <3>2. QED
      BY <2>1, <2>3, <3>1 DEF Follows
  <2>4. QED
    BY <2>2, <2>3
<1>4. StreamsInv'
  <2>1. stream' \in [Streams -> StreamRecords]
    BY <1>1, <1>3
  <2>2. QED
    BY <1>3, <2>1 DEF StreamsInv
<1>5. QED
  BY <1>2, <1>4 DEF DiscInv

\* Nobody is there at first, and no stream is open.
LEMMA DiscoveryInit ==
  ASSUME Disc!Init
  PROVE  DiscInv
<1>1. ScanInv
  BY ServicesConstants DEF ScanInv, Disc!Init, Disc!Released, Disc!Idle
<1>2. PICK x : x = [open |-> FALSE, queue |-> <<>>, here |-> {}, held |-> Disc!Released,
                    missed |-> FALSE, ghosts |-> FALSE]
  OBVIOUS
<1>3. x \in StreamRecords /\ x.open = FALSE /\ x.queue = <<>> /\ x.here = {}
  BY <1>2, EmptySeq DEF StreamRecords, Disc!Released
<1>4. stream = [r \in Streams |-> x]
  BY <1>2 DEF Disc!Init
<1>5. StreamsInv
  BY <1>3, <1>4 DEF StreamsInv, Follows
<1>6. QED
  BY <1>1, <1>5 DEF DiscInv

\* Every step of discovery and of its clients keeps the invariant.
LEMMA DiscoveryStep ==
  ASSUME DiscInv, Disc!Next
  PROVE  DiscInv'
<1>1. ASSUME NEW r \in Streams, Disc!Subscribe(r) \/ Disc!StreamEnds(r) \/ Disc!Read(r)
      PROVE  DiscInv'
  BY <1>1, SubscribeStep, StreamEndsStep, ReadStep
<1>2. ASSUME NEW s \in Controllers, NEW now \in SUBSET Buttons, Disc!Polled(s, now)
      PROVE  DiscInv'
  BY <1>2, PolledStep
<1>3. ASSUME NEW found \in SUBSET Controllers, Disc!Answer(found)
      PROVE  DiscInv'
  BY <1>3, AnswerStep
<1>4. CASE (\E s \in Controllers : Disc!Spawn(s)) \/ Disc!ScanBreaks
  BY <1>4, ScanSteps
<1>5. CASE Disc!Spawned
  BY <1>5, SpawnedStep
<1>6. CASE Disc!Restart
  BY <1>6, RestartStep
<1>7. QED
  BY <1>1, <1>2, <1>3, <1>4, <1>5, <1>6 DEF Disc!Next

\* The invariant of discovery holds, whichever part is followed.
THEOREM DiscoveryInvariance == Spec => []DiscInv
<1>1. Init => DiscInv
  BY DiscoveryInit DEF Init
<1>2. DiscInv /\ [Next]_servicesVars => DiscInv'
  <2>1. SUFFICES ASSUME DiscInv, [Next]_servicesVars PROVE DiscInv'
    OBVIOUS
  <2>2. CASE Disc!Next
    BY <2>1, <2>2, DiscoveryStep
  <2>3. CASE UNCHANGED newsVars
    <3>1. UNCHANGED <<trackedControllers, buttonStates, scan, stream>>
      BY <2>3 DEF newsVars
    <3>2. QED
      BY <2>1, <3>1 DEF DiscInv, ScanInv, StreamsInv
  <2>4. Disc!Next \/ UNCHANGED newsVars
    BY <2>1 DEF Next, servicesVars, LightsOnly, BackOnly, HidOnly, SoundOnly
  <2>5. QED
    BY <2>2, <2>3, <2>4
<1>3. QED
  BY <1>1, <1>2, PTL DEF Spec

-----------------------------------------------------------------------------
(* The promise to the clients. *)

\* What Heard computes: there is such a function, whatever the queue.
LEMMA HeardIs ==
  ASSUME NEW x, x.queue \in Seq(Events)
  PROVE  \E f : /\ f[0] = x /\ Disc!Heard(x) = f[Len(x.queue)]
                /\ \A i \in 1..Len(x.queue) : f[i] = Disc!Hears(f[i - 1], x.queue[i])
<1> DEFINE Goes(f, n) ==
      f = [i \in 0..n |-> IF i = 0 THEN x ELSE Disc!Hears(f[i - 1], x.queue[i])]
           bad == {n \in Nat : ~\E f : Goes(f, n)}
<1>1. bad = {}
  <2>1. SUFFICES ASSUME bad # {} PROVE FALSE
    OBVIOUS
  <2>2. PICK n \in bad : \A m \in bad : n <= m
    BY <2>1, LeastNumber
  <2>3. CASE n = 0
    <3>1. Goes([i \in 0..0 |-> x], 0)
      OBVIOUS
    <3>2. QED
      BY <2>3, <3>1
  <2>4. CASE n # 0
    <3>1. n - 1 \in Nat /\ ~(n <= n - 1) /\ n \in Nat
      BY <2>4
    <3>2. PICK f : Goes(f, n - 1)
      BY <2>2, <3>1
    <3> DEFINE g == [i \in 0..n |-> IF i = n THEN Disc!Hears(f[n - 1], x.queue[n]) ELSE f[i]]
    <3>3. \A i \in 0..(n - 1) : g[i] = f[i]
      BY <3>1
    <3>4. g[n] = Disc!Hears(g[n - 1], x.queue[n])
      BY <3>1, <3>3
    <3>5. ASSUME NEW i \in 0..n
          PROVE  g[i] = IF i = 0 THEN x ELSE Disc!Hears(g[i - 1], x.queue[i])
      <4>1. CASE i = n
        BY <2>4, <3>4, <4>1
      <4>2. CASE i # n /\ i # 0
        <5>1. i \in 0..(n - 1) /\ i - 1 \in 0..(n - 1)
          BY <3>1, <4>2
        <5>2. f[i] = Disc!Hears(f[i - 1], x.queue[i])
          BY <3>2, <4>2, <5>1
        <5>3. QED
          BY <3>3, <4>2, <5>1, <5>2
      <4>3. CASE i # n /\ i = 0
        BY <3>1, <3>2, <3>3, <4>3
      <4>4. QED
        BY <4>1, <4>2, <4>3
    <3>6. Goes(g, n)
      BY <3>5
    <3>7. QED
      BY <3>6
  <2>5. QED
    BY <2>3, <2>4
<1>2. PICK n \in Nat : n = Len(x.queue)
  BY LenProperties
<1> DEFINE f == CHOOSE f : Goes(f, n)
<1>3. Goes(f, n)
  BY <1>1
<1>4. Disc!Heard(x) = f[n]
  BY <1>2 DEF Disc!Heard
<1> HIDE DEF f
<1>5. f[0] = x /\ \A i \in 1..n : f[i] = Disc!Hears(f[i - 1], x.queue[i])
  BY <1>3
<1>6. QED
  BY <1>2, <1>4, <1>5

\* What a client knows in the end is the last view of the reading.
LEMMA HeardIsLearnt ==
  ASSUME NEW x \in StreamRecords, NEW y, Learns(View(x), x.queue, y)
  PROVE  View(Disc!Heard(x)) = y /\ Disc!Heard(x).missed = x.missed
         /\ Disc!Heard(x).ghosts = x.ghosts
<1>1. x.queue \in Seq(Events)
  BY DEF StreamRecords
<1>2. PICK n \in Nat : n = Len(x.queue)
  BY <1>1, LenProperties
<1>3. PICK f : /\ f[0] = x /\ Disc!Heard(x) = f[n]
               /\ \A i \in 1..n : f[i] = Disc!Hears(f[i - 1], x.queue[i])
  BY <1>1, <1>2, HeardIs
<1>4. PICK h : Reading(h, View(x), x.queue) /\ h[n] = y
  BY <1>2 DEF Learns
<1>5. /\ h \in [0..n -> Views] /\ h[0] = View(x)
      /\ \A i \in 1..n : h[i] = Disc!Hears(h[i - 1], x.queue[i])
  BY <1>2, <1>4 DEF Reading
<1> DEFINE Agrees(i) == /\ f[i] \in StreamRecords /\ View(f[i]) = h[i]
                        /\ f[i].missed = x.missed /\ f[i].ghosts = x.ghosts
           bad == {i \in 0..n : ~Agrees(i)}
<1>6. bad = {}
  <2>1. SUFFICES ASSUME bad # {} PROVE FALSE
    OBVIOUS
  <2>2. PICK i \in bad : \A j \in bad : i <= j
    <3>1. bad \in SUBSET Nat
      OBVIOUS
    <3> HIDE DEF bad
    <3>2. QED
      BY <2>1, <3>1, LeastNumber
  <2>3. i # 0
    BY <1>3, <1>5
  <2>4. i \in 1..n /\ i - 1 \in 0..n /\ ~(i <= i - 1) /\ i \in 0..n
    BY <2>3
  <2>5. Agrees(i - 1)
    BY <2>2, <2>4
  <2>6. x.queue[i] \in Events
    BY <1>1, <1>2, <2>4, LenProperties
  <2>7. PICK a, b, e : a = f[i - 1] /\ b = f[i] /\ e = x.queue[i]
    OBVIOUS
  <2>8. a \in StreamRecords /\ e \in Events /\ b = Disc!Hears(a, e) /\ View(a) = h[i - 1]
        /\ a.missed = x.missed /\ a.ghosts = x.ghosts
    BY <1>3, <2>4, <2>5, <2>6, <2>7
  <2>9. PICK w : w = Disc!Hears(View(a), e)
    OBVIOUS
  <2>10. w \in Views /\ w = h[i]
    BY <1>5, <2>4, <2>6, <2>7, <2>8, <2>9, HearsView
  <2>11. b = [a EXCEPT !.here = w.here, !.held = w.held]
    BY <2>8, <2>9, HearsLikeView
  <2>12. b \in StreamRecords /\ b.here = w.here /\ b.held = w.held
         /\ b.missed = a.missed /\ b.ghosts = a.ghosts
    BY <2>8, <2>10, <2>11 DEF StreamRecords, Views
  <2>13. View(b) = w
    BY <2>10, <2>12 DEF View, Views
  <2>14. Agrees(i)
    BY <2>7, <2>8, <2>10, <2>12, <2>13
  <2>15. QED
    BY <2>14
<1>7. Agrees(n)
  BY <1>6
<1>8. QED
  BY <1>3, <1>4, <1>7

\* A client of the button events comes to know of every controller that is
\* tracked and of its buttons, unless its queue was full, and of no other while
\* one is tracked, unless it has missed what no list made up for
\* (event_publisher.py, discovery_manager.py, menu/handlers/event_stream.py).
THEOREM ReadersAlwaysKnow == Spec => []ReadersKnowWhoIsThere
<1>1. DiscInv => ReadersKnowWhoIsThere
  <2>1. SUFFICES ASSUME DiscInv, NEW r \in Streams, stream[r].open
                 PROVE  LET x == Disc!Heard(stream[r]) IN
                        /\ ~x.missed => /\ trackedControllers \subseteq x.here
                                        /\ \A s \in trackedControllers : x.held[s] = buttonStates[s]
                        /\ ~x.ghosts /\ trackedControllers # {} => x.here \subseteq trackedControllers
    BY DEF ReadersKnowWhoIsThere, Disc!ReadersKnowWhoIsThere
  <2>2. PICK x \in StreamRecords : x = stream[r]
    BY <2>1 DEF DiscInv, StreamsInv
  <2>3. GoodStream(x, trackedControllers, trackedControllers, buttonStates)
    BY <2>1, <2>2 DEF DiscInv, StreamsInv, Follows
  <2>4. PICK y \in Views : /\ Learns(View(x), x.queue, y)
                           /\ Told(x, y, trackedControllers, trackedControllers, buttonStates)
    BY <2>3 DEF GoodStream
  <2>5. PICK z : z = Disc!Heard(x)
    OBVIOUS
  <2>6. View(z) = y /\ z.missed = x.missed /\ z.ghosts = x.ghosts
    BY <2>4, <2>5, HeardIsLearnt
  <2>7. z.here = y.here /\ z.held = y.held
    BY <2>6 DEF View
  <2>8. QED
    BY <2>2, <2>4, <2>5, <2>6, <2>7 DEF Told
<1>2. QED
  BY <1>1, DiscoveryInvariance, PTL

\* The variables of discovery have their types, and no queue outgrows its bound.
THEOREM DiscoveryIsTyped == Spec => [](part = "discovery" => Disc!TypeOK)
<1>1. DiscInv => Disc!TypeOK
  <2>1. SUFFICES ASSUME DiscInv PROVE Disc!TypeOK
    OBVIOUS
  <2>2. ASSUME NEW r \in Streams
        PROVE  Len(stream[r].queue) <= MaxQueue /\ stream[r].here \subseteq Controllers
    <3>1. stream[r] \in StreamRecords
      BY <2>1 DEF DiscInv, StreamsInv
    <3>2. CASE stream[r].open
      BY <2>1, <3>1, <3>2 DEF DiscInv, StreamsInv, Follows, GoodStream, StreamRecords
    <3>3. CASE ~stream[r].open
      <4>1. stream[r].queue = <<>>
        BY <2>1, <3>3 DEF DiscInv, StreamsInv, Follows
      <4>2. QED
        BY <3>1, <4>1, ServicesConstants DEF StreamRecords
    <3>4. QED
      BY <3>2, <3>3
  <2>3. QED
    BY <2>1, <2>2 DEF DiscInv, ScanInv, Disc!TypeOK
<1>2. QED
  BY <1>1, DiscoveryInvariance, PTL
=============================================================================
