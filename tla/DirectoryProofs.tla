--------------------------- MODULE DirectoryProofs ---------------------------
(***************************************************************************)
(* What the map of the PeerManager has to do with the sessions of the      *)
(* network: theorems about the way from a session to the map, through a    *)
(* queue of events that overruns.  And what it has to do with its callers: *)
(* the PeerManager implements the PeerDirectory, so every behaviour of the *)
(* actor, its channels and its loop over the peers is one of a directory   *)
(* that answers each call in one moment.                                   *)
(***************************************************************************)
EXTENDS PeerManagerProofs

-----------------------------------------------------------------------------
(* The queue of events *)

\* Sending e appends it and shifts the older events by d: by one if the oldest is lost.
LEMMA SentShift ==
  ASSUME NEW q \in Seq(Event), Len(q) <= EventCap, NEW e \in Event, listening
  PROVE  \E d \in {0, 1} :
           /\ DOMAIN q = 1..Len(q) /\ Len(q) \in Nat
           /\ DOMAIN Sent(q, e) = 1..(Len(q) + 1 - d)
           /\ Sent(q, e)[Len(q) + 1 - d] = e
           /\ \A i \in 1..(Len(q) - d) : i + d \in DOMAIN q /\ Sent(q, e)[i] = q[i + d]
           /\ \A j \in DOMAIN q : j > d => j - d \in 1..(Len(q) - d) /\ Sent(q, e)[j - d] = q[j]
           /\ d = 1 => q[1].peer \in Dropped(q, e)
<1> DEFINE d == IF Full(q, EventCap) THEN 1 ELSE 0
           r == Sent(q, e)
<1>1. /\ r \in Seq(Event) /\ Len(r) = Len(q) + 1 - d
      /\ \A i \in 1..(Len(q) - d) : r[i] = q[i + d]
      /\ r[Len(q) + 1 - d] = e
  BY PushProperties, SessionsAssumption DEF Sent
<1>2. d = 1 => q[1].peer \in Dropped(q, e)
  <2>1. ASSUME d = 1 PROVE Head(q) = q[1]
    BY <2>1
  <2> QED
    BY <2>1 DEF Dropped
<1>3. d \in {0, 1} /\ Len(q) \in Nat /\ DOMAIN q = 1..Len(q)
  BY LenProperties
<1>4. DOMAIN r = 1..(Len(q) + 1 - d)
  BY <1>1, LenProperties
<1> HIDE DEF d, r
<1>5. \A i \in 1..(Len(q) - d) : i + d \in DOMAIN q
  BY <1>3
<1>6. \A j \in DOMAIN q : j > d => j - d \in 1..(Len(q) - d) /\ r[j - d] = q[j]
  <2> SUFFICES ASSUME NEW j \in DOMAIN q, j > d
               PROVE  j - d \in 1..(Len(q) - d) /\ r[j - d] = q[j]
    OBVIOUS
  <2>1. j - d \in 1..(Len(q) - d) /\ (j - d) + d = j
    BY <1>3
  <2> QED
    BY <1>1, <2>1
<1> QED
  BY <1>1, <1>2, <1>3, <1>4, <1>5, <1>6 DEF r

\* Reading takes the first event and shifts the others by one.
LEMMA ReadShift ==
  ASSUME Base, RecvEvent
  PROVE  /\ DOMAIN events = 1..Len(events) /\ Len(events) \in Nat \ {0}
         /\ Head(events) = events[1] /\ events[1] \in Event
         /\ events[1].kind = "established" => events[1].session \in Nat \ {0}
         /\ DOMAIN events' = 1..(Len(events) - 1)
         /\ \A i \in DOMAIN events' : i + 1 \in DOMAIN events /\ events'[i] = events[i + 1]
         /\ \A j \in DOMAIN events : j > 1 => j - 1 \in DOMAIN events' /\ events'[j - 1] = events[j]
<1>1. events # <<>> /\ events' = Tail(events)
  BY DEF RecvEvent
<1>2. /\ events[1] \in Event /\ Head(events) = events[1] /\ Len(events) \in Nat \ {0}
      /\ events[1].kind = "established" => events[1].session # NoSession
      /\ events' \in Seq(Event) /\ Len(events') = Len(events) - 1
      /\ \A i \in 1..(Len(events) - 1) : events'[i] = events[i + 1]
  BY <1>1, HeadEvent DEF Base
<1>3. DOMAIN events' = 1..(Len(events) - 1) /\ DOMAIN events = 1..Len(events)
  BY <1>2, LenProperties DEF Base, TypeOK, SessionsTypeOK
<1>4. \A j \in DOMAIN events : j > 1 => j - 1 \in DOMAIN events' /\ events'[j - 1] = events[j]
  <2> SUFFICES ASSUME NEW j \in DOMAIN events, j > 1
               PROVE  j - 1 \in DOMAIN events' /\ events'[j - 1] = events[j]
    OBVIOUS
  <2>1. j - 1 \in 1..(Len(events) - 1) /\ (j - 1) + 1 = j
    BY <1>2, <1>3
  <2> QED
    BY <1>2, <1>3, <2>1
<1>5. \A i \in DOMAIN events' : i + 1 \in DOMAIN events /\ events'[i] = events[i + 1]
  BY <1>2, <1>3
<1> QED
  BY <1>2, <1>3, <1>4, <1>5 DEF Event, NoSession

\* What handling an event does to the map.
LEMMA HandledEvent ==
  ASSUME Base, NEW e \in Event, handle_network_event(e)
  PROVE  /\ e.peer \in Peers
         /\ \A p \in Peers : p # e.peer => peers'[p] = peers[p]
         /\ peers'[e.peer] = IF e.kind = "established" THEN e.session ELSE NoSession
<1>1. e.peer \in Peers /\ e.kind \in {"established", "closed", "removed"} /\ peers \in [Peers -> Nat]
  BY DEF Event, Base, TypeOK
<1> QED
  BY <1>1
  DEF handle_network_event, from_session, on_peer_connected, on_peer_removed, mapVars, Connected

-----------------------------------------------------------------------------
(* The sessions of a peer alternate with their ends *)

Opens(e, p) == e.peer = p /\ e.kind = "established"
Ends(e, p) == e.peer = p /\ e.kind # "established"

\* For a peer p with entry m and session s, of which no event was lost: between two
\* announcements in the queue, and between the entry and the first of them, the end
\* of the earlier session is announced, and so is the end of the last one if there is
\* no session now.
Alternates(p, q, m, s) ==
  /\ \A i \in DOMAIN q : Opens(q[i], p) =>
       m = NoSession \/ \E j \in DOMAIN q : j < i /\ Ends(q[j], p)
  /\ \A i, k \in DOMAIN q : i < k /\ Opens(q[i], p) /\ Opens(q[k], p) =>
       \E j \in DOMAIN q : i < j /\ j < k /\ Ends(q[j], p)
  /\ s = NoSession =>
       /\ \A i \in DOMAIN q : Opens(q[i], p) => \E j \in DOMAIN q : i < j /\ Ends(q[j], p)
       /\ m # NoSession => \E j \in DOMAIN q : Ends(q[j], p)

Alternation == \A p \in Peers \ lagged : Alternates(p, events, peers[p], sess[p])

\* What is sent, and what it drops, keeps the reports of a peer in turns.
LEMMA SentAlternates ==
  ASSUME NEW q \in Seq(Event), Len(q) <= EventCap, NEW e \in Event,
         NEW p, NEW m, NEW s, NEW t,
         Alternates(p, q, m, s), p \notin Dropped(q, e),
         Opens(e, p) => s = NoSession,
         t # NoSession \/ Ends(e, p) \/ (e.peer # p /\ t = s)
  PROVE  Alternates(p, Sent(q, e), m, t)
<1>1. CASE ~listening
  BY <1>1 DEF Sent, Dropped, Alternates, Opens, Ends
<1>2. CASE listening
  <2> DEFINE r == Sent(q, e)
  <2>1. PICK d \in {0, 1} :
           /\ DOMAIN q = 1..Len(q) /\ Len(q) \in Nat
           /\ DOMAIN r = 1..(Len(q) + 1 - d)
           /\ r[Len(q) + 1 - d] = e
           /\ \A i \in 1..(Len(q) - d) : i + d \in DOMAIN q /\ r[i] = q[i + d]
           /\ \A j \in DOMAIN q : j > d => j - d \in 1..(Len(q) - d) /\ r[j - d] = q[j]
           /\ d = 1 => q[1].peer \in Dropped(q, e)
    BY <1>2, SentShift
  <2> DEFINE n == Len(q) + 1 - d
  <2>2. n \in Nat /\ DOMAIN r = 1..n /\ n \in DOMAIN r /\ r[n] = e
    <3>1. d = 1 => Len(q) > 0
      BY <1>2, <2>1, SessionsAssumption DEF Dropped, Full
    <3> QED
      BY <2>1, <3>1
  <2>3. \A i \in DOMAIN r : i # n => i + d \in DOMAIN q /\ r[i] = q[i + d] /\ i < n
    BY <2>1
  \* The events about p all stay.
  <2>4. ASSUME NEW j \in DOMAIN q, q[j].peer = p
        PROVE  j - d \in DOMAIN r /\ r[j - d] = q[j] /\ j - d < n
    <3>1. j > d
      BY <2>1, <2>4
    <3> QED
      BY <2>1, <3>1
  <2> HIDE DEF r, n
  <2>5. ASSUME NEW i \in DOMAIN r, Opens(r[i], p)
        PROVE  m = NoSession \/ \E j \in DOMAIN r : j < i /\ Ends(r[j], p)
    <3>1. CASE i = n
      <4>1. s = NoSession
        BY <2>2, <2>5, <3>1
      <4>2. m # NoSession => \E j \in DOMAIN q : Ends(q[j], p)
        BY <4>1 DEF Alternates
      <4> QED
        BY <2>4, <3>1, <4>2 DEF Ends
    <3>2. CASE i # n
      <4>1. i + d \in DOMAIN q /\ r[i] = q[i + d]
        BY <2>3, <3>2
      <4>2. m = NoSession \/ \E j \in DOMAIN q : j < i + d /\ Ends(q[j], p)
        BY <2>5, <4>1 DEF Alternates
      <4>3. ASSUME NEW j \in DOMAIN q, j < i + d, Ends(q[j], p)
            PROVE  j - d \in DOMAIN r /\ j - d < i /\ Ends(r[j - d], p)
        BY <2>1, <2>2, <2>4, <4>3 DEF Ends
      <4> QED
        BY <4>2, <4>3
    <3> QED
      BY <3>1, <3>2
  <2>6. ASSUME NEW i \in DOMAIN r, NEW k \in DOMAIN r, i < k, Opens(r[i], p), Opens(r[k], p)
        PROVE  \E j \in DOMAIN r : i < j /\ j < k /\ Ends(r[j], p)
    <3>0. i # n /\ i + d \in DOMAIN q /\ r[i] = q[i + d]
      BY <2>2, <2>3, <2>6
    <3>1. CASE k = n
      <4>1. s = NoSession
        BY <2>2, <2>6, <3>1
      <4>2. PICK j \in DOMAIN q : i + d < j /\ Ends(q[j], p)
        BY <2>6, <3>0, <4>1 DEF Alternates
      <4>3. j - d \in DOMAIN r /\ i < j - d /\ j - d < k /\ Ends(r[j - d], p)
        BY <2>1, <2>2, <2>4, <3>1, <4>2 DEF Ends
      <4> QED
        BY <4>3
    <3>2. CASE k # n
      <4>1. k + d \in DOMAIN q /\ r[k] = q[k + d] /\ i + d < k + d
        BY <2>1, <2>2, <2>3, <2>6, <3>2
      <4>2. PICK j \in DOMAIN q : i + d < j /\ j < k + d /\ Ends(q[j], p)
        BY <2>6, <3>0, <4>1 DEF Alternates
      <4>3. j - d \in DOMAIN r /\ r[j - d] = q[j]
        BY <2>4, <4>2 DEF Ends
      <4>4. i < j - d /\ j - d < k
        BY <2>1, <2>2, <2>6, <4>2
      <4> QED
        BY <4>2, <4>3, <4>4 DEF Ends
    <3> QED
      BY <3>1, <3>2
  <2>7. CASE t # NoSession
    BY <2>5, <2>6, <2>7 DEF Alternates, r
  <2>8. CASE Ends(e, p)
    <3>1. \A i \in DOMAIN r : Opens(r[i], p) => i < n
      BY <2>2, <2>3, <2>8 DEF Opens, Ends
    <3> QED
      BY <2>2, <2>5, <2>6, <2>8, <3>1 DEF Alternates, r
  <2>9. CASE e.peer # p /\ t = s /\ t = NoSession
    <3>1. ASSUME NEW i \in DOMAIN r, Opens(r[i], p)
          PROVE  \E j \in DOMAIN r : i < j /\ Ends(r[j], p)
      <4>1. i # n /\ i + d \in DOMAIN q /\ r[i] = q[i + d]
        BY <2>2, <2>3, <2>9, <3>1 DEF Opens
      <4>2. PICK j \in DOMAIN q : i + d < j /\ Ends(q[j], p)
        BY <2>9, <3>1, <4>1 DEF Alternates
      <4>3. j - d \in DOMAIN r /\ i < j - d /\ Ends(r[j - d], p)
        BY <2>1, <2>2, <2>4, <4>2 DEF Ends
      <4> QED
        BY <4>3
    <3>2. m # NoSession => \E j \in DOMAIN r : Ends(r[j], p)
      BY <2>4, <2>9 DEF Alternates, Ends
    <3> QED
      BY <2>5, <2>6, <3>1, <3>2 DEF Alternates, r
  <2> QED
    BY <2>7, <2>8, <2>9
<1> QED
  BY <1>1, <1>2

\* Reading an event, or a step of the network, leaves the peers without a loss alternating.
LEMMA AlternationStep ==
  ASSUME Base, Alternation, [Next]_vars
  PROVE  Alternation'
<1>0. /\ events \in Seq(Event) /\ Len(events) <= EventCap
      /\ opened \in Nat /\ peers \in [Peers -> Nat] /\ sess \in [Peers -> Nat]
  BY DEF Base, TypeOK, SessionsTypeOK
<1>1. CASE UNCHANGED <<opened, listening, events, sess, peers, lagged, lost>>
  BY <1>1 DEF Alternation
<1>2. CASE Subscribe
  BY <1>2 DEF Subscribe, mapVars, Alternation
<1>3. CASE RecvEvent
  <2>1. /\ DOMAIN events = 1..Len(events) /\ Len(events) \in Nat \ {0}
        /\ DOMAIN events' = 1..(Len(events) - 1)
        /\ \A i \in DOMAIN events' : i + 1 \in DOMAIN events /\ events'[i] = events[i + 1]
        /\ \A j \in DOMAIN events : j > 1 => j - 1 \in DOMAIN events' /\ events'[j - 1] = events[j]
        /\ Head(events) = events[1] /\ events[1] \in Event
    BY <1>3, ReadShift
  <2> DEFINE e == events[1]
  <2>2. /\ sess' = sess /\ lagged' = lagged
        /\ \A p \in Peers : p # e.peer => peers'[p] = peers[p]
        /\ peers'[e.peer] = IF e.kind = "established" THEN e.session ELSE NoSession
    BY <1>3, <2>1, HandledEvent DEF RecvEvent
  <2> SUFFICES ASSUME NEW p \in Peers \ lagged
               PROVE  Alternates(p, events', peers'[p], sess[p])
    BY <2>2 DEF Alternation
  <2>3. Alternates(p, events, peers[p], sess[p])
    BY DEF Alternation
  <2>4. \A j \in DOMAIN events : Ends(events[j], p) /\ ~Ends(e, p) =>
          j - 1 \in DOMAIN events' /\ Ends(events'[j - 1], p)
    BY <2>1
  <2>5. ASSUME NEW i \in DOMAIN events', Opens(events'[i], p)
        PROVE  peers'[p] = NoSession \/ \E j \in DOMAIN events' : j < i /\ Ends(events'[j], p)
    <3>1. i + 1 \in DOMAIN events /\ Opens(events[i + 1], p)
      BY <2>1, <2>5
    <3>2. CASE Ends(e, p)
      BY <2>2, <3>2 DEF Ends
    <3>3. CASE Opens(e, p)
      <4>1. PICK j \in DOMAIN events : 1 < j /\ j < i + 1 /\ Ends(events[j], p)
        BY <2>1, <2>3, <3>1, <3>3 DEF Alternates
      <4> QED
        BY <2>1, <4>1
    <3>4. CASE e.peer # p
      <4>1. peers[p] = NoSession \/ \E j \in DOMAIN events : j < i + 1 /\ Ends(events[j], p)
        BY <2>3, <3>1 DEF Alternates
      <4>2. ASSUME NEW j \in DOMAIN events, j < i + 1, Ends(events[j], p)
            PROVE  j - 1 \in DOMAIN events' /\ j - 1 < i /\ Ends(events'[j - 1], p)
        BY <2>1, <2>4, <3>4, <4>2 DEF Ends
      <4> QED
        BY <2>2, <3>4, <4>1, <4>2
    <3> QED
      BY <3>2, <3>3, <3>4 DEF Opens, Ends
  <2>6. ASSUME NEW i \in DOMAIN events', NEW k \in DOMAIN events', i < k,
               Opens(events'[i], p), Opens(events'[k], p)
        PROVE  \E j \in DOMAIN events' : i < j /\ j < k /\ Ends(events'[j], p)
    <3>1. PICK j \in DOMAIN events : i + 1 < j /\ j < k + 1 /\ Ends(events[j], p)
      BY <2>1, <2>3, <2>6 DEF Alternates
    <3>2. j - 1 \in DOMAIN events' /\ i < j - 1 /\ j - 1 < k /\ Ends(events'[j - 1], p)
      BY <2>1, <3>1
    <3> QED
      BY <3>2
  <2>7. ASSUME sess[p] = NoSession, NEW i \in DOMAIN events', Opens(events'[i], p)
        PROVE  \E j \in DOMAIN events' : i < j /\ Ends(events'[j], p)
    <3>1. PICK j \in DOMAIN events : i + 1 < j /\ Ends(events[j], p)
      BY <2>1, <2>3, <2>7 DEF Alternates
    <3>2. j - 1 \in DOMAIN events' /\ i < j - 1 /\ Ends(events'[j - 1], p)
      BY <2>1, <3>1
    <3> QED
      BY <3>2
  <2>8. ASSUME sess[p] = NoSession, peers'[p] # NoSession
        PROVE  \E j \in DOMAIN events' : Ends(events'[j], p)
    <3>1. CASE Ends(e, p)
      BY <2>2, <2>8, <3>1 DEF Ends
    <3>2. CASE Opens(e, p)
      <4>1. PICK j \in DOMAIN events : 1 < j /\ Ends(events[j], p)
        BY <2>1, <2>3, <2>8, <3>2 DEF Alternates
      <4> QED
        BY <2>1, <4>1
    <3>3. CASE e.peer # p
      <4>1. PICK j \in DOMAIN events : Ends(events[j], p)
        BY <2>2, <2>3, <2>8, <3>3 DEF Alternates
      <4> QED
        BY <2>4, <3>3, <4>1 DEF Ends
    <3> QED
      BY <3>1, <3>2, <3>3 DEF Opens, Ends
  <2> QED
    BY <2>5, <2>6, <2>7, <2>8 DEF Alternates
<1>4. CASE Evict
  <2>1. \A p \in Peers : peers'[p] \in {peers[p], NoSession}
    BY <1>0, <1>4 DEF Evict, on_peer_removed
  <2>2. UNCHANGED <<events, sess, lagged>>
    BY <1>4 DEF Evict, netVars
  <2> SUFFICES ASSUME NEW p \in Peers \ lagged
               PROVE  Alternates(p, events, peers'[p], sess[p])
    BY <2>2 DEF Alternation
  <2> QED
    BY <2>1 DEF Alternates, Alternation
<1>5. ASSUME NEW x \in Peers, Outside(SessionOpens(x))
      PROVE  Alternation'
  <2> DEFINE e == Established(x, opened + 1)
  <2>1. /\ events' = Sent(events, e) /\ lagged' = lagged \cup Dropped(events, e)
        /\ sess[x] = NoSession /\ sess' = [sess EXCEPT ![x] = opened + 1] /\ peers' = peers
    BY <1>5 DEF Outside, SessionOpens, Notify, Lose, managerVars, mapVars
  <2>2. e \in Event /\ e.peer = x /\ e.kind = "established"
    BY <1>0 DEF Event, Established
  <2> HIDE DEF e
  <2> SUFFICES ASSUME NEW p \in Peers, p \notin lagged, p \notin Dropped(events, e)
               PROVE  Alternates(p, Sent(events, e), peers[p], sess'[p])
    BY <2>1 DEF Alternation
  <2>3. Alternates(p, events, peers[p], sess[p])
    BY DEF Alternation
  <2>4. p = x => sess'[p] # NoSession
    BY <1>0, <2>1 DEF NoSession
  <2>5. p # x => sess'[p] = sess[p]
    BY <1>0, <2>1
  <2> QED
    BY <1>0, <2>1, <2>2, <2>3, <2>4, <2>5, SentAlternates DEF Opens
<1>6. ASSUME NEW x \in Peers, Outside(ReportClosed(x)) \/ Outside(ReportRemoved(x))
      PROVE  Alternation'
  <2> DEFINE c == Closed(x, sess[x])
             r == Removed(x)
             q == Sent(events, c)
             D == Dropped(events, c)
             E == Dropped(q, r)
  <2>1. \/ events' = q /\ lagged' = lagged \cup D
        \/ events' = Sent(q, r) /\ lagged' = lagged \cup D \cup E
    BY <1>6 DEF Outside, ReportClosed, ReportRemoved, Notify, Lose
  <2>2. sess' = [sess EXCEPT ![x] = NoSession] /\ peers' = peers
    BY <1>6 DEF Outside, ReportClosed, ReportRemoved, managerVars, mapVars
  <2>3. c \in Event /\ c.peer = x /\ c.kind = "closed" /\ r \in Event /\ r.peer = x /\ r.kind = "removed"
    BY <1>0 DEF Event, Closed, Removed, NoSession
  <2> HIDE DEF c, r
  <2>4. q \in Seq(Event) /\ Len(q) <= EventCap
    BY <1>0, <2>3, SentEvent
  <2>5. ASSUME NEW p \in Peers, p \notin lagged, p \notin D
        PROVE  Alternates(p, q, peers[p], sess'[p])
    <3>1. Alternates(p, events, peers[p], sess[p])
      BY <2>5 DEF Alternation
    <3>2. Ends(c, p) \/ (c.peer # p /\ sess'[p] = sess[p])
      BY <1>0, <2>2, <2>3 DEF Ends
    <3> QED
      BY <1>0, <2>3, <2>5, <3>1, <3>2, SentAlternates DEF Opens
  <2>6. ASSUME NEW p \in Peers, p \notin lagged, p \notin D, p \notin E
        PROVE  Alternates(p, Sent(q, r), peers[p], sess'[p])
    <3>1. Alternates(p, q, peers[p], sess'[p])
      BY <2>5, <2>6
    <3>2. Ends(r, p) \/ r.peer # p
      BY <2>3 DEF Ends
    <3> HIDE DEF q
    <3> QED
      BY <2>3, <2>4, <2>6, <3>1, <3>2, SentAlternates DEF Opens
  <2> HIDE DEF q, D, E
  <2> QED
    BY <2>1, <2>2, <2>5, <2>6 DEF Alternation
<1> QED
  BY <1>1, <1>2, <1>3, <1>4, <1>5, <1>6, DirectorySteps

\* The sender of a peer in the map is overwritten only after an event about the peer was
\* lost: on_peer_connected (manager.rs:246) inserts without looking, and two
\* PeerConnected in a row tell the Node of a peer it already has.
THEOREM OverwritesFollowLoss == Spec => OverwriteOnlyAfterLag
<1>1. Init => Alternation
  BY DEF Init, SessionsInit, Alternation, Alternates
<1>2. Base /\ Alternation /\ [Next]_vars => Alternation'
  BY AlternationStep
<1>3. ASSUME Base, Alternation, [Next]_vars, NEW p \in Connected, peers'[p] \notin {peers[p], NoSession}
      PROVE  p \in lagged
  <2>1. CASE RecvEvent
    <3>1. /\ DOMAIN events = 1..Len(events) /\ Len(events) \in Nat \ {0}
          /\ Head(events) = events[1] /\ events[1] \in Event
      BY <1>3, <2>1, ReadShift
    <3>2. events[1].peer = p /\ events[1].kind = "established"
      BY <1>3, <2>1, <3>1, HandledEvent DEF RecvEvent, Connected
    <3>3. peers[p] # NoSession /\ p \in Peers /\ 1 \in DOMAIN events /\ ~(\E j \in DOMAIN events : j < 1)
      BY <3>1 DEF Connected
    <3> QED
      BY <1>3, <3>2, <3>3 DEF Alternation, Alternates, Opens
  <2>2. CASE Evict
    BY <1>3, <2>2 DEF Evict, on_peer_removed, Connected, Base, TypeOK
  <2>3. CASE peers' = peers
    BY <1>3, <2>3
  <2> QED
    BY <1>3, <2>1, <2>2, <2>3, DirectorySteps DEF Outside, Subscribe, managerVars, mapVars
<1>4. Base /\ Alternation /\ [Next]_vars
        => [\A p \in Connected : peers'[p] \notin {peers[p], NoSession} => p \in lagged]_vars
  BY <1>3
<1> QED
  BY <1>1, <1>2, <1>4, BaseInvariant, PTL DEF Spec, OverwriteOnlyAfterLag

-----------------------------------------------------------------------------
(* The last word on a peer *)

Silent(p, q) == \A i \in DOMAIN q : q[i].peer # p

\* The session a peer is left with by an event.
Verdict(e) == IF e.kind = "established" THEN e.session ELSE NoSession

\* If the queue speaks of p at all, its last event about p leaves p with session v.
Latest(p, q, v) ==
  \A i \in DOMAIN q :
    q[i].peer = p /\ (\A j \in DOMAIN q : i < j => q[j].peer # p) => Verdict(q[i]) = v

\* The last unread event about a peer tells of its present session; without any, the map
\* has it right already, unless the newest was lost.
Accuracy ==
  /\ \A p \in lost : Silent(p, events)
  /\ \A p \in Peers : Latest(p, events, sess[p])
  /\ DirectoryAccurate

\* No report is about a peer the queue is silent on.
LEMMA AboutSilent == ASSUME NEW p PROVE About(p) = {} <=> Silent(p, events)
BY DEF About, Silent

\* Sending e has the last word on its peer, and leaves the words on the others.
LEMMA SentLatest ==
  ASSUME NEW q \in Seq(Event), Len(q) <= EventCap, NEW e \in Event, NEW p
  PROVE  /\ listening /\ e.peer = p => Latest(p, Sent(q, e), Verdict(e)) /\ ~Silent(p, Sent(q, e))
         /\ e.peer # p => /\ \A v : Latest(p, q, v) => Latest(p, Sent(q, e), v)
                          /\ Silent(p, q) => Silent(p, Sent(q, e))
                          /\ ~Silent(p, q) /\ p \notin Dropped(q, e) => ~Silent(p, Sent(q, e))
<1>1. CASE ~listening
  BY <1>1 DEF Sent
<1>2. CASE listening
  <2> DEFINE r == Sent(q, e)
  <2>1. PICK d \in {0, 1} :
           /\ DOMAIN q = 1..Len(q) /\ Len(q) \in Nat
           /\ DOMAIN r = 1..(Len(q) + 1 - d)
           /\ r[Len(q) + 1 - d] = e
           /\ \A i \in 1..(Len(q) - d) : i + d \in DOMAIN q /\ r[i] = q[i + d]
           /\ \A j \in DOMAIN q : j > d => j - d \in 1..(Len(q) - d) /\ r[j - d] = q[j]
           /\ d = 1 => q[1].peer \in Dropped(q, e)
    BY <1>2, SentShift
  <2> DEFINE n == Len(q) + 1 - d
  <2>2. n \in Nat /\ DOMAIN r = 1..n /\ n \in DOMAIN r /\ r[n] = e
    <3>1. d = 1 => Len(q) > 0
      BY <1>2, <2>1, SessionsAssumption DEF Dropped, Full
    <3> QED
      BY <2>1, <3>1
  <2>3. \A i \in DOMAIN r : i # n => i + d \in DOMAIN q /\ r[i] = q[i + d] /\ i < n
    BY <2>1
  <2>4. \A j \in DOMAIN q : j > d => j - d \in DOMAIN r /\ r[j - d] = q[j] /\ j - d < n
    BY <2>1
  <2> HIDE DEF r, n
  <2>5. ASSUME e.peer = p
        PROVE  Latest(p, r, Verdict(e)) /\ ~Silent(p, r)
    <3>1. ASSUME NEW i \in DOMAIN r, i # n
          PROVE  \E j \in DOMAIN r : i < j /\ r[j].peer = p
      BY <2>2, <2>3, <2>5, <3>1
    <3> QED
      BY <2>2, <2>5, <3>1 DEF Latest, Silent
  <2>6. ASSUME e.peer # p, NEW v, Latest(p, q, v)
        PROVE  Latest(p, r, v)
    <3> SUFFICES ASSUME NEW i \in DOMAIN r, r[i].peer = p,
                        \A j \in DOMAIN r : i < j => r[j].peer # p
                 PROVE  Verdict(r[i]) = v
      BY DEF Latest
    <3>1. i # n /\ i + d \in DOMAIN q /\ r[i] = q[i + d]
      BY <2>2, <2>3, <2>6
    <3>2. ASSUME NEW j \in DOMAIN q, i + d < j
          PROVE  q[j].peer # p
      <4>1. j > d /\ i < j - d
        BY <2>1, <2>2, <3>2
      <4> QED
        BY <2>4, <4>1
    <3> QED
      BY <2>6, <3>1, <3>2 DEF Latest
  <2>7. ASSUME e.peer # p, Silent(p, q)
        PROVE  Silent(p, r)
    BY <2>2, <2>3, <2>7 DEF Silent
  <2>8. ASSUME e.peer # p, ~Silent(p, q), p \notin Dropped(q, e)
        PROVE  ~Silent(p, r)
    <3>1. PICK j \in DOMAIN q : q[j].peer = p
      BY <2>8 DEF Silent
    <3>2. j > d
      BY <2>1, <2>8, <3>1
    <3> QED
      BY <2>4, <3>1, <3>2 DEF Silent
  <2> QED
    BY <2>5, <2>6, <2>7, <2>8 DEF r
<1> QED
  BY <1>1, <1>2

\* Only a handshake brings a session to life.
LEMMA AliveStep ==
  ASSUME Base, [Next]_vars, NEW p \in Peers, alive'[p]
  PROVE  alive[p] \/ Outside(SessionOpens(p))
<1>0. alive \in [Peers -> BOOLEAN]
  BY DEF Base, TypeOK, SessionsTypeOK
<1>1. CASE Environment
  BY <1>0, <1>1
  DEF Environment, Outside, SessionOpens, SessionDies, ReportClosed, ReportRemoved, SessionTakes,
      SessionAnswers, NetworkStops
<1>2. CASE UNCHANGED alive
  BY <1>2
<1>3. CASE ManagerStep
  BY <1>2, <1>3
  DEF ManagerStep, Subscribe, RecvEvent, RecvCommand, handle_command, ServeList, ServeNoPeers,
      ServeFromFails, ServeFrom, ServeAny, AnswerAtOnce, FetchStep, TryNext, TryFails, FromAnswered,
      AnySucceeds, AnyFails, TakeAnswer, Exhausted, Evict, ReplyAny, Ask, Stop, netVars
<1>4. CASE CallerStep \/ ReadFeed \/ UNCHANGED vars
  BY <1>2, <1>4
  DEF CallerStep, StartCall, SendCommand, SendFails, ReplyDropped, DropHandles, ReadFeed, vars, netVars
<1> QED
  BY <1>1, <1>3, <1>4 DEF Next

\* An event, or two, about x is sent and tells of its new session; D are the peers an
\* event is lost of.
LEMMA AccuracyAfterSend ==
  ASSUME Base, Accuracy, NEW x \in Peers, NEW D \in SUBSET Peers, NEW v,
         Lose(D, events'), peers' = peers, sess' = [sess EXCEPT ![x] = v],
         \A p \in Peers : p # x /\ alive'[p] => alive[p],
         listening => Latest(x, events', v) /\ ~Silent(x, events'),
         ~listening => x \in D /\ events' = <<>>,
         \A p \in Peers : p # x =>
           /\ \A u : Latest(p, events, u) => Latest(p, events', u)
           /\ Silent(p, events) => Silent(p, events')
           /\ ~Silent(p, events) /\ p \notin D => ~Silent(p, events')
  PROVE  Accuracy'
<1>0. sess \in [Peers -> Nat] /\ lost \in SUBSET Peers
  BY DEF Base, TypeOK, SessionsTypeOK
<1>1. lost' = {p \in lost \cup D : Silent(p, events')}
  BY DEF Lose, Silent
<1>2. \A p \in Peers : Latest(p, events', sess'[p])
  <2> SUFFICES ASSUME NEW p \in Peers PROVE Latest(p, events', sess'[p])
    OBVIOUS
  <2>1. CASE p # x
    BY <1>0, <2>1 DEF Accuracy
  <2>2. CASE p = x /\ listening
    BY <1>0, <2>2
  <2>3. CASE ~listening
    BY <2>3 DEF Latest
  <2> QED
    BY <2>1, <2>2, <2>3
<1>3. ASSUME NEW p \in Peers, p \notin lost', Silent(p, events')
      PROVE  peers'[p] = sess'[p] \/ (peers'[p] = NoSession /\ ~alive'[p])
  <2>1. p \notin lost /\ p \notin D
    BY <1>1, <1>3
  <2>2. p # x
    BY <1>3, <2>1
  <2>3. Silent(p, events)
    BY <1>3, <2>1, <2>2
  <2>4. peers[p] = sess[p] \/ (peers[p] = NoSession /\ ~alive[p])
    BY <2>1, <2>3, AboutSilent DEF Accuracy, DirectoryAccurate
  <2> QED
    BY <1>0, <2>2, <2>4
<1>4. DirectoryAccurate'
  BY <1>3 DEF DirectoryAccurate, About, Silent
<1> QED
  BY <1>1, <1>2, <1>4 DEF Accuracy

\* Every step keeps the directory accurate, up to the reports still queued.
LEMMA AccuracyStep ==
  ASSUME Base, Evictions, Accuracy, [Next]_vars
  PROVE  Accuracy'
<1>0. /\ events \in Seq(Event) /\ Len(events) <= EventCap
      /\ opened \in Nat /\ peers \in [Peers -> Nat] /\ sess \in [Peers -> Nat]
      /\ lost \in SUBSET Peers
      /\ ~listening => events = <<>>
  BY DEF Base, TypeOK, SessionsTypeOK, Numbered
<1>1. opened' = opened => \A p \in Peers : alive'[p] => alive[p]
  BY <1>0, AliveStep DEF Outside, SessionOpens
<1>2. CASE UNCHANGED <<opened, events, sess, peers, lost>>
  BY <1>2, <1>1 DEF Accuracy, DirectoryAccurate, About
<1>3. CASE Subscribe
  BY <1>2, <1>3 DEF Subscribe, mapVars
<1>4. CASE RecvEvent
  <2>1. /\ DOMAIN events = 1..Len(events) /\ Len(events) \in Nat \ {0}
        /\ DOMAIN events' = 1..(Len(events) - 1)
        /\ \A i \in DOMAIN events' : i + 1 \in DOMAIN events /\ events'[i] = events[i + 1]
        /\ \A j \in DOMAIN events : j > 1 => j - 1 \in DOMAIN events' /\ events'[j - 1] = events[j]
        /\ Head(events) = events[1] /\ events[1] \in Event
    BY <1>4, ReadShift
  <2> DEFINE e == events[1]
  <2>2. /\ sess' = sess /\ lost' = lost /\ opened' = opened
        /\ \A p \in Peers : p # e.peer => peers'[p] = peers[p]
        /\ peers'[e.peer] = Verdict(e)
    BY <1>4, <2>1, HandledEvent DEF RecvEvent, Verdict
  <2>3. \A p \in lost : Silent(p, events')
    BY <2>1 DEF Accuracy, Silent
  <2>4. ASSUME NEW p \in Peers
        PROVE  Latest(p, events', sess[p])
    <3> SUFFICES ASSUME NEW i \in DOMAIN events', events'[i].peer = p,
                        \A j \in DOMAIN events' : i < j => events'[j].peer # p
                 PROVE  Verdict(events'[i]) = sess[p]
      BY DEF Latest
    <3>1. \A j \in DOMAIN events : i + 1 < j => events[j].peer # p
      <4> SUFFICES ASSUME NEW j \in DOMAIN events, i + 1 < j PROVE events[j].peer # p
        OBVIOUS
      <4>1. j > 1 /\ i < j - 1
        BY <2>1
      <4> QED
        BY <2>1, <4>1
    <3> QED
      BY <2>1, <3>1 DEF Accuracy, Latest
  <2>5. ASSUME NEW p \in Peers \ lost, Silent(p, events')
        PROVE  peers'[p] = sess[p] \/ (peers'[p] = NoSession /\ ~alive'[p])
    <3>1. CASE p = e.peer
      <4>1. \A j \in DOMAIN events : 1 < j => events[j].peer # p
        BY <2>1, <2>5 DEF Silent
      <4>2. Latest(p, events, sess[p]) /\ 1 \in DOMAIN events
        BY <2>1 DEF Accuracy
      <4>3. Verdict(e) = sess[p]
        BY <3>1, <4>1, <4>2 DEF Latest
      <4> QED
        BY <2>2, <3>1, <4>3
    <3>2. CASE p # e.peer
      <4>1. Silent(p, events)
        BY <2>1, <2>5, <3>2 DEF Silent
      <4> QED
        BY <1>1, <2>2, <3>2, <4>1, AboutSilent DEF Accuracy, DirectoryAccurate
    <3> QED
      BY <3>1, <3>2
  <2>6. DirectoryAccurate'
    BY <2>2, <2>5 DEF DirectoryAccurate, About, Silent
  <2> QED
    BY <2>2, <2>3, <2>4, <2>6 DEF Accuracy
<1>5. CASE Evict
  <2> DEFINE x == Head(to_evict)
  <2>1. on_peer_removed(x) /\ to_evict # <<>> /\ to_evict \in Seq(Peers)
    BY <1>5 DEF Base, TypeOK, Evict
  <2>2. x = to_evict[1] /\ 1 \in DOMAIN to_evict
    BY <2>1, EmptySeq, LenProperties
  <2>3. x \in DeadMembers
    BY <1>5, <2>2 DEF Evictions
  <2>4. /\ peers' = [peers EXCEPT ![x] = NoSession]
        /\ UNCHANGED <<opened, events, sess, alive, lost>>
    BY <1>5, <2>1 DEF Evict, on_peer_removed, netVars
  <2> HIDE DEF x
  <2>5. ASSUME NEW p \in Peers \ lost, Silent(p, events)
        PROVE  peers'[p] = sess[p] \/ (peers'[p] = NoSession /\ ~alive[p])
    <3>1. peers[p] = sess[p] \/ (peers[p] = NoSession /\ ~alive[p])
      BY <2>5, AboutSilent DEF Accuracy, DirectoryAccurate
    <3>2. CASE p = x
      BY <1>0, <2>3, <2>4, <3>1, <3>2 DEF DeadMembers, Connected, Live
    <3>3. CASE p # x
      BY <1>0, <2>4, <3>1, <3>3
    <3> QED
      BY <3>2, <3>3
  <2>6. DirectoryAccurate'
    BY <2>4, <2>5 DEF DirectoryAccurate, About, Silent
  <2> QED
    BY <2>4, <2>6 DEF Accuracy
<1>6. ASSUME NEW x \in Peers, Outside(SessionOpens(x))
      PROVE  Accuracy'
  <2> DEFINE e == Established(x, opened + 1)
             D == Dropped(events, e)
  <2>1. /\ events' = Sent(events, e) /\ Lose(D, events')
        /\ sess' = [sess EXCEPT ![x] = opened + 1] /\ alive' = [alive EXCEPT ![x] = TRUE]
        /\ peers' = peers
    BY <1>6 DEF Outside, SessionOpens, Notify, managerVars, mapVars
  <2>2. e \in Event /\ e.peer = x /\ Verdict(e) = opened + 1
    BY <1>0 DEF Event, Established, Verdict
  <2> HIDE DEF e
  <2>3. D \in SUBSET Peers
    BY <1>0, <2>2, SentEvent
  <2>4. ~listening => x \in D /\ events' = <<>>
    BY <1>0, <2>1, <2>2 DEF Dropped, Sent
  <2>5. \A p \in Peers : p # x /\ alive'[p] => alive[p]
    BY <1>0, <2>1 DEF Base, TypeOK, SessionsTypeOK
  <2>6. listening => Latest(x, events', opened + 1) /\ ~Silent(x, events')
    BY <1>0, <2>1, <2>2, SentLatest
  <2>7. \A p \in Peers : p # x =>
          /\ \A u : Latest(p, events, u) => Latest(p, events', u)
          /\ Silent(p, events) => Silent(p, events')
          /\ ~Silent(p, events) /\ p \notin D => ~Silent(p, events')
    BY <1>0, <2>1, <2>2, SentLatest
  <2> HIDE DEF D
  <2> QED
    BY <2>1, <2>3, <2>4, <2>5, <2>6, <2>7, AccuracyAfterSend
<1>7. ASSUME NEW x \in Peers, Outside(ReportClosed(x)) \/ Outside(ReportRemoved(x))
      PROVE  Accuracy'
  <2> DEFINE c == Closed(x, sess[x])
             r == Removed(x)
             q == Sent(events, c)
  <2>1. \/ events' = q /\ Lose(Dropped(events, c), events')
        \/ events' = Sent(q, r) /\ Lose(Dropped(events, c) \cup Dropped(q, r), events')
    BY <1>7 DEF Outside, ReportClosed, ReportRemoved, Notify
  <2>2. /\ sess' = [sess EXCEPT ![x] = NoSession] /\ peers' = peers
        /\ \A p \in Peers : p # x /\ alive'[p] => alive[p]
    BY <1>7 DEF Outside, ReportClosed, ReportRemoved, managerVars, mapVars
  <2>3. /\ c \in Event /\ c.peer = x /\ Verdict(c) = NoSession
        /\ r \in Event /\ r.peer = x /\ Verdict(r) = NoSession
    BY <1>0 DEF Event, Closed, Removed, NoSession, Verdict
  <2> HIDE DEF c, r
  <2>4. q \in Seq(Event) /\ Len(q) <= EventCap /\ Dropped(events, c) \in SUBSET Peers
    BY <1>0, <2>3, SentEvent
  <2>5. ~listening => x \in Dropped(events, c) /\ q = <<>> /\ Sent(q, r) = <<>>
    BY <1>0, <2>3 DEF Dropped, Sent
  <2>6. listening => Latest(x, q, NoSession) /\ ~Silent(x, q)
    BY <1>0, <2>3, SentLatest
  <2>7. \A p \in Peers : p # x =>
          /\ \A u : Latest(p, events, u) => Latest(p, q, u)
          /\ Silent(p, events) => Silent(p, q)
          /\ ~Silent(p, events) /\ p \notin Dropped(events, c) => ~Silent(p, q)
    BY <1>0, <2>3, SentLatest
  <2> HIDE DEF q
  <2>8. Dropped(q, r) \in SUBSET Peers
    BY <2>3, <2>4, SentEvent
  <2>9. listening => Latest(x, Sent(q, r), NoSession) /\ ~Silent(x, Sent(q, r))
    BY <2>3, <2>4, SentLatest
  <2>10. \A p \in Peers : p # x =>
          /\ \A u : Latest(p, q, u) => Latest(p, Sent(q, r), u)
          /\ Silent(p, q) => Silent(p, Sent(q, r))
          /\ ~Silent(p, q) /\ p \notin Dropped(q, r) => ~Silent(p, Sent(q, r))
    BY <2>3, <2>4, SentLatest
  <2>11. CASE events' = q /\ Lose(Dropped(events, c), events')
    BY <2>2, <2>4, <2>5, <2>6, <2>7, <2>11, AccuracyAfterSend
  <2>12. CASE events' = Sent(q, r) /\ Lose(Dropped(events, c) \cup Dropped(q, r), events')
    <3> DEFINE D == Dropped(events, c) \cup Dropped(q, r)
    <3>1. D \in SUBSET Peers
      BY <2>4, <2>8
    <3>2. \A p \in Peers : p # x =>
            /\ \A u : Latest(p, events, u) => Latest(p, events', u)
            /\ Silent(p, events) => Silent(p, events')
            /\ ~Silent(p, events) /\ p \notin D => ~Silent(p, events')
      BY <2>7, <2>10, <2>12
    <3>3. ~listening => x \in D /\ events' = <<>>
      BY <2>5, <2>12
    <3>4. Lose(D, events')
      BY <2>12
    <3> HIDE DEF D
    <3> QED
      BY <2>2, <2>9, <2>12, <3>1, <3>2, <3>3, <3>4, AccuracyAfterSend
  <2> QED
    BY <2>1, <2>11, <2>12
<1> QED
  BY <1>2, <1>3, <1>4, <1>5, <1>6, <1>7, DirectorySteps

\* The map of the manager agrees with the network on every peer that no unread event is
\* about, except those whose newest event was lost: neither an overrun that only cost
\* older events, nor an eviction by do_fetch_receipts (manager.rs:340) while the network
\* still reports the session, leaves it wrong.
THEOREM DirectoryIsAccurate == Spec => []DirectoryAccurate
<1>1. Init => Accuracy
  BY DEF Init, SessionsInit, Accuracy, Latest, DirectoryAccurate, NoSession
<1>2. Base /\ Evictions /\ Accuracy /\ [Next]_vars => Accuracy'
  BY AccuracyStep
<1>3. Accuracy => DirectoryAccurate
  BY DEF Accuracy
<1> QED
  BY <1>1, <1>2, <1>3, EvictionsInvariant, PTL DEF Spec

-----------------------------------------------------------------------------
(* The answer that do_fetch_receipts carries along *)

\* r is what the directory may answer once the peers in to_evict are out: the word of a
\* peer that stays, or a peer that does not.
Standing(r) ==
  \/ \E p \in Connected : /\ \E k \in Answers : r = Result(k, p)
                          /\ \A i \in DOMAIN to_evict : to_evict[i] # p
  \/ \E p \in Peers : /\ r = Result("disconnected", p)
                      /\ p \notin Connected \/ \E i \in DOMAIN to_evict : to_evict[i] = p

\* The first attempt replaces the error that names no peer, and there is a first attempt.
Verdicts ==
  /\ pc = "asking" \/ (pc = "waiting" /\ call[cur].op = "any") =>
       (attempt = 0 /\ Len(order) > 0) \/ Standing(last_err)
  /\ pc = "evicting" => Standing(last_err)

\* A verdict stands while the peers and the eviction list do.
LEMMA StandingFrame ==
  ASSUME UNCHANGED <<peers, to_evict>>, NEW r, Standing(r)
  PROVE  Standing(r)'
BY DEF Standing, Connected

\* Every step keeps the verdicts of the fetch loop true.
LEMMA VerdictsStep ==
  ASSUME Base, Evictions, Verdicts, [Next]_vars
  PROVE  Verdicts'
<1>0. /\ peers \in [Peers -> Nat] /\ order \in Seq(Peers) /\ to_evict \in Seq(Peers)
      /\ attempt \in Nat /\ DOMAIN to_evict = 1..Len(to_evict) /\ Len(to_evict) \in Nat
  BY LenProperties DEF Base, TypeOK
<1>1. CASE pc' \notin {"asking", "waiting", "evicting"}
  BY <1>1 DEF Verdicts
<1>2. CASE /\ UNCHANGED <<peers, order, pc, cur, attempt, to_evict, last_err>>
           /\ pc \in {"asking", "waiting", "evicting"}
  <2>1. call'[cur] = call[cur]
    BY <1>2, CallKept
  <2> QED
    BY <1>2, <2>1, StandingFrame DEF Verdicts
<1>3. CASE RecvEvent
  BY <1>1, <1>3 DEF RecvEvent, fetchVars
<1>4. CASE RecvCommand
  <2> DEFINE c == Head(cmd_rx)
  <2>1. handle_command(c) /\ pc = "select"
    BY <1>4 DEF RecvCommand
  <2> HIDE DEF c
  <2>2. CASE ServeList(c) \/ ServeNoPeers(c) \/ ServeFromFails(c)
    BY <1>1, <2>1, <2>2 DEF ServeList, ServeNoPeers, ServeFromFails, AnswerAtOnce, fetchVars
  <2>3. CASE ServeFrom(c)
    BY <2>3 DEF ServeFrom, Verdicts, callVars
  <2>4. CASE ServeAny(c)
    <3>1. Len(order) > 0
      BY <2>4, OrderNotEmpty DEF ServeAny, Base
    <3> QED
      BY <2>4, <3>1 DEF ServeAny, Verdicts, mapVars
  <2> QED
    BY <2>1, <2>2, <2>3, <2>4 DEF handle_command
<1>5. CASE TryNext
  <2>1. UNCHANGED <<peers, order, cur, attempt, to_evict, last_err, call>> /\ pc = "asking" /\ pc' = "waiting"
    BY <1>5 DEF TryNext, mapVars, callVars
  <2> QED
    BY <2>1, StandingFrame DEF Verdicts
<1>6. CASE TryFails
  <2> DEFINE p == Candidate(attempt)
  <2>1. /\ to_evict' = Append(to_evict, p) /\ last_err' = Result("disconnected", p)
        /\ pc' = "asking"
    BY <1>6 DEF TryFails
  <2>2. p \in Peers
    BY <1>0, <1>6, CandidateType DEF TryFails, Base
  <2> HIDE DEF p
  <2>3. Len(to_evict) + 1 \in DOMAIN to_evict' /\ to_evict'[Len(to_evict) + 1] = p
    <3>1. to_evict' \in Seq(Peers) /\ Len(to_evict') = Len(to_evict) + 1
          /\ to_evict'[Len(to_evict) + 1] = p
      BY <1>0, <2>1, <2>2, AppendProperties
    <3> QED
      BY <1>0, <3>1, LenProperties
  <2>4. Standing(last_err)'
    BY <2>1, <2>2, <2>3 DEF Standing
  <2> QED
    BY <2>1, <2>4 DEF Verdicts
<1>7. CASE AnySucceeds \/ AnyFails
  <2>1. /\ TakeAnswer /\ call[cur].op = "any" /\ req[Asked] \in Answers
        /\ last_err' = Result(req[Asked], Asked)
        /\ UNCHANGED <<peers, to_evict>> /\ pc' \in {"asking", "evicting"}
    BY <1>7 DEF AnySucceeds, AnyFails, TakeAnswer, mapVars
  <2>2. Asked = Candidate(attempt) /\ attempt < Len(order) /\ pc = "waiting"
    BY <2>1 DEF TakeAnswer, Asked, Base, Control
  <2>3. Asked \in Connected
    BY <2>2, AskedConnected DEF Base
  <2>4. ASSUME NEW i \in DOMAIN to_evict
        PROVE  to_evict[i] # Asked
    <3>1. PICK a \in 0..(attempt - 1) : to_evict[i] = Candidate(a)
      BY <2>2 DEF Evictions
    <3>2. a \in Nat /\ a < Len(order) /\ a # attempt
      BY <1>0, <2>2
    <3> QED
      BY <1>0, <2>2, <3>1, <3>2, CandidatesDistinct DEF Base
  <2>5. Standing(last_err)'
    BY <2>1, <2>3, <2>4 DEF Standing, Connected
  <2> QED
    BY <2>1, <2>5 DEF Verdicts
<1>8. CASE Exhausted
  <2>1. UNCHANGED <<peers, to_evict, last_err>> /\ pc = "asking" /\ pc' = "evicting" /\ attempt = Len(order)
    BY <1>8 DEF Exhausted, mapVars
  <2>2. Standing(last_err)
    BY <1>0, <2>1 DEF Verdicts
  <2> QED
    BY <2>1, <2>2, StandingFrame DEF Verdicts
<1>9. CASE Evict
  <2> DEFINE x == Head(to_evict)
  <2>1. /\ to_evict # <<>> /\ to_evict' = Tail(to_evict) /\ last_err' = last_err
        /\ pc = "evicting" /\ pc' = "evicting"
        /\ on_peer_removed(x)
    BY <1>9 DEF Evict
  <2>2. /\ x = to_evict[1] /\ x \in Peers
        /\ DOMAIN to_evict' = 1..(Len(to_evict) - 1)
        /\ \A i \in 1..(Len(to_evict) - 1) : to_evict'[i] = to_evict[i + 1]
    <3>1. to_evict' \in Seq(Peers) /\ Len(to_evict') = Len(to_evict) - 1 /\ x \in Peers
          /\ \A i \in 1..Len(to_evict') : to_evict'[i] = to_evict[i + 1]
      BY <1>0, <2>1, HeadTailProperties
    <3>2. x = to_evict[1]
      BY <1>0, <2>1
    <3> QED
      BY <3>1, <3>2, LenProperties
  <2> HIDE DEF x
  <2>3. Connected' = Connected \ {x}
    BY <2>1, <2>2, RemovedEffect DEF Base
  <2>4. Standing(last_err)
    BY <2>1 DEF Verdicts
  <2>5. ASSUME NEW p \in Connected, \A i \in DOMAIN to_evict : to_evict[i] # p
        PROVE  p \in Connected' /\ \A i \in DOMAIN to_evict' : to_evict'[i] # p
    <3>1. Len(to_evict) >= 1
      BY <1>0, <2>1, EmptySeq
    <3>2. p # x
      <4>1. 1 \in DOMAIN to_evict
        BY <1>0, <3>1
      <4> QED
        BY <2>2, <2>5, <4>1
    <3>3. \A i \in DOMAIN to_evict' : i + 1 \in DOMAIN to_evict /\ to_evict'[i] = to_evict[i + 1]
      BY <1>0, <2>2
    <3> QED
      BY <2>3, <2>5, <3>2, <3>3
  <2>6. ASSUME NEW p \in Peers, p \notin Connected \/ \E i \in DOMAIN to_evict : to_evict[i] = p
        PROVE  p \notin Connected' \/ \E i \in DOMAIN to_evict' : to_evict'[i] = p
    <3>1. CASE p \notin Connected \/ p = x
      BY <2>3, <3>1
    <3>2. ASSUME NEW i \in DOMAIN to_evict, to_evict[i] = p, p # x
          PROVE  \E j \in DOMAIN to_evict' : to_evict'[j] = p
      <4>1. i # 1 /\ i - 1 \in 1..(Len(to_evict) - 1) /\ (i - 1) + 1 = i
        BY <1>0, <2>2, <3>2
      <4> QED
        BY <2>2, <3>2, <4>1
    <3> QED
      BY <2>6, <3>1, <3>2
  <2>7. Standing(last_err)'
    BY <2>1, <2>4, <2>5, <2>6 DEF Standing
  <2> QED
    BY <2>1, <2>7 DEF Verdicts
<1>10. CASE FromAnswered \/ ReplyAny \/ Stop
  BY <1>1, <1>10 DEF FromAnswered, ReplyAny, FetchDone, Stop
<1>11. CASE Subscribe \/ CallerStep \/ Environment \/ ReadFeed \/ UNCHANGED vars
  <2>1. UNCHANGED <<peers, order, pc, cur, attempt, to_evict, last_err>>
    BY <1>11
    DEF Subscribe, CallerStep, StartCall, SendCommand, SendFails, ReplyDropped, DropHandles, Environment,
        Outside, ReadFeed, vars, managerVars, mapVars, fetchVars
  <2> QED
    BY <1>1, <1>2, <2>1
<1> QED
  BY <1>3, <1>4, <1>5, <1>6, <1>7, <1>8, <1>9, <1>10, <1>11 DEF Next, ManagerStep, FetchStep

-----------------------------------------------------------------------------
(* Every step of the manager is one of the directory, or none *)

\* A peer is removed from the map and the removal announced.
LEMMA RemovalIsLeave ==
  ASSUME Base, NEW p \in Peers, on_peer_removed(p), Up, Up', UNCHANGED callVars
  PROVE  Directory!Leave(p)
<1>1. Connected' = Connected \ {p} /\ p \in Connected
  BY RemovedEffect DEF Base, on_peer_removed
<1>2. Progress' = Progress
  BY DEF Progress, callVars
<1> QED
  BY <1>1, <1>2 DEF Directory!Leave, Directory!Announce, Push, Directory!Push, on_peer_removed, callVars

\* A network event is a change of the directory or none.
LEMMA EventIsChange ==
  ASSUME Base, RecvEvent
  PROVE  Directory!Next \/ UNCHANGED Directory!dirVars
<1> DEFINE e == Head(events)
<1>1. /\ e \in Event /\ (e.kind = "established" => e.session \in Nat \ {0})
      /\ handle_network_event(e)
      /\ Up /\ Up' /\ UNCHANGED callVars
  BY HeadEvent DEF RecvEvent, Base, Event, NoSession, Up, fetchVars
<1> HIDE DEF e
<1>2. e.peer \in Peers
  BY <1>1 DEF Event
<1>3. Progress' = Progress
  BY <1>1 DEF Progress, callVars
<1>4. CASE e.kind = "established" /\ on_peer_connected(e.peer, from_session(e))
  <2>1. Connected' = Connected \cup {e.peer}
    BY <1>1, <1>2, <1>4, ConnectedEffect DEF Base, from_session
  <2>2. Directory!Join(e.peer)
    BY <1>1, <1>3, <1>4, <2>1 DEF Directory!Join, Directory!Announce, Push, Directory!Push, on_peer_connected, callVars
  <2> QED
    BY <1>2, <2>2 DEF Directory!Next
<1>5. CASE on_peer_removed(e.peer)
  BY <1>1, <1>2, <1>5, RemovalIsLeave DEF Directory!Next
<1>6. CASE UNCHANGED mapVars
  BY <1>1, <1>3, <1>6 DEF Directory!dirVars, mapVars, callVars, Connected
<1> QED
  BY <1>1, <1>4, <1>5, <1>6 DEF handle_network_event

\* A call returns with one of the answers it may get at that moment.
LEMMA ReturnIsFinish ==
  ASSUME Base, NEW c \in Callers, status[c] \in {"sending", "waiting"}, NEW r, Return(c, r),
         UNCHANGED <<peers, event_tx>>, Up' = Up,
         r \in IF Up THEN Directory!Answer(call[c]) ELSE Directory!Halted(call[c])
  PROVE  Directory!Next
<1>1. status \in [Callers -> {"idle", "sending", "waiting", "done"}]
  BY DEF Base, TypeOK
<1>2. Progress[c] = "pending" /\ Progress' = [Progress EXCEPT ![c] = "done"]
  BY <1>1 DEF Progress, Return
<1>3. Connected' = Connected
  BY DEF Connected
<1>4. Directory!Finish(c)
  BY <1>2, <1>3 DEF Directory!Finish, Return
<1> QED
  BY <1>4 DEF Directory!Next

\* A command that needs no peer is answered at once.
LEMMA CommandIsFinish ==
  ASSUME Base, RecvCommand
  PROVE  Directory!Next \/ UNCHANGED Directory!dirVars
<1> DEFINE c == Head(cmd_rx)
<1>1. handle_command(c) /\ pc = "select" /\ cmd_rx # <<>> /\ cmd_rx \in Seq(Callers)
  BY DEF RecvCommand, Base, TypeOK
<1>2. c = cmd_rx[1] /\ 1 \in DOMAIN cmd_rx /\ c \in Callers
  BY <1>1, EmptySeq, LenProperties, HeadTailProperties
<1>3. status[c] = "waiting" /\ call[c] \in Call
  BY <1>1, <1>2 DEF Base, Waits, TypeOK
<1> HIDE DEF c
<1>4. ASSUME NEW r, AnswerAtOnce(c, r), r \in Directory!Answer(call[c])
      PROVE  Directory!Next
  BY <1>1, <1>2, <1>3, <1>4, ReturnIsFinish DEF AnswerAtOnce, mapVars, fetchVars, Up
<1>5. CASE ServeList(c)
  <2>1. Listing(Connected) \in Directory!Answer(call[c])
    BY <1>5 DEF ServeList, Listing, Directory!Answer, Directory!Listed
  <2> QED
    BY <1>4, <1>5, <2>1 DEF ServeList
<1>6. CASE ServeNoPeers(c)
  <2>1. Result("disconnected", NoPeer) \in Directory!Answer(call[c])
    BY <1>3, <1>6
    DEF ServeNoPeers, Call, Result, Directory!Result, Directory!Answer, Directory!Targeted, Directory!Anyone,
        Directory!Empty
  <2> QED
    BY <1>4, <1>6, <2>1 DEF ServeNoPeers
<1>7. CASE ServeFromFails(c)
  <2>1. Result("disconnected", call[c].peer) \in Directory!Answer(call[c])
    BY <1>7 DEF ServeFromFails, Result, Directory!Result, Directory!Answer, Directory!Targeted
  <2> QED
    BY <1>4, <1>7, <2>1 DEF ServeFromFails
<1>8. CASE ServeFrom(c) \/ ServeAny(c)
  <2>1. UNCHANGED <<peers, event_tx, status, call, outcome>> /\ Up /\ Up'
    BY <1>1, <1>8 DEF ServeFrom, ServeAny, mapVars, callVars, Up
  <2> QED
    BY <2>1 DEF Directory!dirVars, Connected, Progress
<1> QED
  BY <1>1, <1>5, <1>6, <1>7, <1>8 DEF handle_command

\* The answers a fetch may end with.
LEMMA StandingIsAnswer ==
  ASSUME NEW r, Standing(r), to_evict = <<>>, NEW k, k.op = "any"
  PROVE  r \in Directory!Answer(k)
<1>1. Connected \subseteq Peers
  BY DEF Connected
<1>2. CASE \E p \in Connected : \E a \in Answers : r = Result(a, p)
  BY <1>1, <1>2
  DEF Answers, Result, Directory!Result, Directory!Answer, Directory!Anyone, Directory!FromMember
<1>3. CASE \E p \in Peers : r = Result("disconnected", p) /\ p \notin Connected
  BY <1>3 DEF Result, Directory!Result, Directory!Answer, Directory!Anyone
<1> QED
  BY <1>2, <1>3 DEF Standing

\* A step of the fetch loop is progress of the directory, or invisible.
LEMMA FetchRefines ==
  ASSUME Base, Evictions, Verdicts, FetchStep
  PROVE  Directory!Next \/ UNCHANGED Directory!dirVars
<1>0. pc \in {"asking", "waiting", "evicting"} => cur \in Callers /\ status[cur] = "waiting"
  BY DEF Base, Waits
<1>1. CASE TryNext \/ TryFails \/ AnySucceeds \/ AnyFails \/ Exhausted
  <2>1. UNCHANGED <<peers, event_tx, status, call, outcome>> /\ Up /\ Up'
    BY <1>1
    DEF TryNext, TryFails, AnySucceeds, AnyFails, TakeAnswer, Exhausted, mapVars, callVars, Up
  <2> QED
    BY <2>1 DEF Directory!dirVars, Connected, Progress
<1>2. CASE FromAnswered
  <2>1. /\ Return(cur, Result(req[Asked], Asked)) /\ req[Asked] \in Answers
        /\ call[cur].op = "from" /\ pc = "waiting" /\ Up /\ Up'
        /\ UNCHANGED <<peers, event_tx>>
    BY <1>2 DEF FromAnswered, TakeAnswer, FetchDone, mapVars, Up
  <2>2. Asked \in Connected /\ Asked = call[cur].peer
    BY <2>1, AskedConnected DEF Base, Asked
  <2>3. Result(req[Asked], Asked) \in Directory!Answer(call[cur])
    BY <2>1, <2>2
    DEF Answers, Result, Directory!Result, Directory!Answer, Directory!Targeted, Directory!FromMember
  <2> QED
    BY <1>0, <2>1, <2>3, ReturnIsFinish
<1>3. CASE Evict
  <2>1. /\ on_peer_removed(Head(to_evict)) /\ Up /\ Up' /\ UNCHANGED callVars
        /\ to_evict # <<>> /\ to_evict \in Seq(Peers)
    BY <1>3 DEF Evict, Up, Base, TypeOK
  <2>2. Head(to_evict) \in Peers
    BY <2>1, HeadTailProperties
  <2> QED
    BY <2>1, <2>2, RemovalIsLeave DEF Directory!Next
<1>4. CASE ReplyAny
  <2>1. /\ Return(cur, last_err) /\ to_evict = <<>> /\ pc = "evicting" /\ Up /\ Up'
        /\ UNCHANGED <<peers, event_tx>>
    BY <1>4 DEF ReplyAny, FetchDone, mapVars, Up
  <2>2. call[cur].op = "any" /\ Standing(last_err)
    BY <2>1 DEF Base, Control, Verdicts
  <2>3. last_err \in Directory!Answer(call[cur])
    BY <2>1, <2>2, StandingIsAnswer
  <2> QED
    BY <1>0, <2>1, <2>3, ReturnIsFinish
<1> QED
  BY <1>1, <1>2, <1>3, <1>4 DEF FetchStep

\* A caller calls the directory as it calls the manager.
LEMMA CallerRefines ==
  ASSUME Base, CallerStep
  PROVE  Directory!Next \/ UNCHANGED Directory!dirVars
<1>0. /\ status \in [Callers -> {"idle", "sending", "waiting", "done"}]
      /\ call \in [Callers -> Call]
  BY DEF Base, TypeOK
<1>1. ASSUME NEW c \in Callers, StartCall(c)
      PROVE  Directory!Next
  <2>1. PICK k \in Call : call' = [call EXCEPT ![c] = k]
    BY <1>1 DEF StartCall
  <2>2. /\ Progress[c] # "pending" /\ Progress' = [Progress EXCEPT ![c] = "pending"]
        /\ Connected' = Connected /\ event_tx' = event_tx /\ Up' = Up
        /\ outcome' = [outcome EXCEPT ![c] = Directory!NoOutcome]
    BY <1>0, <1>1
    DEF StartCall, Progress, Connected, Up, mapVars, fetchVars, NoOutcome, Result,
        Directory!NoOutcome, Directory!Result
  <2>3. Directory!Begin(c, k)
    BY <2>1, <2>2 DEF Directory!Begin
  <2>4. k \in Directory!Call
    BY DEF Call, Directory!Call
  <2> QED
    BY <2>3, <2>4 DEF Directory!Next
<1>2. ASSUME NEW c \in Callers, SendCommand(c)
      PROVE  UNCHANGED Directory!dirVars
  BY <1>0, <1>2 DEF SendCommand, Directory!dirVars, Progress, Connected, Up, mapVars, fetchVars
<1>3. ASSUME NEW c \in Callers, SendFails(c) \/ ReplyDropped(c)
      PROVE  Directory!Next
  <2>1. PICK r : /\ Return(c, r)
                 /\ r \in Directory!Halted(call[c])
                 /\ status[c] \in {"sending", "waiting"} /\ ~Up /\ ~Up'
                 /\ UNCHANGED <<peers, event_tx>>
    BY <1>3
    DEF SendFails, ReplyDropped, Up, mapVars, fetchVars, Result, Directory!Result, Directory!Halted
  <2> QED
    BY <2>1, ReturnIsFinish DEF Up
<1>4. CASE DropHandles
  BY <1>4 DEF DropHandles, Directory!dirVars, Progress, Connected, Up, mapVars, fetchVars
<1> QED
  BY <1>1, <1>2, <1>3, <1>4 DEF CallerStep

\* Every step of the manager is one of the directory or a stutter.
LEMMA StepRefines ==
  ASSUME Base, Evictions, Verdicts, [Next]_vars
  PROVE  [Directory!Next]_(Directory!dirVars)
<1>1. CASE Subscribe \/ Environment \/ UNCHANGED vars
  BY <1>1
  DEF Subscribe, Environment, Outside, vars, managerVars, mapVars, fetchVars, callVars, Directory!dirVars,
      Progress, Connected, Up
<1>2. CASE Stop
  <2>1. Directory!Halt
    BY <1>2 DEF Stop, Directory!Halt, mapVars, callVars, Progress, Connected, Up
  <2> QED
    BY <2>1 DEF Directory!Next
<1>3. CASE ReadFeed
  <2>1. Directory!Consume
    BY <1>3 DEF ReadFeed, Directory!Consume, fetchVars, callVars, Progress, Connected, Up
  <2> QED
    BY <2>1 DEF Directory!Next
<1> QED
  BY <1>1, <1>2, <1>3, EventIsChange, CommandIsFinish, FetchRefines, CallerRefines
  DEF Next, ManagerStep

\* The PeerManager implements the PeerDirectory: each change of the map is announced once
\* and in order, and each call returns at most once, with what was true of the map at
\* one moment between the call and its return, or with an error once the manager is gone.
THEOREM ManagerIsDirectory == Spec => ImplementsDirectory
<1>1. Init => Directory!Init
  BY DEF Init, Directory!Init, Connected, NoSession, Up, Progress, NoOutcome, Result, Directory!NoOutcome,
         Directory!Result
<1>2. Init => Verdicts
  BY DEF Init, Verdicts
<1>3. Base /\ Evictions /\ Verdicts /\ [Next]_vars => Verdicts'
  BY VerdictsStep
<1>4. Base /\ Evictions /\ Verdicts /\ [Next]_vars => [Directory!Next]_(Directory!dirVars)
  BY StepRefines
<1> QED
  BY <1>1, <1>2, <1>3, <1>4, EvictionsInvariant, PTL DEF Spec, ImplementsDirectory, Directory!Spec

=============================================================================
