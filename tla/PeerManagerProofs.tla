-------------------------- MODULE PeerManagerProofs --------------------------
(***************************************************************************)
(* Theorems about PeerManager, for any peers, callers, capacities and any  *)
(* bound on the sessions.                                                  *)
(***************************************************************************)
EXTENDS PeerManager, DataProofs

-----------------------------------------------------------------------------
(* The helpers of the model *)

\* An order of a finite set lists each of its elements once.
LEMMA OrderProperties ==
  ASSUME NEW T, IsFiniteSet(T), NEW s \in SetToSeqs(T)
  PROVE  /\ s \in Seq(T)
         /\ \A i, j \in DOMAIN s : s[i] = s[j] => i = j
         /\ \A x \in T : \E i \in DOMAIN s : s[i] = x
<1> DEFINE n == Cardinality(T)
<1>1. n \in Nat
  BY FS_CardinalityType
<1>2. s \in [1..n -> T] /\ \A i, j \in 1..n : i # j => s[i] # s[j]
  BY DEF SetToSeqs
<1>3. s \in Injection(1..n, T)
  BY <1>2 DEF Injection, IsInjective
<1>4. IsFiniteSet(1..n) /\ Cardinality(1..n) = n
  BY <1>1, FS_Interval
<1>5. s \in Surjection(1..n, T)
  BY <1>3, <1>4, FS_Injection
<1>6. \A x \in T : \E i \in 1..n : s[i] = x
  BY <1>5 DEF Surjection
<1> QED
  BY <1>1, <1>2, <1>6, SeqDef

\* RemoveAt closes the gap.
LEMMA RemoveAtProperties ==
  ASSUME NEW S, NEW s \in Seq(S), NEW i \in 1..Len(s)
  PROVE  /\ RemoveAt(s, i) \in Seq(S)
         /\ Len(RemoveAt(s, i)) = Len(s) - 1
         /\ \A j \in 1..(Len(s) - 1) : RemoveAt(s, i)[j] = IF j < i THEN s[j] ELSE s[j + 1]
<1>1. \A j \in 1..Len(s) : s[j] \in S
  BY ElementOfSeq
<1> DEFINE a == SubSeq(s, 1, i - 1)
           b == SubSeq(s, i + 1, Len(s))
<1>2. a \in Seq(S) /\ Len(a) = i - 1 /\ \A j \in 1..(i - 1) : a[j] = s[j]
  BY <1>1, SubSeqProperties
<1>3. b \in Seq(S) /\ Len(b) = Len(s) - i /\ \A j \in 1..(Len(s) - i) : b[j] = s[i + j]
  <2>1. /\ b \in Seq(S)
        /\ Len(b) = IF i + 1 <= Len(s) THEN Len(s) - (i + 1) + 1 ELSE 0
        /\ \A j \in 1..(Len(s) - (i + 1) + 1) : b[j] = s[i + 1 + j - 1]
    BY <1>1, SubSeqProperties
  <2> HIDE DEF b
  <2> QED
    BY <2>1
<1> HIDE DEF a, b
<1>4. RemoveAt(s, i) = a \o b
  BY DEF RemoveAt, a, b
<1>5. /\ a \o b \in Seq(S)
      /\ Len(a \o b) = Len(a) + Len(b)
      /\ \A j \in 1..(Len(a) + Len(b)) : (a \o b)[j] = IF j <= Len(a) THEN a[j] ELSE b[j - Len(a)]
  BY <1>2, <1>3, ConcatProperties
<1>6. ASSUME NEW j \in 1..(Len(s) - 1)
      PROVE  (a \o b)[j] = IF j < i THEN s[j] ELSE s[j + 1]
  <2>1. CASE j < i
    BY <2>1, <1>2, <1>3, <1>5
  <2>2. CASE j >= i
    <3>1. (a \o b)[j] = b[j - (i - 1)]
      BY <2>2, <1>2, <1>3, <1>5
    <3>2. j - (i - 1) \in 1..(Len(s) - i) /\ i + (j - (i - 1)) = j + 1
      BY <2>2
    <3> QED
      BY <2>2, <3>1, <3>2, <1>3
  <2>3. Len(s) \in Nat /\ i \in Nat /\ j \in Nat
    BY LenProperties
  <2>4. j < i \/ j >= i
    BY <2>3
  <2> QED
    BY <2>1, <2>2, <2>4
<1> QED
  BY <1>2, <1>3, <1>4, <1>5, <1>6

\* The loop of do_fetch_receipts visits no position twice in fewer than n attempts.
LEMMA PositionsDistinct ==
  ASSUME NEW r \in Nat, NEW n \in Nat \ {0}, NEW a \in 0..(n - 1), NEW b \in 0..(n - 1),
         (r + a) % n = (r + b) % n
  PROVE  a = b
<1>1. \A x \in Nat : x = n * (x \div n) + (x % n) /\ x \div n \in Int
  OBVIOUS
<1>2. PICK k \in Int : (r + a) - (r + b) = n * k
  <2>1. (r + a) - (r + b) = n * ((r + a) \div n) - n * ((r + b) \div n)
    BY <1>1
  <2> DEFINE k == ((r + a) \div n) - ((r + b) \div n)
  <2>2. k \in Int
    BY <1>1
  <2>3. (r + a) - (r + b) = n * k
    BY <1>1, <2>1
  <2> QED
    BY <2>2, <2>3
<1>3. a - b = n * k /\ a - b < n /\ b - a < n
  BY <1>2
<1>4. k >= 1 => n * k >= n
  OBVIOUS
<1>5. k <= -1 => n * k <= -n
  OBVIOUS
<1>6. k = 0
  BY <1>3, <1>4, <1>5
<1> QED
  BY <1>3, <1>6

-----------------------------------------------------------------------------
(* Types, the iteration order of the map, and the control of the task *)

\* The iteration order of the map lists the peers of the map, each once.
OrderOK ==
  /\ \A i, j \in DOMAIN order : order[i] = order[j] => i = j
  /\ \A p \in Peers : p \in Connected <=> \E i \in DOMAIN order : order[i] = p

\* A queued command, and the one being served, is that of a caller who waits for it.
Waits ==
  /\ pc # "stopped" =>
       /\ \A i \in DOMAIN cmd_rx : status[cmd_rx[i]] = "waiting" /\ cmd_rx[i] # cur
       /\ \A i, j \in DOMAIN cmd_rx : cmd_rx[i] = cmd_rx[j] => i = j
  /\ pc \in {"asking", "waiting", "evicting"} => cur \in Callers /\ status[cur] = "waiting"
  /\ pc = "select" => cur = NoCaller

\* What the loop of do_fetch_receipts may assume at each of its points.
Control ==
  /\ pc \in {"asking", "evicting"} => call[cur].op = "any"
  /\ pc = "asking" => attempt <= Len(order)
  /\ pc = "waiting" => \/ call[cur].op = "any" /\ attempt < Len(order)
                       \/ call[cur].op = "from" /\ call[cur].peer \in Connected
  /\ pc \in {"select", "stopped"} => to_evict = <<>>

\* There is somebody to ask while somebody is connected.
LEMMA OrderNotEmpty ==
  ASSUME TypeOK, OrderOK, Connected # {}
  PROVE  Len(order) \in Nat \ {0}
BY DEF TypeOK, OrderOK, Connected

\* The next candidate is a position of the order.
LEMMA CandidateType ==
  ASSUME TypeOK, Len(order) \in Nat \ {0}, NEW a \in Nat
  PROVE  /\ Position(a) \in 0..(Len(order) - 1)
         /\ Position(a) + 1 \in DOMAIN order
         /\ Candidate(a) = order[Position(a) + 1]
         /\ Candidate(a) \in Peers
         /\ \E i \in DOMAIN order : order[i] = Candidate(a)
<1>1. order \in Seq(Peers) /\ rr_index \in Nat
  BY DEF TypeOK
<1>2. rr_index + a \in Nat
  BY <1>1
<1>3. Position(a) \in 0..(Len(order) - 1)
  BY <1>2 DEF Position
<1>4. order[Position(a) + 1] \in Peers
  BY <1>1, <1>3, ElementOfSeq
<1>5. Position(a) + 1 \in DOMAIN order
  BY <1>1, <1>3, LenProperties
<1>6. Candidate(a) = order[Position(a) + 1]
  BY DEF Candidate
<1> QED
  BY <1>3, <1>4, <1>5, <1>6

\* The peer whose answer the manager awaits is in the map.
LEMMA AskedConnected ==
  ASSUME TypeOK, OrderOK, Control, pc = "waiting"
  PROVE  Asked \in Connected
<1>1. CASE call[cur].op = "from"
  BY <1>1 DEF Control, Asked
<1>2. CASE call[cur].op # "from"
  <2>1. attempt \in Nat /\ attempt < Len(order) /\ order \in Seq(Peers)
    BY <1>2 DEF Control, TypeOK
  <2>2. Len(order) \in Nat \ {0}
    BY <2>1
  <2>3. Candidate(attempt) \in Peers /\ \E i \in DOMAIN order : order[i] = Candidate(attempt)
    BY <2>1, <2>2, CandidateType
  <2> QED
    BY <1>2, <2>3 DEF OrderOK, Asked
<1> QED
  BY <1>1, <1>2

\* Push keeps the stream of events and its capacity.
LEMMA PushEvent ==
  ASSUME NEW e \in Event, NEW q \in Seq(Event), Len(q) <= EventCap
  PROVE  Push(q, e, EventCap) \in Seq(Event) /\ Len(Push(q, e, EventCap)) <= EventCap
BY PushProperties, SessionsAssumption

\* So does a report, whoever listens.
LEMMA SentEvent ==
  ASSUME NEW e \in Event, NEW q \in Seq(Event), Len(q) <= EventCap
  PROVE  /\ Sent(q, e) \in Seq(Event) /\ Len(Sent(q, e)) <= EventCap
         /\ Dropped(q, e) \in SUBSET Peers
<1>1. Sent(q, e) \in Seq(Event) /\ Len(Sent(q, e)) <= EventCap
  BY PushEvent DEF Sent
<1>2. CASE listening /\ Full(q, EventCap)
  <2>1. Len(q) >= 1
    BY <1>2, SessionsAssumption, LenProperties DEF Full
  <2>2. q # <<>>
    BY <2>1
  <2>3. Head(q) \in Event
    BY <2>2, HeadTailProperties
  <2> QED
    BY <1>1, <1>2, <2>3 DEF Dropped, Event
<1>3. CASE ~(listening /\ Full(q, EventCap))
  BY <1>1, <1>3 DEF Dropped, Event
<1> QED
  BY <1>2, <1>3

\* Losing reports keeps the types.
LEMMA LoseType ==
  ASSUME SessionsTypeOK, NEW D \in SUBSET Peers, NEW q, Lose(D, q)
  PROVE  lagged' \in SUBSET Peers /\ lost' \in SUBSET Peers
BY DEF SessionsTypeOK, Lose

\* Every step of the network keeps its types.
LEMMA SessionsTypeStep ==
  ASSUME SessionsTypeOK, NEW p \in Peers,
         \/ SessionOpens(p) \/ SessionDies(p) \/ ReportClosed(p) \/ ReportRemoved(p)
         \/ SessionTakes(p) \/ SessionAnswers(p) \/ NetworkStops
  PROVE  SessionsTypeOK'
<1> USE DEF SessionsTypeOK, RequestStates, Unanswered, Answers
<1>1. CASE SessionOpens(p)
  <2> DEFINE e == Established(p, opened + 1)
  <2>1. e \in Event
    BY DEF Event, Established
  <2> HIDE DEF e
  <2>2. events' = Sent(events, e) /\ Lose(Dropped(events, e), events')
    BY <1>1 DEF SessionOpens, Notify, e
  <2>3. lagged' \in SUBSET Peers /\ lost' \in SUBSET Peers
    BY <2>1, <2>2, SentEvent, LoseType
  <2> QED
    BY <1>1, <2>1, <2>2, <2>3, SentEvent DEF SessionOpens
<1>2. CASE SessionDies(p)
  BY <1>2 DEF SessionDies
<1>3. CASE ReportClosed(p)
  <2> DEFINE e == Closed(p, sess[p])
  <2>1. e \in Event
    BY DEF Event, Closed
  <2> HIDE DEF e
  <2>2. events' = Sent(events, e) /\ Lose(Dropped(events, e), events')
    BY <1>3 DEF ReportClosed, Notify, e
  <2>3. lagged' \in SUBSET Peers /\ lost' \in SUBSET Peers
    BY <2>1, <2>2, SentEvent, LoseType
  <2> QED
    BY <1>3, <2>1, <2>2, <2>3, SentEvent DEF ReportClosed, NoSession
<1>4. CASE ReportRemoved(p)
  <2> DEFINE c == Closed(p, sess[p])
             r == Removed(p)
             D == Dropped(events, c) \cup Dropped(Sent(events, c), r)
  <2>1. c \in Event /\ r \in Event
    BY DEF Event, NoSession, Closed, Removed
  <2> HIDE DEF c, r
  <2>2. /\ Sent(events, c) \in Seq(Event) /\ Len(Sent(events, c)) <= EventCap
        /\ Dropped(events, c) \in SUBSET Peers
    BY <2>1, SentEvent
  <2>3. events' = Sent(Sent(events, c), r) /\ Lose(D, events')
    BY <1>4 DEF ReportRemoved, c, r
  <2>4. D \in SUBSET Peers /\ events' \in Seq(Event) /\ Len(events') <= EventCap
    BY <2>1, <2>2, <2>3, SentEvent
  <2> HIDE DEF D
  <2>5. lagged' \in SUBSET Peers /\ lost' \in SUBSET Peers
    BY <2>3, <2>4, LoseType
  <2>6. sess' \in [Peers -> Nat]
    BY <1>4 DEF ReportRemoved, NoSession
  <2> QED
    BY <1>4, <2>4, <2>5, <2>6 DEF ReportRemoved
<1>5. CASE SessionTakes(p)
  BY <1>5 DEF SessionTakes
<1>6. CASE SessionAnswers(p)
  BY <1>6 DEF SessionAnswers
<1>7. CASE NetworkStops
  BY <1>7 DEF NetworkStops
<1> QED
  BY <1>1, <1>2, <1>3, <1>4, <1>5, <1>6, <1>7

\* A result is an outcome.
LEMMA ResultType ==
  ASSUME NEW k \in {"none", "ok"} \cup ErrorKinds, NEW p \in Peers \cup {NoPeer}
  PROVE  Result(k, p) \in Outcome
BY DEF Result, Outcome

\* A listing is an outcome.
LEMMA ListingType == ASSUME NEW S \in SUBSET Peers PROVE Listing(S) \in Outcome
BY DEF Listing, Outcome

\* A return keeps the types of the callers.
LEMMA ReturnType ==
  ASSUME TypeOK, NEW c, NEW r \in Outcome, Return(c, r)
  PROVE  /\ status' \in [Callers -> {"idle", "sending", "waiting", "done"}]
         /\ outcome' \in [Callers -> Outcome]
         /\ call' \in [Callers -> Call]
         /\ handle_up' \in BOOLEAN
BY DEF TypeOK, Return

\* An announcement keeps the feed and its capacity.
LEMMA FeedType ==
  ASSUME TypeOK, NEW p \in Peers, NEW k \in {"connected", "disconnected"},
         event_tx' = Push(event_tx, [kind |-> k, peer |-> p], FeedCap)
  PROVE  event_tx' \in Seq(ManagerEvent) /\ Len(event_tx') <= FeedCap
<1>1. [kind |-> k, peer |-> p] \in ManagerEvent
  BY DEF ManagerEvent
<1> QED
  BY <1>1, PushProperties, ManagerAssumption DEF TypeOK

\* How the two ways to change the map act on it and on its order.
LEMMA ConnectedEffect ==
  ASSUME TypeOK, OrderOK, NEW p \in Peers, NEW s \in Nat \ {0}, on_peer_connected(p, s)
  PROVE  /\ peers' = [peers EXCEPT ![p] = s]
         /\ Connected' = Connected \cup {p}
         /\ order' \in Seq(Peers)
         /\ OrderOK'
<1>1. peers' = [peers EXCEPT ![p] = s]
  BY DEF on_peer_connected
<1>2. Connected' = Connected \cup {p}
  BY <1>1 DEF TypeOK, Connected, NoSession
<1>3. CASE p \in Connected
  <2>1. order' = order /\ Connected' = Connected
    BY <1>2, <1>3 DEF on_peer_connected
  <2> QED
    BY <1>1, <1>2, <2>1 DEF OrderOK, TypeOK
<1>4. CASE p \notin Connected
  <2>1. order' \in SetToSeqs(Connected')
    BY <1>2, <1>4 DEF on_peer_connected
  <2>2. Connected' \subseteq Peers
    BY DEF Connected
  <2>3. IsFiniteSet(Connected')
    BY <2>2, FS_Subset, ManagerAssumption
  <2>4. /\ order' \in Seq(Connected')
        /\ \A i, j \in DOMAIN order' : order'[i] = order'[j] => i = j
        /\ \A x \in Connected' : \E i \in DOMAIN order' : order'[i] = x
    BY <2>1, <2>3, OrderProperties
  <2>5. \A i \in DOMAIN order' : order'[i] \in Connected'
    BY <2>4, ElementOfSeq, LenProperties
  <2>6. order' \in Seq(Peers)
    BY <2>2, <2>4, SeqMonotonic
  <2> QED
    BY <1>1, <1>2, <2>4, <2>5, <2>6 DEF OrderOK
<1> QED
  BY <1>3, <1>4

\* on_peer_removed takes the peer out of the map and out of the order.
LEMMA RemovedEffect ==
  ASSUME TypeOK, OrderOK, NEW p \in Peers, on_peer_removed(p)
  PROVE  /\ peers' = [peers EXCEPT ![p] = NoSession]
         /\ Connected' = Connected \ {p}
         /\ order' \in Seq(Peers)
         /\ OrderOK'
<1>1. peers' = [peers EXCEPT ![p] = NoSession]
  BY DEF on_peer_removed
<1>2. Connected' = Connected \ {p}
  BY <1>1 DEF TypeOK, Connected, NoSession
<1>3. order \in Seq(Peers) /\ DOMAIN order = 1..Len(order) /\ Len(order) \in Nat
  BY LenProperties DEF TypeOK
<1>4. PICK i \in 1..Len(order) : order[i] = p /\ order' = RemoveAt(order, i)
  BY <1>3 DEF on_peer_removed
<1>5. /\ order' \in Seq(Peers)
      /\ Len(order') = Len(order) - 1
      /\ \A j \in 1..(Len(order) - 1) : order'[j] = IF j < i THEN order[j] ELSE order[j + 1]
  BY <1>3, <1>4, RemoveAtProperties
<1>6. DOMAIN order' = 1..(Len(order) - 1)
  BY <1>5, LenProperties
<1>7. ASSUME NEW j \in DOMAIN order', NEW k \in DOMAIN order', order'[j] = order'[k]
      PROVE  j = k
  <2> DEFINE From(m) == IF m < i THEN m ELSE m + 1
  <2>1. /\ From(j) \in DOMAIN order /\ order'[j] = order[From(j)]
        /\ From(k) \in DOMAIN order /\ order'[k] = order[From(k)]
    BY <1>3, <1>5, <1>6
  <2>2. From(j) = From(k)
    <3> HIDE DEF From
    <3> QED
      BY <1>7, <2>1 DEF OrderOK
  <2> QED
    BY <1>3, <1>6, <2>2
<1>8. ASSUME NEW q \in Peers
      PROVE  q \in Connected' <=> \E j \in DOMAIN order' : order'[j] = q
  <2>1. ASSUME NEW j \in DOMAIN order', order'[j] = q
        PROVE  q \in Connected'
    <3>1. PICK k \in 1..Len(order) : order[k] = q /\ k # i
      <4>1. CASE j < i
        BY <2>1, <4>1, <1>3, <1>5, <1>6
      <4>2. CASE ~(j < i)
        <5>1. order[j + 1] = q /\ j + 1 \in 1..Len(order) /\ j + 1 # i
          BY <2>1, <4>2, <1>3, <1>5, <1>6
        <5> QED
          BY <5>1
      <4> QED
        BY <4>1, <4>2
    <3>2. q \in Connected /\ q # p
      BY <3>1, <1>3, <1>4 DEF OrderOK
    <3> QED
      BY <3>2, <1>2
  <2>2. ASSUME q \in Connected'
        PROVE  \E j \in DOMAIN order' : order'[j] = q
    <3>1. PICK k \in 1..Len(order) : order[k] = q /\ k # i
      BY <2>2, <1>2, <1>3, <1>4 DEF OrderOK
    <3>2. CASE k < i
      <4>1. k \in DOMAIN order' /\ order'[k] = q
        BY <3>1, <3>2, <1>5, <1>6
      <4> QED
        BY <4>1
    <3>3. CASE k > i
      <4>1. k - 1 \in 1..(Len(order) - 1) /\ ~(k - 1 < i) /\ (k - 1) + 1 = k
        BY <3>1, <3>3
      <4>2. k - 1 \in DOMAIN order' /\ order'[k - 1] = q
        BY <3>1, <4>1, <1>5, <1>6
      <4> QED
        BY <4>2
    <3> QED
      BY <3>1, <3>2, <3>3
  <2> QED
    BY <2>1, <2>2
<1> QED
  BY <1>1, <1>2, <1>5, <1>7, <1>8 DEF OrderOK

-----------------------------------------------------------------------------
(* Every step preserves the types *)

EventNumbered(e, n) == e.session <= n /\ (e.kind = "established" => e.session # NoSession)

\* Sessions are numbered as they open; an event that announces one carries its number.
\* Nothing is queued before the manager listens.
Numbered ==
  /\ ~listening => events = <<>>
  /\ \A p \in Peers : sess[p] <= opened /\ peers[p] <= opened
  /\ \A i \in DOMAIN events : EventNumbered(events[i], opened)

Base == TypeOK /\ OrderOK /\ Waits /\ Control /\ Numbered

\* The network's types do not depend on the manager.
LEMMA SessionsFrame ==
  ASSUME SessionsTypeOK, UNCHANGED netVars
  PROVE  SessionsTypeOK'
BY DEF SessionsTypeOK, netVars

\* The next report is a report, and one of an opening names its session.
LEMMA HeadEvent ==
  ASSUME TypeOK, Numbered, events # <<>>
  PROVE  /\ Head(events) \in Event
         /\ Head(events) = events[1]
         /\ Len(events) \in Nat \ {0}
         /\ Head(events).kind = "established" => Head(events).session # NoSession
         /\ Head(events).session <= opened
         /\ Tail(events) \in Seq(Event)
         /\ Len(Tail(events)) = Len(events) - 1
         /\ \A i \in 1..(Len(events) - 1) : Tail(events)[i] = events[i + 1]
<1>1. events \in Seq(Event)
  BY DEF TypeOK, SessionsTypeOK
<1>2. Len(events) \in Nat \ {0} /\ DOMAIN events = 1..Len(events)
  BY <1>1, EmptySeq, LenProperties
<1>3. Head(events) = events[1]
  BY <1>1
<1>4. 1 \in DOMAIN events
  BY <1>2
<1> QED
  BY <1>1, <1>2, <1>3, <1>4, HeadTailProperties DEF Numbered, EventNumbered

\* Handling a report keeps the types and the order.
LEMMA RecvEventType ==
  ASSUME Base, RecvEvent
  PROVE  TypeOK' /\ OrderOK'
<1> DEFINE e == Head(events)
<1>1. /\ e \in Event
      /\ e.kind = "established" => e.session # NoSession
      /\ Tail(events) \in Seq(Event)
      /\ Len(Tail(events)) = Len(events) - 1
      /\ Len(events) \in Nat
  BY HeadEvent DEF Base, RecvEvent
<1> HIDE DEF e
<1>2. SessionsTypeOK'
  <2>1. events' = Tail(events) /\ Len(events) <= EventCap
    BY DEF Base, TypeOK, SessionsTypeOK, RecvEvent
  <2>2. events' \in Seq(Event) /\ Len(events') <= EventCap
    BY <1>1, <2>1, SessionsAssumption
  <2> QED
    BY <2>2 DEF Base, TypeOK, SessionsTypeOK, RecvEvent
<1>3. e.peer \in Peers /\ e.session \in Nat
  BY <1>1 DEF Event
<1>4. /\ peers' \in [Peers -> Nat]
      /\ order' \in Seq(Peers)
      /\ event_tx' \in Seq(ManagerEvent) /\ Len(event_tx') <= FeedCap
      /\ OrderOK'
  <2>1. handle_network_event(e)
    BY DEF RecvEvent, e
  <2>2. CASE e.kind = "established" /\ on_peer_connected(e.peer, e.session)
    <3>1. e.session \in Nat \ {0}
      BY <2>2, <1>1, <1>3 DEF NoSession
    <3>2. event_tx' \in Seq(ManagerEvent) /\ Len(event_tx') <= FeedCap
      BY <2>2, <1>3, FeedType DEF on_peer_connected, Base
    <3>3. /\ peers' = [peers EXCEPT ![e.peer] = e.session]
          /\ order' \in Seq(Peers)
          /\ OrderOK'
      BY <2>2, <3>1, <1>3, ConnectedEffect DEF Base
    <3> QED
      BY <3>1, <3>2, <3>3 DEF Base, TypeOK
  <2>3. CASE on_peer_removed(e.peer)
    <3>1. event_tx' \in Seq(ManagerEvent) /\ Len(event_tx') <= FeedCap
      BY <2>3, <1>3, FeedType DEF on_peer_removed, Base
    <3>2. /\ peers' = [peers EXCEPT ![e.peer] = NoSession]
          /\ order' \in Seq(Peers)
          /\ OrderOK'
      BY <2>3, <1>3, RemovedEffect DEF Base
    <3> QED
      BY <3>1, <3>2 DEF Base, TypeOK, NoSession
  <2>4. CASE UNCHANGED mapVars
    BY <2>4 DEF Base, TypeOK, OrderOK, Connected, mapVars
  <2> QED
    BY <2>1, <2>2, <2>3, <2>4 DEF handle_network_event, from_session
<1> QED
  BY <1>2, <1>4 DEF Base, TypeOK, RecvEvent, fetchVars, callVars

\* An eviction keeps the types and the order.
LEMMA EvictType ==
  ASSUME Base, Evict
  PROVE  TypeOK' /\ OrderOK'
<1>1. Head(to_evict) \in Peers /\ Tail(to_evict) \in Seq(Peers)
  BY HeadTailProperties DEF Base, TypeOK, Evict
<1>2. on_peer_removed(Head(to_evict))
  BY DEF Evict
<1>3. event_tx' \in Seq(ManagerEvent) /\ Len(event_tx') <= FeedCap
  BY <1>1, <1>2, FeedType DEF on_peer_removed, Base
<1>4. /\ peers' = [peers EXCEPT ![Head(to_evict)] = NoSession]
      /\ order' \in Seq(Peers)
      /\ OrderOK'
  BY <1>1, <1>2, RemovedEffect DEF Base
<1>5. SessionsTypeOK'
  BY SessionsFrame DEF Base, TypeOK, Evict
<1> QED
  BY <1>1, <1>3, <1>4, <1>5 DEF Base, TypeOK, Evict, callVars, NoSession

\* The order only changes with the map or itself.
LEMMA OrderFrame ==
  ASSUME OrderOK, UNCHANGED <<peers, order>>
  PROVE  OrderOK'
BY DEF OrderOK, Connected

\* A caller's step keeps the types and the order.
LEMMA CallerType ==
  ASSUME Base, CallerStep
  PROVE  TypeOK' /\ OrderOK'
<1> USE DEF Base
<1>1. CASE DropHandles
  BY <1>1, SessionsFrame, OrderFrame DEF DropHandles, TypeOK, mapVars, fetchVars
<1>2. ASSUME NEW c \in Callers, StartCall(c)
      PROVE  TypeOK' /\ OrderOK'
  <2>1. NoOutcome \in Outcome
    BY ResultType DEF NoOutcome
  <2> QED
    BY <1>2, <2>1, SessionsFrame, OrderFrame DEF StartCall, TypeOK, mapVars, fetchVars
<1>3. ASSUME NEW c \in Callers, SendCommand(c)
      PROVE  TypeOK' /\ OrderOK'
  <2>1. cmd_rx' \in Seq(Callers) /\ Len(cmd_rx') <= CmdCap
    BY <1>3, AppendProperties, ManagerAssumption DEF SendCommand, TypeOK
  <2> QED
    BY <1>3, <2>1, SessionsFrame, OrderFrame DEF SendCommand, TypeOK, mapVars, fetchVars
<1>4. ASSUME NEW c \in Callers, SendFails(c) \/ ReplyDropped(c)
      PROVE  TypeOK' /\ OrderOK'
  <2>1. call[c].peer \in Peers \cup {NoPeer}
    BY DEF TypeOK, Call
  <2>2. \E r \in Outcome : Return(c, r)
    BY <1>4, <2>1, ResultType DEF SendFails, ReplyDropped, ErrorKinds
  <2>3. /\ status' \in [Callers -> {"idle", "sending", "waiting", "done"}]
        /\ outcome' \in [Callers -> Outcome]
        /\ call' \in [Callers -> Call]
        /\ handle_up' \in BOOLEAN
    BY <2>2, ReturnType
  <2>4. UNCHANGED <<netVars, mapVars, rr_index, cmd_rx, fetchVars>>
    BY <1>4 DEF SendFails, ReplyDropped
  <2> QED
    BY <2>3, <2>4, SessionsFrame, OrderFrame DEF TypeOK, mapVars, fetchVars
<1> QED
  BY <1>1, <1>2, <1>3, <1>4 DEF CallerStep

\* A request keeps the network's types.
LEMMA AskType ==
  ASSUME SessionsTypeOK, NEW p \in Peers, Ask(p)
  PROVE  SessionsTypeOK'
BY DEF SessionsTypeOK, Ask, RequestStates, Unanswered

\* Taking a command keeps the types and the order.
LEMMA RecvCommandType ==
  ASSUME Base, RecvCommand
  PROVE  TypeOK' /\ OrderOK'
<1> USE DEF Base
<1> DEFINE c == Head(cmd_rx)
<1>1. c \in Callers /\ cmd_rx' \in Seq(Callers) /\ Len(cmd_rx') <= CmdCap
  <2>1. cmd_rx \in Seq(Callers) /\ cmd_rx # <<>> /\ Len(cmd_rx) <= CmdCap
    BY DEF RecvCommand, TypeOK
  <2>2. Head(cmd_rx) \in Callers /\ Tail(cmd_rx) \in Seq(Callers) /\ Len(Tail(cmd_rx)) = Len(cmd_rx) - 1
    BY <2>1, HeadTailProperties
  <2> QED
    BY <2>1, <2>2, ManagerAssumption DEF RecvCommand
<1>2. handle_command(c)
  BY DEF RecvCommand
<1> HIDE DEF c
<1>3. call[c].peer \in Peers \cup {NoPeer}
  BY <1>1 DEF TypeOK, Call
<1>4. CASE \E r \in Outcome : AnswerAtOnce(c, r)
  <2>1. /\ status' \in [Callers -> {"idle", "sending", "waiting", "done"}]
        /\ outcome' \in [Callers -> Outcome]
        /\ call' \in [Callers -> Call]
        /\ handle_up' \in BOOLEAN
    BY <1>4, ReturnType DEF AnswerAtOnce
  <2>2. UNCHANGED <<netVars, mapVars, rr_index, fetchVars>>
    BY <1>4 DEF AnswerAtOnce
  <2> QED
    BY <1>1, <2>1, <2>2, SessionsFrame, OrderFrame DEF TypeOK, mapVars, fetchVars
<1>5. CASE ServeFrom(c)
  <2>1. call[c].peer \in Peers
    BY <1>5 DEF ServeFrom, Connected
  <2>2. SessionsTypeOK'
    BY <1>5, <2>1, AskType DEF ServeFrom, TypeOK
  <2> QED
    BY <1>1, <1>5, <2>2, OrderFrame DEF ServeFrom, TypeOK, mapVars, callVars
<1>6. CASE ServeAny(c)
  <2>1. Len(order) \in Nat \ {0}
    BY <1>6, OrderNotEmpty DEF ServeAny
  <2>2. rr_index' \in Nat
    BY <1>6, <2>1 DEF ServeAny, TypeOK
  <2>3. last_err' \in Outcome
    BY <1>6, ResultType DEF ServeAny, ErrorKinds
  <2> QED
    BY <1>1, <1>6, <2>2, <2>3, SessionsFrame, OrderFrame DEF ServeAny, TypeOK, mapVars, callVars
<1>7. CASE ServeList(c) \/ ServeNoPeers(c) \/ ServeFromFails(c)
  <2>1. Connected \in SUBSET Peers
    BY DEF Connected
  <2> QED
    BY <1>3, <1>4, <1>7, <2>1, ResultType, ListingType
    DEF ServeList, ServeNoPeers, ServeFromFails, ErrorKinds
<1> QED
  BY <1>2, <1>5, <1>6, <1>7 DEF handle_command

\* The candidate of the current attempt, while the loop runs.
LEMMA CurrentCandidate ==
  ASSUME Base, pc = "asking" /\ attempt < Len(order)
  PROVE  /\ Len(order) \in Nat \ {0}
         /\ Candidate(attempt) \in Peers
         /\ Candidate(attempt) \in Connected
<1>1. attempt \in Nat /\ order \in Seq(Peers)
  BY DEF Base, TypeOK
<1>2. Len(order) \in Nat \ {0}
  BY <1>1
<1>3. /\ Position(attempt) + 1 \in DOMAIN order
      /\ Candidate(attempt) = order[Position(attempt) + 1]
      /\ Candidate(attempt) \in Peers
  BY <1>1, <1>2, CandidateType, LenProperties DEF Base
<1>4. Candidate(attempt) \in Connected
  BY <1>3 DEF Base, OrderOK
<1> QED
  BY <1>2, <1>3, <1>4

\* The fetch loop keeps the types and the order.
LEMMA FetchStepType ==
  ASSUME Base, FetchStep, ~Evict
  PROVE  TypeOK' /\ OrderOK'
<1> USE DEF Base
<1>1. CASE TryNext
  <2>1. SessionsTypeOK'
    BY <1>1, CurrentCandidate, AskType DEF TryNext, TypeOK
  <2> QED
    BY <1>1, <2>1, OrderFrame DEF TryNext, TypeOK, mapVars, callVars
<1>2. CASE TryFails
  <2> DEFINE p == Candidate(attempt)
  <2>1. p \in Peers
    BY <1>2, CurrentCandidate DEF TryFails
  <2>2. to_evict' = Append(to_evict, p) /\ last_err' = Result("disconnected", p)
    BY <1>2 DEF TryFails
  <2> HIDE DEF p
  <2>3. to_evict' \in Seq(Peers) /\ last_err' \in Outcome
    BY <2>1, <2>2, AppendProperties, ResultType DEF TypeOK, ErrorKinds
  <2> QED
    BY <1>2, <2>3, SessionsFrame, OrderFrame DEF TryFails, TypeOK, mapVars, callVars
<1>3. CASE TakeAnswer /\ (FromAnswered \/ AnySucceeds \/ AnyFails)
  <2>1. Asked \in Peers
    BY <1>3, AskedConnected DEF TakeAnswer, Connected
  <2>2. SessionsTypeOK'
    BY <1>3 DEF TakeAnswer, TypeOK, SessionsTypeOK, RequestStates
  <2>3. req[Asked] \in {"none", "ok"} \cup ErrorKinds
    BY <1>3 DEF TakeAnswer, Answers, ErrorKinds
  <2>4. Result(req[Asked], Asked) \in Outcome /\ Result("ok", Asked) \in Outcome
    BY <2>1, <2>3, ResultType
  <2>5. order' \in Seq(Peers) /\ OrderOK'
    BY <1>3, OrderFrame DEF TakeAnswer, mapVars, TypeOK
  <2>6. CASE FromAnswered
    <3>1. NoOutcome \in Outcome
      BY ResultType DEF NoOutcome
    <3>2. /\ status' \in [Callers -> {"idle", "sending", "waiting", "done"}]
          /\ outcome' \in [Callers -> Outcome]
          /\ call' \in [Callers -> Call]
          /\ handle_up' \in BOOLEAN
      BY <2>4, <2>6, ReturnType DEF FromAnswered
    <3> QED
      BY <2>2, <2>5, <2>6, <3>1, <3>2 DEF FromAnswered, TakeAnswer, FetchDone, TypeOK, mapVars
  <2>7. CASE AnySucceeds
    <3>1. attempt \in Nat /\ Len(order) \in Nat \ {0}
      BY <2>7 DEF AnySucceeds, TakeAnswer, Control, TypeOK
    <3>2. Position(attempt) \in Nat
      <4>1. Position(attempt) \in 0..(Len(order) - 1)
        BY <3>1, CandidateType
      <4> QED
        BY <3>1, <4>1
    <3>3. rr_index' \in Nat
      BY <2>7, <3>1, <3>2 DEF AnySucceeds
    <3> QED
      BY <2>2, <2>4, <2>5, <2>7, <3>3 DEF AnySucceeds, TakeAnswer, TypeOK, mapVars, callVars
  <2>8. CASE AnyFails
    BY <2>2, <2>4, <2>5, <2>8 DEF AnyFails, TakeAnswer, TypeOK, mapVars, callVars
  <2> QED
    BY <1>3, <2>6, <2>7, <2>8
<1>4. CASE Exhausted
  BY <1>4, SessionsFrame, OrderFrame DEF Exhausted, TypeOK, mapVars, callVars
<1>5. CASE ReplyAny
  <2>1. NoOutcome \in Outcome
    BY ResultType DEF NoOutcome
  <2>2. last_err \in Outcome
    BY DEF TypeOK
  <2>3. /\ status' \in [Callers -> {"idle", "sending", "waiting", "done"}]
        /\ outcome' \in [Callers -> Outcome]
        /\ call' \in [Callers -> Call]
        /\ handle_up' \in BOOLEAN
    BY <1>5, <2>2, ReturnType DEF ReplyAny
  <2> QED
    BY <1>5, <2>1, <2>3, SessionsFrame, OrderFrame DEF ReplyAny, FetchDone, TypeOK, mapVars
<1> QED
  BY <1>1, <1>2, <1>3, <1>4, <1>5 DEF FetchStep, FromAnswered, AnySucceeds, AnyFails

\* Every step keeps the types and the order.
LEMMA TypeStep ==
  ASSUME Base, [Next]_vars
  PROVE  TypeOK' /\ OrderOK'
<1> USE DEF Base
<1>1. CASE RecvEvent
  BY <1>1, RecvEventType
<1>2. CASE RecvCommand
  BY <1>2, RecvCommandType
<1>3. CASE FetchStep
  BY <1>3, EvictType, FetchStepType
<1>4. CASE Stop
  BY <1>4, SessionsFrame, OrderFrame DEF Stop, TypeOK, mapVars, callVars
<1>5. CASE CallerStep
  BY <1>5, CallerType
<1>6. CASE Environment
  <2>1. UNCHANGED managerVars
    BY <1>6 DEF Environment, Outside
  <2>2. CASE Peers # {}
    <3>1. SessionsTypeOK'
      BY <1>6, <2>2, SessionsTypeStep DEF Environment, Outside, TypeOK
    <3> QED
      BY <2>1, <3>1, OrderFrame DEF TypeOK, managerVars, mapVars, fetchVars, callVars
  <2>3. CASE Outside(NetworkStops)
    BY <2>1, <2>3, OrderFrame
    DEF Outside, NetworkStops, TypeOK, SessionsTypeOK, managerVars, mapVars, fetchVars, callVars
  <2> QED
    BY <1>6, <2>2, <2>3 DEF Environment
<1>7. CASE ReadFeed
  <2>1. event_tx \in Seq(ManagerEvent) /\ event_tx # <<>> /\ Len(event_tx) <= FeedCap
    BY <1>7 DEF ReadFeed, TypeOK
  <2>2. Tail(event_tx) \in Seq(ManagerEvent) /\ Len(Tail(event_tx)) <= FeedCap
    BY <2>1, HeadTailProperties, ManagerAssumption
  <2>3. event_tx' \in Seq(ManagerEvent) /\ Len(event_tx') <= FeedCap
    <3>1. <<>> \in Seq(ManagerEvent) /\ Len(<<>>) = 0
      BY EmptySeq
    <3>2. event_tx' = Tail(event_tx) \/ event_tx' = <<>>
      BY <1>7 DEF ReadFeed
    <3>3. CASE event_tx' = Tail(event_tx)
      BY <2>2, <3>3
    <3>4. CASE event_tx' = <<>>
      BY <3>1, <3>4, ManagerAssumption
    <3> QED
      BY <3>2, <3>3, <3>4
  <2> QED
    BY <1>7, <2>3, SessionsFrame, OrderFrame DEF ReadFeed, TypeOK, fetchVars, callVars
<1>8. CASE UNCHANGED vars
  BY <1>8, SessionsFrame, OrderFrame DEF vars, managerVars, mapVars, fetchVars, callVars, TypeOK
<1>9. CASE Subscribe
  BY <1>9, OrderFrame DEF Subscribe, TypeOK, SessionsTypeOK, mapVars, fetchVars
<1> QED
  BY <1>1, <1>2, <1>3, <1>4, <1>5, <1>6, <1>7, <1>8, <1>9 DEF Next, ManagerStep

-----------------------------------------------------------------------------
(* Every step preserves the rest of Base *)

\* Who waits only changes with the queue, the loop and the callers.
LEMMA WaitsFrame ==
  ASSUME Waits, UNCHANGED <<pc, cmd_rx, status, cur>>
  PROVE  Waits'
BY DEF Waits

\* Every step keeps the callers that wait known to the manager.
LEMMA WaitsStep ==
  ASSUME Base, [Next]_vars
  PROVE  Waits'
<1> USE DEF Base
<1>0. /\ cmd_rx \in Seq(Callers)
      /\ DOMAIN cmd_rx = 1..Len(cmd_rx)
      /\ Len(cmd_rx) \in Nat
      /\ \A i \in DOMAIN cmd_rx : cmd_rx[i] \in Callers
  BY ElementOfSeq, LenProperties DEF TypeOK
<1>1. CASE Subscribe \/ RecvEvent \/ Environment \/ ReadFeed \/ DropHandles \/ UNCHANGED vars
  BY <1>1, WaitsFrame
  DEF Subscribe, RecvEvent, Environment, Outside, ReadFeed, DropHandles, vars, managerVars, fetchVars, callVars
<1>2. ASSUME NEW c \in Callers, StartCall(c)
      PROVE  Waits'
  BY <1>0, <1>2 DEF StartCall, Waits, TypeOK, fetchVars
<1>3. ASSUME NEW c \in Callers, SendCommand(c)
      PROVE  Waits'
  <2>1. /\ DOMAIN cmd_rx' = 1..(Len(cmd_rx) + 1)
        /\ \A i \in 1..Len(cmd_rx) : cmd_rx'[i] = cmd_rx[i]
        /\ cmd_rx'[Len(cmd_rx) + 1] = c
    <3>1. cmd_rx' = Append(cmd_rx, c)
      BY <1>3 DEF SendCommand
    <3> QED
      BY <3>1, <1>0, AppendProperties, LenProperties
  <2>2. c # cur /\ \A i \in 1..Len(cmd_rx) : cmd_rx[i] # c
    <3>1. status[c] = "sending" /\ pc # "stopped"
      BY <1>3 DEF SendCommand
    <3>2. \A i \in 1..Len(cmd_rx) : status[cmd_rx[i]] = "waiting"
      BY <3>1, <1>0 DEF Waits
    <3>3. pc = "select" \/ pc \in {"asking", "waiting", "evicting"}
      BY <3>1 DEF TypeOK
    <3> QED
      BY <3>1, <3>2, <3>3, ManagerAssumption DEF Waits
  <2>3. /\ pc' = pc /\ cur' = cur /\ pc # "stopped"
        /\ status' = [status EXCEPT ![c] = "waiting"]
    BY <1>3 DEF SendCommand, fetchVars
  <2>4. \A i \in DOMAIN cmd_rx' : status'[cmd_rx'[i]] = "waiting" /\ cmd_rx'[i] # cur'
    BY <1>0, <2>1, <2>2, <2>3 DEF Waits, TypeOK
  <2>5. \A i, j \in DOMAIN cmd_rx' : cmd_rx'[i] = cmd_rx'[j] => i = j
    <3>1. \A i \in 1..(Len(cmd_rx) + 1) : i \in 1..Len(cmd_rx) \/ i = Len(cmd_rx) + 1
      BY <1>0
    <3>2. \A i, j \in 1..Len(cmd_rx) : cmd_rx[i] = cmd_rx[j] => i = j
      BY <1>0, <2>3 DEF Waits
    <3> QED
      BY <2>1, <2>2, <3>1, <3>2
  <2> QED
    BY <2>2, <2>3, <2>4, <2>5 DEF Waits, TypeOK
<1>4. ASSUME NEW c \in Callers, SendFails(c) \/ ReplyDropped(c)
      PROVE  Waits'
  BY <1>4 DEF SendFails, ReplyDropped, Waits, fetchVars
<1>5. CASE RecvCommand
  <2> DEFINE c == Head(cmd_rx)
             t == Tail(cmd_rx)
  <2>1. /\ cmd_rx' = t /\ c = cmd_rx[1] /\ c \in Callers
        /\ DOMAIN t = 1..(Len(cmd_rx) - 1)
        /\ \A i \in 1..(Len(cmd_rx) - 1) : t[i] = cmd_rx[i + 1]
        /\ 1 \in DOMAIN cmd_rx
        /\ \A i \in 1..(Len(cmd_rx) - 1) : i + 1 \in DOMAIN cmd_rx
    <3>1. cmd_rx # <<>> /\ cmd_rx' = t
      BY <1>5 DEF RecvCommand
    <3>2. Len(cmd_rx) >= 1 /\ c = cmd_rx[1]
      BY <1>0, <3>1, EmptySeq
    <3>3. t \in Seq(Callers) /\ Len(t) = Len(cmd_rx) - 1 /\ \A i \in 1..Len(t) : t[i] = cmd_rx[i + 1]
      BY <1>0, <3>1, HeadTailProperties
    <3> HIDE DEF c, t
    <3>4. DOMAIN t = 1..(Len(cmd_rx) - 1)
      BY <3>3, LenProperties
    <3> QED
      BY <1>0, <3>1, <3>2, <3>3, <3>4
  <2>2. handle_command(c) /\ pc = "select"
    BY <1>5 DEF RecvCommand
  <2> HIDE DEF c, t
  <2>3. \A i \in DOMAIN t : status[t[i]] = "waiting" /\ t[i] # c /\ t[i] # NoCaller
    BY <1>0, <2>1, <2>2, ManagerAssumption DEF Waits
  <2>4. \A i, j \in DOMAIN t : t[i] = t[j] => i = j
    BY <1>0, <2>1, <2>2 DEF Waits
  <2>5. status[c] = "waiting"
    BY <2>1, <2>2 DEF Waits
  <2>6. CASE ServeFrom(c) \/ ServeAny(c)
    <3>1. cur' = c /\ pc' \in {"waiting", "asking"} /\ status' = status
      BY <2>6 DEF ServeFrom, ServeAny, callVars
    <3> QED
      BY <2>1, <2>3, <2>4, <2>5, <3>1 DEF Waits
  <2>7. CASE ServeList(c) \/ ServeNoPeers(c) \/ ServeFromFails(c)
    <3>1. status' = [status EXCEPT ![c] = "done"] /\ UNCHANGED fetchVars
      BY <2>7 DEF ServeList, ServeNoPeers, ServeFromFails, AnswerAtOnce, Return
    <3> QED
      BY <2>1, <2>2, <2>3, <2>4, <3>1 DEF Waits, TypeOK, fetchVars
  <2> QED
    BY <2>2, <2>6, <2>7 DEF handle_command
<1>6. CASE TryNext \/ TryFails \/ AnySucceeds \/ AnyFails \/ Exhausted \/ Evict
  <2>1. /\ UNCHANGED <<cmd_rx, status, cur>>
        /\ pc \in {"asking", "waiting", "evicting"} /\ pc' \in {"asking", "waiting", "evicting"}
    BY <1>6
    DEF TryNext, TryFails, AnySucceeds, AnyFails, Exhausted, Evict, TakeAnswer, callVars
  <2> QED
    BY <2>1 DEF Waits
<1>7. CASE FromAnswered \/ ReplyAny
  <2>1. /\ UNCHANGED cmd_rx
        /\ pc \in {"waiting", "evicting"} /\ pc' = "select"
        /\ cur' = NoCaller
        /\ status' = [status EXCEPT ![cur] = "done"]
    BY <1>7 DEF FromAnswered, ReplyAny, TakeAnswer, FetchDone, Return
  <2> QED
    BY <1>0, <2>1, ManagerAssumption DEF Waits, TypeOK
<1>8. CASE Stop
  BY <1>8 DEF Stop, Waits
<1> QED
  BY <1>1, <1>2, <1>3, <1>4, <1>5, <1>6, <1>7, <1>8
  DEF Next, ManagerStep, FetchStep, CallerStep

\* Every step keeps the control state of the loop.
LEMMA ControlStep ==
  ASSUME Base, TypeOK', OrderOK', [Next]_vars
  PROVE  Control'
<1> USE DEF Base
<1>0. order \in Seq(Peers) /\ Len(order) \in Nat /\ attempt \in Nat
  BY DEF TypeOK
<1>1. CASE Subscribe \/ Environment \/ ReadFeed \/ DropHandles \/ UNCHANGED vars
  <2>1. UNCHANGED <<peers, order, pc, cur, attempt, to_evict, call>>
    BY <1>1 DEF Subscribe, Environment, Outside, ReadFeed, DropHandles, vars, managerVars, mapVars, fetchVars, callVars
  <2> QED
    BY <2>1 DEF Control, Connected
<1>2. CASE RecvEvent
  BY <1>2 DEF RecvEvent, Control, fetchVars
<1>3. ASSUME NEW c \in Callers, StartCall(c)
      PROVE  Control'
  <2>1. /\ UNCHANGED <<peers, order, pc, cur, attempt, to_evict>>
        /\ \A d \in Callers : d # c => call'[d] = call[d]
        /\ status[c] # "waiting"
    BY <1>3 DEF StartCall, TypeOK, mapVars, fetchVars
  <2>2. pc \in {"asking", "waiting", "evicting"} => call'[cur] = call[cur]
    BY <2>1 DEF Waits
  <2> QED
    BY <2>1, <2>2 DEF Control, Connected
<1>4. ASSUME NEW c \in Callers, SendCommand(c) \/ SendFails(c) \/ ReplyDropped(c)
      PROVE  Control'
  <2>1. UNCHANGED <<peers, order, pc, cur, attempt, to_evict, call>>
    BY <1>4 DEF SendCommand, SendFails, ReplyDropped, Return, mapVars, fetchVars
  <2> QED
    BY <2>1 DEF Control, Connected
<1>5. CASE RecvCommand
  <2> DEFINE c == Head(cmd_rx)
  <2>1. handle_command(c) /\ pc = "select"
    BY <1>5 DEF RecvCommand
  <2> HIDE DEF c
  <2>2. CASE ServeList(c) \/ ServeNoPeers(c) \/ ServeFromFails(c)
    <3>1. UNCHANGED fetchVars
      BY <2>2 DEF ServeList, ServeNoPeers, ServeFromFails, AnswerAtOnce
    <3> QED
      BY <2>1, <3>1 DEF Control, fetchVars
  <2>3. CASE ServeFrom(c)
    BY <2>3 DEF ServeFrom, Control, Connected, callVars, mapVars
  <2>4. CASE ServeAny(c)
    <3>1. order' = order /\ call' = call /\ pc' = "asking" /\ cur' = c /\ attempt' = 0
      BY <2>4 DEF ServeAny, mapVars, callVars
    <3> QED
      BY <1>0, <2>4, <3>1 DEF ServeAny, Control
  <2> QED
    BY <2>1, <2>2, <2>3, <2>4 DEF handle_command
<1>6. CASE TryNext
  BY <1>6 DEF TryNext, Control, Connected, callVars, mapVars
<1>7. CASE TryFails
  BY <1>0, <1>7 DEF TryFails, Control, callVars, mapVars
<1>8. CASE FromAnswered
  BY <1>8 DEF FromAnswered, FetchDone, Control
<1>9. CASE AnySucceeds
  BY <1>9 DEF AnySucceeds, Control, callVars
<1>10. CASE AnyFails
  <2>1. /\ pc = "waiting" /\ pc' = "asking" /\ attempt' = attempt + 1
        /\ order' = order /\ call' = call /\ cur' = cur /\ call[cur].op = "any"
    BY <1>10 DEF AnyFails, TakeAnswer, mapVars, callVars
  <2> QED
    BY <1>0, <2>1 DEF Control
<1>11. CASE Exhausted
  BY <1>11 DEF Exhausted, Control, callVars
<1>12. CASE Evict
  BY <1>12 DEF Evict, Control, callVars
<1>13. CASE ReplyAny
  BY <1>13 DEF ReplyAny, FetchDone, Control
<1>14. CASE Stop
  BY <1>14 DEF Stop, Control
<1> QED
  BY <1>1, <1>2, <1>3, <1>4, <1>5, <1>6, <1>7, <1>8, <1>9, <1>10, <1>11, <1>12, <1>13, <1>14
  DEF Next, ManagerStep, FetchStep, CallerStep

\* What an event queue holds after a push: the pushed value, and older ones.
LEMMA PushMembers ==
  ASSUME NEW q \in Seq(Event), Len(q) <= EventCap, NEW e \in Event,
         NEW i \in DOMAIN Push(q, e, EventCap)
  PROVE  Push(q, e, EventCap)[i] = e \/ \E j \in DOMAIN q : Push(q, e, EventCap)[i] = q[j]
<1> DEFINE d == IF Full(q, EventCap) THEN 1 ELSE 0
           r == Push(q, e, EventCap)
<1>1. /\ r \in Seq(Event)
      /\ Len(r) = Len(q) + 1 - d
      /\ \A k \in 1..(Len(q) - d) : r[k] = q[k + d]
      /\ r[Len(q) + 1 - d] = e
  BY PushProperties, SessionsAssumption
<1>2. d \in {0, 1} /\ Len(q) \in Nat /\ DOMAIN q = 1..Len(q)
  BY LenProperties
<1> HIDE DEF d, r
<1>3. i \in 1..(Len(q) + 1 - d)
  BY <1>1, LenProperties DEF r
<1>4. CASE i = Len(q) + 1 - d
  BY <1>1, <1>4 DEF r
<1>5. CASE i # Len(q) + 1 - d
  <2>1. i \in 1..(Len(q) - d) /\ i + d \in 1..Len(q)
    BY <1>2, <1>3, <1>5
  <2>2. r[i] = q[i + d] /\ i + d \in DOMAIN q
    BY <1>1, <1>2, <2>1
  <2> QED
    BY <2>2 DEF r
<1> QED
  BY <1>4, <1>5

\* A report adds itself to the stream and nothing else.
LEMMA SentMembers ==
  ASSUME NEW q \in Seq(Event), Len(q) <= EventCap, NEW e \in Event,
         NEW i \in DOMAIN Sent(q, e)
  PROVE  Sent(q, e)[i] = e \/ \E j \in DOMAIN q : Sent(q, e)[i] = q[j]
BY PushMembers DEF Sent

\* The steps that touch the map, the sessions or the events.
LEMMA DirectorySteps ==
  ASSUME [Next]_vars
  PROVE  \/ RecvEvent
         \/ Evict
         \/ Subscribe
         \/ \E p \in Peers : \/ Outside(SessionOpens(p))
                             \/ Outside(ReportClosed(p)) \/ Outside(ReportRemoved(p))
         \/ UNCHANGED <<opened, listening, events, sess, peers, lagged, lost>>
<1>1. ASSUME NEW p \in Peers,
             Outside(SessionDies(p)) \/ Outside(SessionTakes(p)) \/ Outside(SessionAnswers(p))
      PROVE  UNCHANGED <<opened, listening, events, sess, peers, lagged, lost>>
  BY <1>1 DEF Outside, SessionDies, SessionTakes, SessionAnswers, managerVars, mapVars
<1>2. CASE Outside(NetworkStops)
  BY <1>2 DEF Outside, NetworkStops, managerVars, mapVars
<1>3. CASE RecvCommand \/ Stop
  BY <1>3
  DEF RecvCommand, handle_command, ServeList, ServeNoPeers, ServeFromFails, ServeFrom, ServeAny,
      AnswerAtOnce, Ask, Stop, netVars, mapVars
<1>4. CASE TryNext \/ TryFails \/ FromAnswered \/ AnySucceeds \/ AnyFails \/ Exhausted \/ ReplyAny
  BY <1>4
  DEF TryNext, TryFails, FromAnswered, AnySucceeds, AnyFails, Exhausted, ReplyAny, TakeAnswer,
      Ask, netVars, mapVars
<1>5. CASE CallerStep \/ ReadFeed \/ UNCHANGED vars
  BY <1>5
  DEF CallerStep, StartCall, SendCommand, SendFails, ReplyDropped, DropHandles, ReadFeed, vars,
      managerVars, netVars, mapVars
<1> QED
  BY <1>1, <1>2, <1>3, <1>4, <1>5 DEF Next, ManagerStep, FetchStep, Environment

\* Every step keeps the sessions numbered.
LEMMA NumberedStep ==
  ASSUME Base, TypeOK', [Next]_vars
  PROVE  Numbered'
<1> USE DEF Base
<1>0. /\ events \in Seq(Event) /\ Len(events) <= EventCap /\ DOMAIN events = 1..Len(events)
      /\ opened \in Nat
      /\ sess \in [Peers -> Nat] /\ peers \in [Peers -> Nat]
      /\ \A i \in DOMAIN events : EventNumbered(events[i], opened) /\ events[i].session \in Nat
  <2>1. events \in Seq(Event) /\ DOMAIN events = 1..Len(events)
    BY LenProperties DEF TypeOK, SessionsTypeOK
  <2>2. \A i \in DOMAIN events : events[i] \in Event
    BY <2>1, ElementOfSeq
  <2> QED
    BY <2>1, <2>2 DEF TypeOK, SessionsTypeOK, Numbered, Event
<1>1. CASE UNCHANGED <<opened, listening, events, sess, peers>>
  BY <1>1 DEF Numbered
<1>6. CASE Subscribe
  BY <1>6 DEF Subscribe, mapVars, Numbered
<1>2. CASE RecvEvent
  <2> DEFINE e == Head(events)
             t == Tail(events)
  <2>1. /\ e \in Event /\ e.session <= opened
        /\ \A i \in 1..(Len(events) - 1) : t[i] = events[i + 1]
        /\ t \in Seq(Event) /\ Len(t) = Len(events) - 1 /\ Len(events) \in Nat \ {0}
    BY <1>2, HeadEvent DEF RecvEvent
  <2>2. /\ events' = t /\ opened' = opened /\ sess' = sess /\ handle_network_event(e)
        /\ listening' /\ events # <<>>
    BY <1>2 DEF RecvEvent, Numbered, TypeOK, SessionsTypeOK
  <2> HIDE DEF e, t
  <2>3. \A i \in DOMAIN t : EventNumbered(t[i], opened)
    <3>1. DOMAIN t = 1..(Len(events) - 1)
      BY <2>1, LenProperties
    <3>2. \A i \in 1..(Len(events) - 1) : i + 1 \in DOMAIN events
      BY <1>0, <2>1
    <3> QED
      BY <1>0, <2>1, <3>1, <3>2
  <2>4. \A p \in Peers : peers'[p] \in {peers[p], NoSession, e.session}
    BY <1>0, <2>2
    DEF handle_network_event, from_session, on_peer_connected, on_peer_removed, mapVars
  <2>5. ASSUME NEW p \in Peers
        PROVE  peers'[p] <= opened
    <3>1. peers[p] <= opened /\ NoSession <= opened
      BY <1>0 DEF Numbered, NoSession
    <3> QED
      BY <2>1, <2>4, <3>1
  <2> QED
    BY <2>2, <2>3, <2>5 DEF Numbered
<1>3. CASE Evict
  <2>1. \A p \in Peers : peers'[p] \in {peers[p], NoSession}
    BY <1>0, <1>3 DEF Evict, on_peer_removed
  <2>2. UNCHANGED <<opened, listening, events, sess>>
    BY <1>3 DEF Evict, netVars
  <2> QED
    BY <1>0, <2>1, <2>2 DEF Numbered, NoSession
<1>4. ASSUME NEW p \in Peers, Outside(SessionOpens(p))
      PROVE  Numbered'
  <2> DEFINE e == Established(p, opened + 1)
  <2>1. /\ events' = Sent(events, e) /\ opened' = opened + 1 /\ listening' = listening
        /\ sess' = [sess EXCEPT ![p] = opened + 1] /\ peers' = peers
    BY <1>4 DEF Outside, SessionOpens, Notify, managerVars, mapVars
  <2>2. e \in Event /\ EventNumbered(e, opened + 1)
    BY <1>0 DEF Event, EventNumbered, NoSession, Established
  <2> HIDE DEF e
  <2>3. \A i \in DOMAIN events' : events'[i] = e \/ \E j \in DOMAIN events : events'[i] = events[j]
    BY <1>0, <2>1, <2>2, SentMembers
  <2>4. \A j \in DOMAIN events : EventNumbered(events[j], opened + 1)
    BY <1>0 DEF EventNumbered
  <2>5. \A i \in DOMAIN events' : EventNumbered(events'[i], opened')
    BY <2>1, <2>2, <2>3, <2>4
  <2>6. \A q \in Peers : sess'[q] <= opened' /\ peers'[q] <= opened'
    BY <1>0, <2>1 DEF Numbered
  <2>7. ~listening' => events' = <<>>
    BY <2>1 DEF Numbered, Sent
  <2> QED
    BY <2>5, <2>6, <2>7 DEF Numbered
<1>5. ASSUME NEW p \in Peers, Outside(ReportClosed(p)) \/ Outside(ReportRemoved(p))
      PROVE  Numbered'
  <2> DEFINE c == Closed(p, sess[p])
             r == Removed(p)
             q == Sent(events, c)
  <2>1. /\ c \in Event /\ EventNumbered(c, opened)
        /\ r \in Event /\ EventNumbered(r, opened)
    BY <1>0 DEF Event, EventNumbered, NoSession, Numbered, Closed, Removed
  <2>2. /\ events' \in {q, Sent(q, r)} /\ opened' = opened /\ listening' = listening
        /\ sess' = [sess EXCEPT ![p] = NoSession] /\ peers' = peers
    BY <1>5 DEF Outside, ReportClosed, ReportRemoved, Notify, managerVars, mapVars
  <2> HIDE DEF c, r
  <2>3. q \in Seq(Event) /\ Len(q) <= EventCap /\ (~listening => q = events)
    BY <1>0, <2>1, SentEvent DEF Sent
  <2>4. \A i \in DOMAIN q : q[i] = c \/ \E j \in DOMAIN events : q[i] = events[j]
    BY <1>0, <2>1, SentMembers
  <2>5. \A i \in DOMAIN q : EventNumbered(q[i], opened)
    BY <1>0, <2>1, <2>4
  <2> HIDE DEF q
  <2>6. \A i \in DOMAIN Sent(q, r) :
           Sent(q, r)[i] = r \/ \E j \in DOMAIN q : Sent(q, r)[i] = q[j]
    BY <2>1, <2>3, SentMembers
  <2>7. \A i \in DOMAIN events' : EventNumbered(events'[i], opened)
    BY <2>1, <2>2, <2>5, <2>6
  <2>8. \A x \in Peers : sess'[x] <= opened' /\ peers'[x] <= opened'
    BY <1>0, <2>2 DEF Numbered, NoSession
  <2>9. ~listening => events' = events
    BY <2>2, <2>3 DEF Sent
  <2> QED
    BY <2>2, <2>7, <2>8, <2>9 DEF Numbered
<1> QED
  BY <1>1, <1>2, <1>3, <1>4, <1>5, <1>6, DirectorySteps

-----------------------------------------------------------------------------

\* The base invariant holds initially.
LEMMA BaseInit == Init => Base
<1> SUFFICES ASSUME Init PROVE Base
  OBVIOUS
<1>1. NoOutcome \in Outcome
  BY ResultType DEF NoOutcome
<1>2. SessionsTypeOK
  <2>1. events \in Seq(Event) /\ Len(events) <= EventCap
    BY SessionsAssumption, EmptySeq DEF Init, SessionsInit
  <2> QED
    BY <2>1 DEF Init, SessionsInit, SessionsTypeOK, NoSession, RequestStates
<1>3. TypeOK
  <2>1. /\ order \in Seq(Peers)
        /\ cmd_rx \in Seq(Callers) /\ Len(cmd_rx) <= CmdCap
        /\ event_tx \in Seq(ManagerEvent) /\ Len(event_tx) <= FeedCap
        /\ to_evict \in Seq(Peers)
    BY ManagerAssumption, EmptySeq DEF Init
  <2>2. /\ peers \in [Peers -> Nat]
        /\ status \in [Callers -> {"idle", "sending", "waiting", "done"}]
        /\ call \in [Callers -> Call]
        /\ outcome \in [Callers -> Outcome]
    BY <1>1 DEF Init, Call, NoSession
  <2> QED
    BY <1>1, <1>2, <2>1, <2>2 DEF Init, TypeOK
<1> QED
  BY <1>3, ManagerAssumption
  DEF Init, SessionsInit, Base, OrderOK, Waits, Control, Numbered, Connected, NoSession

\* Base is inductive.
LEMMA BaseStep ==
  ASSUME Base, [Next]_vars
  PROVE  Base'
<1>1. TypeOK' /\ OrderOK'
  BY TypeStep
<1> QED
  BY <1>1, WaitsStep, ControlStep, NumberedStep DEF Base

\* Every behaviour of the manager stays within Base.
THEOREM BaseInvariant == Spec => []Base
BY BaseInit, BaseStep, PTL DEF Spec

\* The state of the manager, of its callers and of the sessions it talks to keeps its
\* types, and no channel ever holds more than its capacity.
THEOREM TypeCorrect == Spec => []TypeOK
BY BaseInvariant, PTL DEF Base

\* While a fetch runs, its caller waits and does not change what it asked for.
LEMMA CallKept ==
  ASSUME Base, [Next]_vars, pc \in {"asking", "waiting", "evicting"}, cur' = cur
  PROVE  call'[cur] = call[cur]
<1>0. cur \in Callers /\ status[cur] = "waiting" /\ call \in [Callers -> Call]
  BY DEF Base, Waits, TypeOK
<1>1. ASSUME NEW c \in Callers, StartCall(c)
      PROVE  call'[cur] = call[cur]
  BY <1>0, <1>1 DEF StartCall
<1>2. ASSUME NEW c \in Callers, SendCommand(c) \/ SendFails(c) \/ ReplyDropped(c)
      PROVE  call' = call
  BY <1>2 DEF SendCommand, SendFails, ReplyDropped, Return
<1>3. CASE DropHandles \/ Environment \/ ReadFeed \/ UNCHANGED vars
  BY <1>3 DEF DropHandles, Environment, Outside, ReadFeed, vars, managerVars, callVars
<1>4. CASE Subscribe \/ RecvEvent \/ RecvCommand \/ Stop
  BY <1>4
  DEF Subscribe, RecvEvent, RecvCommand, handle_command, ServeList, ServeNoPeers, ServeFromFails,
      ServeFrom, ServeAny, AnswerAtOnce, Return, Stop, callVars
<1>5. CASE FetchStep
  BY <1>5
  DEF FetchStep, TryNext, TryFails, FromAnswered, AnySucceeds, AnyFails, Exhausted, Evict, ReplyAny,
      Return, callVars
<1> QED
  BY <1>1, <1>2, <1>3, <1>4, <1>5 DEF Next, ManagerStep, CallerStep

-----------------------------------------------------------------------------
(* One request at a time, and who may be evicted *)

\* The manager has at most one request out: only the session it waits for holds one.
OneRequest ==
  \A p \in Peers : chan[p] > 0 => pc = "waiting" /\ p = Asked /\ req[p] = "queued" /\ chan[p] = 1

\* The request in flight only changes with the channels and the loop.
LEMMA OneRequestFrame ==
  ASSUME OneRequest, UNCHANGED <<chan, req, pc, cur, attempt, rr_index, order>>,
         pc = "waiting" => call'[cur] = call[cur]
  PROVE  OneRequest'
BY DEF OneRequest, Asked, Candidate, Position

\* Every step keeps the requests one at a time.
LEMMA OneRequestStep ==
  ASSUME Base, OneRequest, [Next]_vars
  PROVE  OneRequest'
<1> USE DEF Base
<1>0. chan \in [Peers -> Nat] /\ req \in [Peers -> RequestStates]
  BY DEF TypeOK, SessionsTypeOK
<1>1. CASE pc # "waiting" /\ UNCHANGED <<chan, req>>
  BY <1>1 DEF OneRequest
<1>2. CASE RecvEvent \/ Exhausted \/ Evict \/ ReplyAny \/ TryFails \/ Stop
  BY <1>1, <1>2 DEF RecvEvent, Exhausted, Evict, ReplyAny, TryFails, Stop, netVars
<1>3. CASE TryNext
  <2>1. /\ Candidate(attempt) \in Peers
        /\ chan' = [chan EXCEPT ![Candidate(attempt)] = @ + 1]
        /\ req' = [req EXCEPT ![Candidate(attempt)] = "queued"]
        /\ pc = "asking" /\ pc' = "waiting"
        /\ Asked' = Candidate(attempt)
    BY <1>3, CurrentCandidate
    DEF TryNext, Ask, Control, Asked, Candidate, Position, callVars, mapVars
  <2> QED
    BY <1>0, <2>1 DEF OneRequest
<1>4. CASE TakeAnswer /\ (FromAnswered \/ AnySucceeds \/ AnyFails)
  <2>1. \A p \in Peers : chan[p] = 0
    BY <1>0, <1>4 DEF TakeAnswer, OneRequest, Answers
  <2> QED
    BY <1>4, <2>1 DEF TakeAnswer, OneRequest
<1>5. CASE RecvCommand
  <2> DEFINE c == Head(cmd_rx)
  <2>1. handle_command(c) /\ pc = "select"
    BY <1>5 DEF RecvCommand
  <2> HIDE DEF c
  <2>2. CASE ServeFrom(c)
    <3>1. /\ call[c].peer \in Peers
          /\ chan' = [chan EXCEPT ![call[c].peer] = @ + 1]
          /\ req' = [req EXCEPT ![call[c].peer] = "queued"]
          /\ pc' = "waiting"
          /\ Asked' = call[c].peer
      BY <2>2 DEF ServeFrom, Ask, Asked, Connected, callVars
    <3> QED
      BY <1>0, <2>1, <3>1 DEF OneRequest
  <2>3. CASE ServeList(c) \/ ServeNoPeers(c) \/ ServeFromFails(c) \/ ServeAny(c)
    BY <1>1, <2>1, <2>3 DEF ServeList, ServeNoPeers, ServeFromFails, ServeAny, AnswerAtOnce, netVars
  <2> QED
    BY <2>1, <2>2, <2>3 DEF handle_command
<1>6. ASSUME NEW c \in Callers, StartCall(c)
      PROVE  OneRequest'
  <2>1. pc = "waiting" => call'[cur] = call[cur]
    BY <1>6 DEF StartCall, Waits, TypeOK
  <2> QED
    BY <1>6, <2>1, OneRequestFrame DEF StartCall, netVars, mapVars, fetchVars
<1>7. ASSUME NEW c \in Callers, SendCommand(c) \/ SendFails(c) \/ ReplyDropped(c)
      PROVE  OneRequest'
  BY <1>7, OneRequestFrame DEF SendCommand, SendFails, ReplyDropped, Return, netVars, mapVars, fetchVars
<1>8. CASE Subscribe \/ DropHandles \/ ReadFeed \/ UNCHANGED vars
  BY <1>8, OneRequestFrame
  DEF Subscribe, DropHandles, ReadFeed, vars, managerVars, netVars, mapVars, fetchVars, callVars
<1>9. CASE Environment
  <2>1. UNCHANGED <<pc, cur, attempt, rr_index, order, call>>
    BY <1>9 DEF Environment, Outside, managerVars, mapVars, fetchVars, callVars
  <2>2. Asked' = Asked
    BY <2>1 DEF Asked, Candidate, Position
  <2>3. ASSUME NEW p \in Peers, chan'[p] > 0
        PROVE  chan[p] > 0 /\ chan'[p] = chan[p] /\ req'[p] = req[p]
    <3>1. chan[p] \in {0, 1} /\ (chan[p] > 0 => req[p] = "queued")
      BY <1>0 DEF OneRequest
    <3>2. ASSUME NEW q \in Peers, SessionDies(q) \/ SessionTakes(q)
          PROVE  p # q /\ chan'[p] = chan[p] /\ req'[p] = req[p]
      BY <1>0, <2>3, <3>1, <3>2 DEF SessionDies, SessionTakes
    <3>3. ASSUME NEW q \in Peers, SessionAnswers(q)
          PROVE  chan'[p] = chan[p] /\ req'[p] = req[p]
      BY <1>0, <2>3, <3>1, <3>3 DEF SessionAnswers
    <3>4. ASSUME UNCHANGED <<chan, req>>
          PROVE  chan'[p] = chan[p] /\ req'[p] = req[p]
      BY <3>4
    <3>5. chan'[p] = chan[p] /\ req'[p] = req[p]
      BY <1>9, <3>2, <3>3, <3>4
      DEF Environment, Outside, SessionOpens, ReportClosed, ReportRemoved, NetworkStops
    <3> QED
      BY <2>3, <3>5
  <2> QED
    BY <2>1, <2>2, <2>3 DEF OneRequest
<1> QED
  BY <1>2, <1>3, <1>4, <1>5, <1>6, <1>7, <1>8, <1>9
  DEF Next, ManagerStep, FetchStep, CallerStep, FromAnswered, AnySucceeds, AnyFails

\* An attempt of the loop looks at a peer that no earlier attempt looked at.
LEMMA CandidatesDistinct ==
  ASSUME TypeOK, OrderOK, NEW a \in Nat, NEW b \in Nat, a < Len(order), b < Len(order),
         Candidate(a) = Candidate(b)
  PROVE  a = b
<1>1. order \in Seq(Peers) /\ rr_index \in Nat
  BY DEF TypeOK
<1>2. Len(order) \in Nat \ {0}
  BY <1>1
<1>3. /\ Position(a) \in 0..(Len(order) - 1) /\ Position(a) + 1 \in DOMAIN order
      /\ Position(b) \in 0..(Len(order) - 1) /\ Position(b) + 1 \in DOMAIN order
      /\ order[Position(a) + 1] = order[Position(b) + 1]
  BY <1>2, CandidateType
<1>4. Position(a) + 1 = Position(b) + 1
  BY <1>3 DEF OrderOK
<1>5. Position(a) = Position(b)
  BY <1>3, <1>4
<1>6. (rr_index + a) % Len(order) = (rr_index + b) % Len(order)
  BY <1>5 DEF Position
<1> QED
  BY <1>1, <1>2, <1>6, PositionsDistinct

\* The peers of the map whose session is over.
DeadMembers == {p \in Connected : ~Live(p, peers[p])}

\* What is known of the peers set aside for eviction: distinct, dead peers of the map,
\* each of them looked at by an earlier attempt.
Evictions ==
  /\ \A i, j \in DOMAIN to_evict : to_evict[i] = to_evict[j] => i = j
  /\ \A i \in DOMAIN to_evict : to_evict[i] \in DeadMembers
  /\ pc \in {"asking", "waiting"} =>
       \A i \in DOMAIN to_evict : \E a \in 0..(attempt - 1) : to_evict[i] = Candidate(a)

\* A dead session does not come back: a new one has a new number.
LEMMA DeadForever ==
  ASSUME Base, [Next]_vars, NEW p \in DeadMembers, peers'[p] = peers[p]
  PROVE  p \in DeadMembers'
<1> USE DEF Base
<1>0. /\ p \in Peers /\ peers[p] \in Nat /\ peers[p] # NoSession /\ peers[p] <= opened
      /\ opened \in Nat /\ sess \in [Peers -> Nat] /\ alive \in [Peers -> BOOLEAN]
      /\ ~Live(p, peers[p])
  BY DEF DeadMembers, Connected, TypeOK, SessionsTypeOK, Numbered
<1>1. ASSUME NEW q \in Peers, SessionOpens(q)
      PROVE  ~Live(p, peers[p])'
  BY <1>0, <1>1 DEF SessionOpens, Live
<1>2. ASSUME NEW q \in Peers, SessionDies(q)
      PROVE  ~Live(p, peers[p])'
  BY <1>0, <1>2 DEF SessionDies, Live
<1>3. ASSUME NEW q \in Peers, ReportClosed(q) \/ ReportRemoved(q)
      PROVE  ~Live(p, peers[p])'
  BY <1>0, <1>3 DEF ReportClosed, ReportRemoved, Live
<1>4. ASSUME UNCHANGED <<sess, alive>>
      PROVE  ~Live(p, peers[p])'
  BY <1>0, <1>4 DEF Live
<1>5. ASSUME Environment
      PROVE  ~Live(p, peers[p])'
  BY <1>1, <1>2, <1>3, <1>4, <1>5
  DEF Environment, Outside, SessionTakes, SessionAnswers, NetworkStops
<1>6. ASSUME ManagerStep \/ CallerStep \/ ReadFeed \/ UNCHANGED vars
      PROVE  ~Live(p, peers[p])'
  <2>1. UNCHANGED <<sess, alive>>
    BY <1>6
    DEF ManagerStep, CallerStep, FetchStep, Subscribe, RecvEvent, Evict, TryNext, TryFails, FromAnswered,
        AnySucceeds, AnyFails, Exhausted, ReplyAny, TakeAnswer, Ask, RecvCommand, handle_command,
        ServeList, ServeNoPeers, ServeFromFails, ServeFrom, ServeAny, AnswerAtOnce, Stop,
        StartCall, SendCommand, SendFails, ReplyDropped, DropHandles, ReadFeed, vars, netVars
  <2> QED
    BY <2>1, <1>4
<1>7. ~Live(p, peers[p])'
  BY <1>5, <1>6 DEF Next
<1>8. p \in Connected'
  BY <1>0 DEF Connected
<1> QED
  BY <1>7, <1>8 DEF DeadMembers

\* Every step keeps the eviction list founded.
LEMMA EvictionsStep ==
  ASSUME Base, OneRequest, Evictions, [Next]_vars
  PROVE  Evictions'
<1> USE DEF Base
<1>0. /\ to_evict \in Seq(Peers) /\ DOMAIN to_evict = 1..Len(to_evict) /\ Len(to_evict) \in Nat
      /\ peers \in [Peers -> Nat] /\ attempt \in Nat
  BY LenProperties DEF TypeOK
<1>1. ASSUME UNCHANGED <<peers, to_evict>>,
             pc' \in {"asking", "waiting"} /\ to_evict # <<>> =>
               /\ pc \in {"asking", "waiting"}
               /\ attempt' \in Nat /\ attempt <= attempt'
               /\ UNCHANGED <<rr_index, order>>
      PROVE  Evictions'
  <2>1. \A p \in DeadMembers : p \in DeadMembers'
    BY <1>1, DeadForever
  <2>3. ASSUME pc' \in {"asking", "waiting"}, NEW i \in DOMAIN to_evict
        PROVE  \E a \in 0..(attempt' - 1) : to_evict[i] = Candidate(a)'
    <3>1. to_evict # <<>>
      BY <1>0, <2>3
    <3>2. PICK a \in 0..(attempt - 1) : to_evict[i] = Candidate(a)
      BY <1>1, <2>3, <3>1 DEF Evictions
    <3>3. a \in 0..(attempt' - 1) /\ Candidate(a)' = Candidate(a)
      BY <1>0, <1>1, <2>3, <3>1, <3>2 DEF Candidate, Position
    <3> QED
      BY <3>2, <3>3
  <2> QED
    BY <1>1, <2>1, <2>3 DEF Evictions
<1>2. ASSUME to_evict' = <<>>
      PROVE  Evictions'
  BY <1>2 DEF Evictions
<1>3. CASE RecvEvent
  BY <1>2, <1>3 DEF RecvEvent, Control, fetchVars
<1>4. CASE RecvCommand
  <2>1. to_evict = <<>>
    BY <1>4 DEF RecvCommand, Control
  <2>2. to_evict' \in {<<>>, to_evict}
    BY <1>4
    DEF RecvCommand, handle_command, ServeList, ServeNoPeers, ServeFromFails, ServeFrom, ServeAny,
        AnswerAtOnce, fetchVars
  <2> QED
    BY <1>2, <2>1, <2>2
<1>5. CASE TryFails
  <2> DEFINE p == Candidate(attempt)
  <2>1. /\ pc = "asking" /\ attempt < Len(order) /\ ~CanSend(p)
        /\ to_evict' = Append(to_evict, p) /\ attempt' = attempt + 1
        /\ UNCHANGED <<sess, alive, peers, order, rr_index>>
    BY <1>5 DEF TryFails, netVars, mapVars
  <2>2. p \in Peers /\ p \in Connected
    BY <2>1, CurrentCandidate
  <2>3. p \in DeadMembers
    <3>1. ~(chan[p] > 0) /\ chan[p] \in Nat /\ ChanCap \in Nat \ {0}
      BY <2>1, <2>2, SessionsAssumption DEF OneRequest, TypeOK, SessionsTypeOK
    <3> QED
      BY <2>1, <2>2, <3>1 DEF CanSend, DeadMembers
  <2>4. \A i \in DOMAIN to_evict : to_evict[i] # p
    <3>1. ASSUME NEW i \in DOMAIN to_evict, to_evict[i] = p
          PROVE  FALSE
      <4>1. PICK a \in 0..(attempt - 1) : to_evict[i] = Candidate(a)
        BY <2>1 DEF Evictions
      <4>2. a \in Nat /\ a < Len(order) /\ Candidate(a) = Candidate(attempt)
        <5>1. Len(order) \in Nat
          BY DEF TypeOK
        <5> QED
          BY <1>0, <2>1, <3>1, <4>1, <5>1
      <4> QED
        BY <1>0, <2>1, <4>1, <4>2, CandidatesDistinct
    <3> QED
      BY <3>1
  <2> HIDE DEF p
  <2>5. /\ DOMAIN to_evict' = 1..(Len(to_evict) + 1)
        /\ \A i \in 1..Len(to_evict) : to_evict'[i] = to_evict[i]
        /\ to_evict'[Len(to_evict) + 1] = p
    BY <1>0, <2>1, <2>2, AppendProperties, LenProperties
  <2>6. \A i \in DOMAIN to_evict' : i \in DOMAIN to_evict \/ i = Len(to_evict) + 1
    BY <1>0, <2>5
  <2>7. \A i \in DOMAIN to_evict' : to_evict'[i] \in DeadMembers
    BY <1>0, <2>3, <2>5, <2>6 DEF Evictions
  <2>8. DeadMembers' = DeadMembers
    BY <2>1 DEF DeadMembers, Live, Connected
  <2>9. \A i \in DOMAIN to_evict' : to_evict'[i] \in DeadMembers'
    BY <2>7, <2>8
  <2>10. \A i, j \in DOMAIN to_evict' : to_evict'[i] = to_evict'[j] => i = j
    BY <1>0, <2>4, <2>5, <2>6 DEF Evictions
  <2>11. ASSUME NEW i \in DOMAIN to_evict'
         PROVE  \E a \in 0..(attempt' - 1) : to_evict'[i] = Candidate(a)'
    <3>1. \A a \in Nat : Candidate(a)' = Candidate(a)
      BY <2>1 DEF Candidate, Position
    <3>2. CASE i \in DOMAIN to_evict
      <4>1. PICK a \in 0..(attempt - 1) : to_evict[i] = Candidate(a)
        BY <2>1, <3>2 DEF Evictions
      <4>2. a \in 0..(attempt' - 1) /\ a \in Nat /\ to_evict'[i] = to_evict[i]
        BY <1>0, <2>1, <2>5, <3>2
      <4> QED
        BY <3>1, <4>1, <4>2
    <3>3. CASE i = Len(to_evict) + 1
      <4>1. PICK a \in Nat : a = attempt
        BY <1>0
      <4>2. a \in 0..(attempt' - 1) /\ to_evict'[i] = Candidate(a)
        BY <1>0, <2>1, <2>5, <3>3, <4>1 DEF p
      <4> QED
        BY <3>1, <4>2
    <3> QED
      BY <2>6, <3>2, <3>3
  <2> QED
    BY <2>9, <2>10, <2>11 DEF Evictions
<1>6. CASE Evict
  <2> DEFINE p == Head(to_evict)
             t == Tail(to_evict)
  <2>1. /\ pc' = "evicting" /\ to_evict # <<>> /\ to_evict' = t /\ on_peer_removed(p)
        /\ UNCHANGED <<sess, alive>>
    BY <1>6 DEF Evict, netVars
  <2>2. /\ p = to_evict[1] /\ p \in Peers /\ 1 \in DOMAIN to_evict
        /\ DOMAIN t = 1..(Len(to_evict) - 1)
        /\ \A i \in 1..(Len(to_evict) - 1) : t[i] = to_evict[i + 1] /\ i + 1 \in DOMAIN to_evict
    <3>1. t \in Seq(Peers) /\ Len(t) = Len(to_evict) - 1 /\ p \in Peers
          /\ \A i \in 1..Len(t) : t[i] = to_evict[i + 1]
      BY <1>0, <2>1, HeadTailProperties
    <3>2. Len(to_evict) >= 1 /\ p = to_evict[1]
      BY <1>0, <2>1, EmptySeq
    <3> HIDE DEF p, t
    <3>3. DOMAIN t = 1..(Len(to_evict) - 1)
      BY <3>1, LenProperties
    <3> QED
      BY <1>0, <3>1, <3>2, <3>3
  <2> HIDE DEF p, t
  <2>3. peers' = [peers EXCEPT ![p] = NoSession]
    BY <2>1 DEF on_peer_removed
  <2>4. \A i \in DOMAIN t : i \in Nat /\ i >= 1 /\ i + 1 \in DOMAIN to_evict /\ t[i] = to_evict[i + 1]
    BY <1>0, <2>2
  <2>5. \A i, j \in DOMAIN t : t[i] = t[j] => i = j
    BY <2>4 DEF Evictions
  <2>6. ASSUME NEW i \in DOMAIN t
        PROVE  t[i] \in DeadMembers'
    <3>1. t[i] \in DeadMembers
      BY <2>4 DEF Evictions
    <3>2. t[i] # p
      <4>1. i + 1 # 1 /\ i + 1 \in DOMAIN to_evict /\ t[i] = to_evict[i + 1]
        BY <2>4
      <4> QED
        BY <4>1, <2>2 DEF Evictions
    <3>3. t[i] \in Peers /\ peers'[t[i]] = peers[t[i]]
      BY <1>0, <2>3, <3>1, <3>2 DEF DeadMembers, Connected
    <3> QED
      BY <2>1, <3>1, <3>3 DEF Connected, DeadMembers, Live
  <2>7. \A i \in DOMAIN to_evict' : to_evict'[i] \in DeadMembers'
    BY <2>1, <2>6
  <2> QED
    BY <2>1, <2>5, <2>7 DEF Evictions
<1>7. CASE FromAnswered \/ ReplyAny
  BY <1>2, <1>7 DEF FromAnswered, ReplyAny, FetchDone
<1>8. CASE TryNext \/ AnySucceeds \/ AnyFails \/ Exhausted
  BY <1>0, <1>1, <1>8 DEF TryNext, AnySucceeds, AnyFails, Exhausted, TakeAnswer, mapVars
<1>9. CASE Stop
  BY <1>1, <1>9 DEF Stop, mapVars
<1>10. CASE Subscribe \/ CallerStep \/ Environment \/ ReadFeed \/ UNCHANGED vars
  <2>1. UNCHANGED <<peers, order, rr_index, pc, attempt, to_evict>>
    BY <1>10
    DEF Subscribe, CallerStep, StartCall, SendCommand, SendFails, ReplyDropped, DropHandles, Environment,
        Outside, ReadFeed, vars, managerVars, mapVars, fetchVars
  <2> QED
    BY <1>0, <1>1, <2>1
<1> QED
  BY <1>3, <1>4, <1>5, <1>6, <1>7, <1>8, <1>9, <1>10 DEF Next, ManagerStep, FetchStep

\* Every behaviour keeps to one request at a time and evicts known, dead peers only.
LEMMA EvictionsInvariant == Spec => [](Base /\ OneRequest /\ Evictions)
<1>1. Init => Base /\ OneRequest /\ Evictions
  <2> SUFFICES ASSUME Init PROVE OneRequest /\ Evictions
    BY BaseInit
  <2>1. OneRequest
    BY DEF Init, SessionsInit, OneRequest
  <2>2. Evictions
    BY DEF Init, Evictions
  <2> QED
    BY <2>1, <2>2
<1>2. Base /\ OneRequest /\ Evictions /\ [Next]_vars => (Base /\ OneRequest /\ Evictions)'
  BY BaseStep, OneRequestStep, EvictionsStep
<1> QED
  BY <1>1, <1>2, PTL DEF Spec

\* on_peer_removed unwraps the entry of the peer it removes (manager.rs:260): the
\* peers that do_fetch_receipts evicts are distinct and still in the map.
THEOREM EvictionsSafe == Spec => []EvictsOnlyMembers
<1>1. Evictions => EvictsOnlyMembers
  BY DEF Evictions, EvictsOnlyMembers, DeadMembers
<1> QED
  BY <1>1, EvictionsInvariant, PTL

-----------------------------------------------------------------------------
(* No entry of the map is overtaken by an event about its own session *)

\* For a map m, sessions s and a queue q of events: no event is left about a peer whose
\* entry is its session, and nothing follows the announcement of a peer's session.
Settled(m, s, q) ==
  /\ \A p \in Peers : m[p] # NoSession /\ m[p] = s[p] => \A i \in DOMAIN q : q[i].peer # p
  /\ \A i, j \in DOMAIN q :
       /\ q[i].kind = "established"
       /\ q[i].session = s[q[i].peer]
       /\ i < j
       => q[j].peer # q[i].peer

Exact == Settled(peers, sess, events)

\* An event pushed while the session of its peer becomes v, which neither the map nor
\* an earlier event knows, leaves everything settled.
LEMMA PushSettled ==
  ASSUME NEW m \in [Peers -> Nat], NEW s \in [Peers -> Nat],
         NEW q \in Seq(Event), Len(q) <= EventCap, NEW e \in Event, NEW v \in Nat,
         Settled(m, s, q),
         v = NoSession \/ m[e.peer] # v,
         \A i \in DOMAIN q : q[i].kind = "established" => q[i].session # v
  PROVE  Settled(m, [s EXCEPT ![e.peer] = v], Push(q, e, EventCap))
<1> DEFINE d == IF Full(q, EventCap) THEN 1 ELSE 0
           r == Push(q, e, EventCap)
           n == Len(q) + 1 - d
           t == [s EXCEPT ![e.peer] = v]
<1>0. /\ e.peer \in Peers
      /\ \A i \in DOMAIN q : q[i].peer \in Peers
  <2>1. \A i \in DOMAIN q : q[i] \in Event
    BY ElementOfSeq, LenProperties
  <2> QED
    BY <2>1 DEF Event
<1>1. /\ r \in Seq(Event)
      /\ Len(r) = n
      /\ \A k \in 1..(Len(q) - d) : r[k] = q[k + d]
      /\ r[n] = e
  BY PushProperties, SessionsAssumption
<1>2. d \in {0, 1} /\ Len(q) \in Nat /\ DOMAIN q = 1..Len(q)
  BY LenProperties
<1>3. DOMAIN r = 1..n
  BY <1>1, LenProperties
<1> HIDE DEF d, r
<1>4. ASSUME NEW i \in DOMAIN r
      PROVE  \/ i = n /\ r[i] = e
             \/ i < n /\ i + d \in DOMAIN q /\ r[i] = q[i + d]
  <2>1. i \in 1..n /\ n \in Nat
    BY <1>2, <1>3, <1>4
  <2>2. CASE i < n
    <3>1. i \in 1..(Len(q) - d) /\ i + d \in 1..Len(q)
      BY <1>2, <2>1, <2>2
    <3> QED
      BY <1>1, <1>2, <2>2, <3>1
  <2>3. CASE i = n
    BY <1>1, <2>3
  <2> QED
    BY <2>1, <2>2, <2>3
<1>5. \A p \in Peers : p # e.peer => t[p] = s[p]
  OBVIOUS
<1>6. t[e.peer] = v
  BY <1>0
<1> HIDE DEF t, n
<1>7. ASSUME NEW p \in Peers, m[p] # NoSession, m[p] = t[p], NEW i \in DOMAIN r
      PROVE  r[i].peer # p
  <2>1. p # e.peer
    BY <1>6, <1>7
  <2>2. m[p] = s[p]
    BY <1>5, <1>7, <2>1
  <2>3. \A j \in DOMAIN q : q[j].peer # p
    BY <1>7, <2>2 DEF Settled
  <2> QED
    BY <1>4, <2>1, <2>3
<1>8. ASSUME NEW i \in DOMAIN r, NEW j \in DOMAIN r, i < j,
             r[i].kind = "established", r[i].session = t[r[i].peer]
      PROVE  r[j].peer # r[i].peer
  <2>1. i < n /\ i + d \in DOMAIN q /\ r[i] = q[i + d]
    BY <1>2, <1>3, <1>4, <1>8 DEF n
  <2>2. r[i].peer \in Peers /\ r[i].peer # e.peer
    BY <1>0, <1>6, <1>8, <2>1
  <2>3. q[i + d].kind = "established" /\ q[i + d].session = s[q[i + d].peer]
    BY <1>5, <1>8, <2>1, <2>2
  <2>4. CASE j = n /\ r[j] = e
    BY <2>2, <2>4
  <2>5. CASE j + d \in DOMAIN q /\ r[j] = q[j + d]
    <3>1. i + d < j + d
      BY <1>2, <1>3, <1>8 DEF n
    <3>2. q[j + d].peer # q[i + d].peer
      BY <2>1, <2>3, <2>5, <3>1 DEF Settled
    <3> QED
      BY <2>1, <2>5, <3>2
  <2> QED
    BY <1>4, <2>4, <2>5
<1> QED
  BY <1>7, <1>8 DEF Settled, r, t

\* A report keeps the map settled by what is queued.
LEMMA SentSettled ==
  ASSUME NEW m \in [Peers -> Nat], NEW s \in [Peers -> Nat],
         NEW q \in Seq(Event), Len(q) <= EventCap, NEW e \in Event, NEW v \in Nat,
         ~listening => q = <<>>,
         Settled(m, s, q),
         v = NoSession \/ m[e.peer] # v,
         \A i \in DOMAIN q : q[i].kind = "established" => q[i].session # v
  PROVE  Settled(m, [s EXCEPT ![e.peer] = v], Sent(q, e))
<1>1. CASE listening
  BY <1>1, PushSettled DEF Sent
<1>2. CASE ~listening
  BY <1>2 DEF Sent, Settled
<1> QED
  BY <1>1, <1>2

\* Reading the first event, or removing a peer, leaves everything settled.
LEMMA ExactStep ==
  ASSUME Base, Exact, [Next]_vars
  PROVE  Exact'
<1> USE DEF Base
<1>0. /\ events \in Seq(Event) /\ Len(events) <= EventCap /\ DOMAIN events = 1..Len(events)
      /\ opened \in Nat
      /\ sess \in [Peers -> Nat] /\ peers \in [Peers -> Nat]
      /\ \A i \in DOMAIN events : EventNumbered(events[i], opened) /\ events[i].session \in Nat
      /\ \A p \in Peers : sess[p] <= opened /\ peers[p] <= opened
      /\ ~listening => events = <<>>
  <2>1. events \in Seq(Event) /\ DOMAIN events = 1..Len(events)
    BY LenProperties DEF TypeOK, SessionsTypeOK
  <2>2. \A i \in DOMAIN events : events[i] \in Event
    BY <2>1, ElementOfSeq
  <2> QED
    BY <2>1, <2>2 DEF TypeOK, SessionsTypeOK, Numbered, Event
<1>1. CASE Subscribe \/ UNCHANGED <<opened, events, sess, peers>>
  BY <1>1 DEF Exact, Settled, Subscribe, mapVars
<1>2. CASE RecvEvent
  <2> DEFINE e == Head(events)
             t == Tail(events)
  <2>1. /\ e \in Event /\ e = events[1] /\ 1 \in DOMAIN events
        /\ DOMAIN t = 1..(Len(events) - 1)
        /\ \A i \in DOMAIN t : i + 1 \in DOMAIN events /\ t[i] = events[i + 1] /\ 1 < i + 1
    <3>1. /\ e \in Event /\ e = events[1]
          /\ \A i \in 1..(Len(events) - 1) : t[i] = events[i + 1]
          /\ t \in Seq(Event) /\ Len(t) = Len(events) - 1 /\ Len(events) \in Nat \ {0}
      BY <1>2, HeadEvent DEF RecvEvent
    <3> HIDE DEF e, t
    <3>2. DOMAIN t = 1..(Len(events) - 1)
      BY <3>1, LenProperties
    <3> QED
      BY <1>0, <3>1, <3>2
  <2>2. events' = t /\ sess' = sess /\ handle_network_event(e)
    BY <1>2 DEF RecvEvent
  <2> HIDE DEF e, t
  <2>3. e.peer \in Peers
    BY <2>1 DEF Event
  <2>4. \A p \in Peers : /\ p # e.peer => peers'[p] = peers[p]
                         /\ p = e.peer => \/ peers'[p] = NoSession
                                          \/ e.kind = "established" /\ peers'[p] = e.session
    BY <1>0, <2>2, <2>3
    DEF handle_network_event, from_session, on_peer_connected, on_peer_removed, mapVars, Connected
  <2>5. ASSUME NEW p \in Peers, peers'[p] # NoSession, peers'[p] = sess[p], NEW i \in DOMAIN t
        PROVE  t[i].peer # p
    <3>1. CASE p # e.peer
      BY <2>1, <2>4, <2>5, <3>1 DEF Exact, Settled
    <3>2. CASE p = e.peer
      <4>1. events[1].kind = "established" /\ events[1].session = sess[events[1].peer]
        BY <2>1, <2>4, <2>5, <3>2
      <4> QED
        BY <2>1, <2>5, <3>2, <4>1 DEF Exact, Settled
    <3> QED
      BY <3>1, <3>2
  <2>6. ASSUME NEW i \in DOMAIN t, NEW j \in DOMAIN t, i < j,
               t[i].kind = "established", t[i].session = sess[t[i].peer]
        PROVE  t[j].peer # t[i].peer
    <3>1. i + 1 < j + 1
      BY <1>0, <2>1, <2>6
    <3> QED
      BY <2>1, <2>6, <3>1 DEF Exact, Settled
  <2> QED
    BY <2>2, <2>5, <2>6 DEF Exact, Settled
<1>3. CASE Evict
  <2>1. \A p \in Peers : peers'[p] \in {peers[p], NoSession}
    BY <1>0, <1>3 DEF Evict, on_peer_removed
  <2>2. UNCHANGED <<events, sess>>
    BY <1>3 DEF Evict, netVars
  <2> QED
    BY <2>1, <2>2 DEF Exact, Settled
<1>4. ASSUME NEW p \in Peers, Outside(SessionOpens(p))
      PROVE  Exact'
  <2> DEFINE e == Established(p, opened + 1)
  <2>1. /\ events' = Sent(events, e)
        /\ sess' = [sess EXCEPT ![p] = opened + 1] /\ peers' = peers
    BY <1>4 DEF Outside, SessionOpens, Notify, managerVars, mapVars
  <2>2. e \in Event /\ e.peer = p /\ opened + 1 \in Nat /\ peers[p] # opened + 1
    BY <1>0 DEF Event, Established
  <2>3. \A i \in DOMAIN events : events[i].session # opened + 1
    BY <1>0 DEF EventNumbered
  <2> HIDE DEF e
  <2>4. Settled(peers, [sess EXCEPT ![e.peer] = opened + 1], Sent(events, e))
    BY <1>0, <2>2, <2>3, SentSettled DEF Exact
  <2> QED
    BY <2>1, <2>2, <2>4 DEF Exact
<1>5. ASSUME NEW p \in Peers, Outside(ReportClosed(p)) \/ Outside(ReportRemoved(p))
      PROVE  Exact'
  <2> DEFINE c == Closed(p, sess[p])
             r == Removed(p)
             q == Sent(events, c)
             s == [sess EXCEPT ![p] = NoSession]
  <2>1. c \in Event /\ c.peer = p /\ c.kind = "closed" /\ r \in Event /\ r.peer = p
    BY <1>0 DEF Event, NoSession, Closed, Removed
  <2>2. events' \in {q, Sent(q, r)} /\ sess' = s /\ peers' = peers
    BY <1>5 DEF Outside, ReportClosed, ReportRemoved, Notify, managerVars, mapVars
  <2> HIDE DEF c, r
  <2>3. q \in Seq(Event) /\ Len(q) <= EventCap /\ (~listening => q = <<>>)
    BY <1>0, <2>1, SentEvent DEF Sent
  <2>4. \A i \in DOMAIN q : q[i] = c \/ \E j \in DOMAIN events : q[i] = events[j]
    BY <1>0, <2>1, SentMembers
  <2>5. \A i \in DOMAIN events : events[i].kind = "established" => events[i].session # NoSession
    BY <1>0 DEF EventNumbered
  <2>6. \A i \in DOMAIN q : q[i].kind = "established" => q[i].session # NoSession
    BY <2>1, <2>4, <2>5
  <2>7. NoSession \in Nat /\ s \in [Peers -> Nat] /\ s = [s EXCEPT ![p] = NoSession]
    BY <1>0 DEF NoSession
  <2>8. Settled(peers, s, q)
    BY <1>0, <2>1, <2>5, <2>7, SentSettled DEF Exact
  <2> HIDE DEF q, s
  <2>9. Settled(peers, [s EXCEPT ![r.peer] = NoSession], Sent(q, r))
    BY <1>0, <2>1, <2>3, <2>6, <2>7, <2>8, SentSettled
  <2> QED
    BY <2>1, <2>2, <2>7, <2>8, <2>9 DEF Exact
<1> QED
  BY <1>1, <1>2, <1>3, <1>4, <1>5, DirectorySteps

\* A step that takes a peer of the map out, or replaces its sender, finds it dead.
LEMMA RemovalStep ==
  ASSUME Base, Evictions, Exact, [Next]_vars, NEW p \in Connected, peers'[p] # peers[p]
  PROVE  ~Live(p, peers[p])
<1> USE DEF Base
<1>0. peers \in [Peers -> Nat] /\ p \in Peers /\ peers[p] # NoSession
  BY DEF TypeOK, Connected
<1>1. CASE RecvEvent
  <2> DEFINE e == Head(events)
  <2>1. e \in Event /\ e = events[1] /\ 1 \in DOMAIN events
    <3>1. e \in Event /\ e = events[1] /\ Len(events) \in Nat \ {0}
      BY <1>1, HeadEvent DEF RecvEvent
    <3>2. DOMAIN events = 1..Len(events)
      BY LenProperties DEF TypeOK, SessionsTypeOK
    <3> QED
      BY <3>1, <3>2
  <2>2. handle_network_event(e)
    BY <1>1 DEF RecvEvent
  <2> HIDE DEF e
  <2>3. p = e.peer
    BY <1>0, <2>2 DEF handle_network_event, from_session, on_peer_connected, on_peer_removed, mapVars
  <2> QED
    BY <1>0, <2>1, <2>3 DEF Exact, Settled, Live
<1>2. CASE Evict
  <2>1. on_peer_removed(Head(to_evict)) /\ to_evict # <<>> /\ to_evict \in Seq(Peers)
    BY <1>2 DEF Evict, TypeOK
  <2>2. Head(to_evict) = to_evict[1] /\ 1 \in DOMAIN to_evict
    BY <2>1, EmptySeq, LenProperties
  <2>3. Head(to_evict) \in DeadMembers
    BY <2>2 DEF Evictions
  <2>4. p = Head(to_evict)
    BY <1>0, <2>1 DEF on_peer_removed
  <2> QED
    BY <2>3, <2>4 DEF DeadMembers
<1>3. CASE peers' = peers
  BY <1>3
<1> QED
  BY <1>1, <1>2, <1>3, DirectorySteps DEF Outside, Subscribe, managerVars, mapVars

\* A peer is taken out of the map, or its sender replaced, only when the session it
\* stood for is over: do_fetch_receipts takes a full channel for a dead peer, but the
\* channel of a peer it asks is never full.
THEOREM OnlyTheDeadAreRemoved == Spec => OnlyDeadRemoved
<1> DEFINE Inv == Base /\ OneRequest /\ Evictions /\ Exact
<1>1. Init => Exact
  BY DEF Init, SessionsInit, Exact, Settled
<1>2. Base /\ Exact /\ [Next]_vars => Exact'
  BY ExactStep
<1>3. Base /\ Evictions /\ Exact /\ [Next]_vars
        => [\A p \in Connected : peers'[p] # peers[p] => ~Live(p, peers[p])]_vars
  BY RemovalStep
<1> QED
  BY <1>1, <1>2, <1>3, EvictionsInvariant, PTL DEF Spec, OnlyDeadRemoved
=============================================================================
