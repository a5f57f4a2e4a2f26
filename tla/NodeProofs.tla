------------------------------ MODULE NodeProofs ------------------------------
(***************************************************************************)
(* Theorems about the node's loop and its handlers, for any peers, any     *)
(* number of handlers, any capacity of the feed and any bound on the       *)
(* changes.                                                                *)
(***************************************************************************)
EXTENDS Node, DataProofs

-----------------------------------------------------------------------------
(* Tasks and what they handle *)

PeerKinds == {"connected", "disconnected"}

\* Whether kind is what the directory says of p.
Says(kind, p) == kind = "connected" <=> p \in members

\* What a task handles is told apart by its kind.
LEMMA TaskTypes ==
  /\ \A e \in Announcements : /\ e.kind \in PeerKinds /\ e.peer \in Peers /\ e.nth \in Nat \ {0}
                              /\ e # Idle
  /\ \A e \in TxTasks : e.kind = "tx" /\ e.id \in 1..MaxTxEvents /\ e.event \in TxEvents /\ e # Idle
  /\ \A e \in [kind : {"lagged", "closed"}] : e.kind \in {"lagged", "closed"} /\ e # Idle
  /\ Idle.kind = "idle"
  /\ \A e \in {Idle} \cup PeerEvents \cup TxTasks :
       /\ e.kind \in PeerKinds => e \in Announcements
       /\ e.kind = "tx" => e \in TxTasks
<1>1. \A e \in Announcements : /\ e.kind \in PeerKinds /\ e.peer \in Peers /\ e.nth \in Nat \ {0}
                               /\ e # Idle
  BY DEF Announcements, PeerKinds, Idle
<1>2. \A e \in TxTasks : e.kind = "tx" /\ e.id \in 1..MaxTxEvents /\ e.event \in TxEvents /\ e # Idle
  BY DEF TxTasks, Idle
<1>3. \A e \in [kind : {"lagged", "closed"}] : e.kind \in {"lagged", "closed"} /\ e # Idle
  BY DEF Idle
<1>4. Idle.kind = "idle"
  BY DEF Idle
<1> QED
  BY <1>1, <1>2, <1>3, <1>4 DEF PeerEvents, PeerKinds

-----------------------------------------------------------------------------
(* The inductive invariant *)

\* The newest announcement about a peer that is still in the feed is right.
FeedTrue ==
  \A i \in DOMAIN feed :
    (\A j \in DOMAIN feed : j > i => feed[j].peer # feed[i].peer) => Says(feed[i].kind, feed[i].peer)

\* An announcement stands for a change of its own.
FeedCounted == \A p \in Peers : Cardinality(Mentions(feed, p)) <= changes[p]

\* The announcement of a task is of a change that was made, and right if it was the last.
TaskTrue(t) ==
  task[t].kind \in PeerKinds =>
    /\ task[t].nth <= changes[task[t].peer]
    /\ task[t].nth = changes[task[t].peer] => Says(task[t].kind, task[t].peer)

\* A task that asks handles an announcement, and asks for the peers.
Asking == \A t \in asked : task[t].kind \in PeerKinds /\ call[t] = AskForPeers

\* Transaction events are numbered as they arrive.
Arrivals ==
  /\ \A i \in DOMAIN tx_events : tx_events[i].id <= arrived
  /\ \A t \in Tasks : task[t].kind = "tx" => task[t].id <= arrived

\* Nothing is received before the subscription.
Unsubscribed == ~started => missed = 0 /\ ~warned /\ heard = [p \in Peers |-> "nothing"]

\* What was heard last of a peer the feed is silent about is still so.
Heard ==
  started /\ ~warned /\ missed = 0 =>
    \A p \in Peers : (\A i \in DOMAIN feed : feed[i].peer # p) =>
      IF heard[p] = "nothing" THEN p \in members <=> p \in early ELSE Says(heard[p], p)

Inv ==
  /\ TypeOK
  /\ FeedTrue
  /\ FeedCounted
  /\ \A t \in Tasks : TaskTrue(t)
  /\ Asking
  /\ Arrivals
  /\ Unsubscribed
  /\ Heard
  /\ CountsAreNoOlder

\* The invariant holds initially.
LEMMA InvInit == Init => Inv
<1> SUFFICES ASSUME Init PROVE Inv
  OBVIOUS
<1> USE DEF Init, Directory!Init
<1>1. Idle.kind = "idle"
  BY TaskTypes
<1>2. TypeOK
  <2>1. <<>> \in Seq(ManagerEvent) /\ <<>> \in Seq(TxTasks) /\ Len(<<>>) = 0
    OBVIOUS
  <2>2. call \in [Tasks -> Directory!Call]
    BY DEF Directory!Call
  <2>3. outcome \in [Tasks -> Outcome]
    BY DEF Directory!NoOutcome, Directory!Result, Outcome
  <2>4. task \in [Tasks -> {Idle} \cup PeerEvents \cup TxTasks]
    OBVIOUS
  <2>5. arrived \in 0..MaxTxEvents /\ answered \subseteq 1..arrived /\ Len(feed) <= FeedCap
    BY <2>1, NodeAssumption
  <2>6. /\ heard \in [Peers -> {"nothing", "connected", "disconnected"}]
        /\ changes \in [Peers -> Nat]
        /\ status \in [Tasks -> {"idle", "pending", "done"}]
    OBVIOUS
  <2> QED
    BY <2>1, <2>2, <2>3, <2>4, <2>5, <2>6 DEF TypeOK
<1>3. \A t \in Tasks : task[t].kind = "idle"
  BY <1>1
<1>4. FeedCounted
  <2>1. \A p \in Peers : Cardinality(Mentions(feed, p)) = 0 /\ changes[p] = 0
    BY MentionsEmpty
  <2> QED
    BY <2>1 DEF FeedCounted
<1>5. \A t \in Tasks : TaskTrue(t)
  BY <1>3 DEF TaskTrue, PeerKinds
<1>6. Arrivals
  BY <1>3 DEF Arrivals
<1> QED
  BY <1>2, <1>4, <1>5, <1>6 DEF Inv, FeedTrue, Asking, Unsubscribed, Heard, CountsAreNoOlder

-----------------------------------------------------------------------------
(* The steps of the loop *)

\* The subscription keeps the invariant: nothing was heard before.
LEMMA StartStep ==
  ASSUME Inv, Start
  PROVE  Inv'
<1> USE DEF Inv, Start, directoryVars, txVars
<1>1. TypeOK'
  <2>1. <<>> \in Seq(ManagerEvent) /\ Len(<<>>) = 0 /\ Len(<<>>) <= FeedCap
    BY NodeAssumption
  <2> QED
    BY <2>1 DEF TypeOK
<1>2. FeedCounted'
  <2>1. \A p \in Peers : Cardinality(Mentions(feed', p)) = 0 /\ changes'[p] \in Nat
    BY MentionsEmpty DEF TypeOK
  <2> QED
    BY <2>1 DEF FeedCounted
<1>3. Heard'
  BY DEF Heard, Unsubscribed, TypeOK
<1>4. CountsAreNoOlder' /\ Asking' /\ Arrivals' /\ Unsubscribed' /\ FeedTrue'
  BY DEF CountsAreNoOlder, Asking, Arrivals, Unsubscribed, FeedTrue
<1>5. \A t \in Tasks : TaskTrue(t)'
  BY DEF TaskTrue, Says
<1> QED
  BY <1>1, <1>2, <1>3, <1>4, <1>5

\* A task that begins with something else than an announcement or a transaction.
LEMMA SpawnStep ==
  ASSUME Inv, NEW t \in Tasks, NEW e \in {Idle} \cup PeerEvents \cup TxTasks, Spawn(t, e),
         asked' = asked
  PROVE  /\ t \notin asked
         /\ task' \in [Tasks -> {Idle} \cup PeerEvents \cup TxTasks]
         /\ asked' \subseteq {u \in Tasks : task'[u] # Idle}
         /\ task'[t] = e /\ \A u \in Tasks \ {t} : task'[u] = task[u]
         /\ \A u \in asked : u \in Tasks /\ u # t
<1>1. task \in [Tasks -> {Idle} \cup PeerEvents \cup TxTasks] /\ task' = [task EXCEPT ![t] = e]
  BY DEF Inv, TypeOK, Spawn
<1>2. task[t] = Idle /\ asked \subseteq {u \in Tasks : task[u] # Idle}
  BY DEF Inv, TypeOK, Spawn
<1>3. t \notin asked
  BY <1>2
<1>4. task'[t] = e /\ \A u \in Tasks \ {t} : task'[u] = task[u]
  BY <1>1
<1>5. task' \in [Tasks -> {Idle} \cup PeerEvents \cup TxTasks]
  BY <1>1
<1> QED
  BY <1>2, <1>3, <1>4, <1>5

\* A lag, the end of the feed or a transaction event is received.
LEMMA RecvStep ==
  ASSUME Inv, NEW t \in Tasks, RecvLagged(t) \/ RecvClosed(t) \/ RecvTx(t)
  PROVE  Inv'
<1>1. PICK e \in [kind : {"lagged", "closed"}] \cup TxTasks :
        /\ Spawn(t, e)
        /\ e \in TxTasks => e = Head(tx_events) /\ tx_events # <<>> /\ tx_events' = Tail(tx_events)
        /\ e \notin TxTasks => tx_events' = tx_events
  <2>1. CASE RecvLagged(t) \/ RecvClosed(t)
    <3>1. PICK e \in [kind : {"lagged", "closed"}] : Spawn(t, e)
      BY <2>1 DEF RecvLagged, RecvClosed
    <3>2. e \notin TxTasks /\ tx_events' = tx_events
      BY <2>1, <3>1, TaskTypes DEF RecvLagged, RecvClosed, txVars
    <3> QED
      BY <3>1, <3>2
  <2>2. CASE RecvTx(t)
    <3>1. Head(tx_events) \in TxTasks
      BY <2>2, HeadTailProperties DEF RecvTx, Inv, TypeOK
    <3> QED
      BY <2>2, <3>1 DEF RecvTx
  <2> QED
    BY <2>1, <2>2
<1>2. /\ UNCHANGED <<members, feed, up, status, call, outcome, changes, started, asked, arrived>>
      /\ UNCHANGED <<answered, early, heard>>
      /\ UNCHANGED <<missed, warned>> \/ (started /\ missed' = 0 /\ warned' = TRUE)
  BY DEF RecvLagged, RecvClosed, RecvTx, dirVars, directoryVars, loopVars, txVars, history
<1>3. e \in {Idle} \cup PeerEvents \cup TxTasks /\ e.kind \notin PeerKinds
  BY TaskTypes DEF PeerEvents, PeerKinds
<1>4. /\ t \notin asked
      /\ task' \in [Tasks -> {Idle} \cup PeerEvents \cup TxTasks]
      /\ asked' \subseteq {u \in Tasks : task'[u] # Idle}
      /\ task'[t] = e /\ \A u \in Tasks \ {t} : task'[u] = task[u]
      /\ \A u \in asked : u \in Tasks /\ u # t
  BY <1>1, <1>2, <1>3, SpawnStep
<1>5. tx_events' \in Seq(TxTasks) /\ \A i \in DOMAIN tx_events' : tx_events'[i].id <= arrived
  <2>1. CASE e \in TxTasks
    <3>1. tx_events \in Seq(TxTasks) /\ tx_events # <<>> /\ tx_events' = Tail(tx_events)
      BY <1>1, <2>1 DEF Inv, TypeOK
    <3>2. /\ tx_events' \in Seq(TxTasks) /\ Len(tx_events) \in Nat
          /\ DOMAIN tx_events = 1..Len(tx_events) /\ DOMAIN tx_events' = 1..(Len(tx_events) - 1)
          /\ \A i \in 1..(Len(tx_events) - 1) : tx_events'[i] = tx_events[i + 1]
      BY <3>1, HeadTailProperties
    <3> QED
      BY <3>2 DEF Inv, Arrivals
  <2>2. CASE e \notin TxTasks
    BY <1>1, <2>2 DEF Inv, TypeOK, Arrivals
  <2> QED
    BY <2>1, <2>2
<1>6. TypeOK'
  <2>1. missed' \in Nat /\ warned' \in BOOLEAN
    <3>1. missed \in Nat /\ warned \in BOOLEAN
      BY DEF Inv, TypeOK
    <3>2. missed' = missed \/ missed' = 0
      BY <1>2
    <3>3. warned' = warned \/ warned' = TRUE
      BY <1>2
    <3>4. missed' \in Nat
      BY <3>1, <3>2
    <3>5. warned' \in BOOLEAN
      BY <3>1, <3>3
    <3> QED
      BY <3>4, <3>5
  <2> QED
    BY <1>2, <1>4, <1>5, <2>1 DEF Inv, TypeOK
<1>7. FeedTrue' /\ FeedCounted'
  BY <1>2 DEF Inv, FeedTrue, FeedCounted, Says
<1>8. ASSUME NEW u \in Tasks PROVE TaskTrue(u)'
  <2>1. CASE u = t
    BY <1>3, <1>4, <2>1 DEF TaskTrue
  <2>2. CASE u # t
    BY <1>2, <1>4, <2>2 DEF Inv, TaskTrue, Says
  <2> QED
    BY <2>1, <2>2
<1>9. Asking' /\ CountsAreNoOlder'
  BY <1>2, <1>4 DEF Inv, Asking, CountsAreNoOlder
<1>10. Arrivals'
  <2>1. e.kind = "tx" => e.id <= arrived
    <3>1. e.kind = "tx" => e \in TxTasks
      BY TaskTypes
    <3>2. e \in TxTasks => Len(tx_events) \in Nat \ {0} /\ e = tx_events[1]
      BY <1>1, HeadTailProperties DEF Inv, TypeOK
    <3> QED
      BY <3>1, <3>2 DEF Inv, TypeOK, Arrivals
  <2> QED
    BY <1>2, <1>4, <1>5, <2>1 DEF Inv, Arrivals
<1>11. Unsubscribed' /\ Heard'
  BY <1>2 DEF Inv, Unsubscribed, Heard, Says
<1> QED
  BY <1>6, <1>7, <1>8, <1>9, <1>10, <1>11 DEF Inv

\* An announcement is received: its number is that of its change, and it is right if
\* no later one is about its peer.
LEMMA AnnouncedTrue ==
  ASSUME Inv, feed # <<>>
  PROVE  /\ Announced \in Announcements
         /\ Announced.kind = Head(feed).kind /\ Announced.peer = Head(feed).peer
         /\ Announced.nth <= changes[Announced.peer]
         /\ (\A i \in 2..Len(feed) : feed[i].peer # Announced.peer)
              => Says(Announced.kind, Announced.peer)
         /\ Announced.nth = changes[Announced.peer] => Says(Announced.kind, Announced.peer)
<1> DEFINE p == Head(feed).peer
           behind == {i \in 2..Len(feed) : feed[i].peer = p}
<1>1. /\ feed \in Seq(ManagerEvent) /\ Len(feed) \in Nat \ {0} /\ DOMAIN feed = 1..Len(feed)
      /\ Head(feed) = feed[1] /\ Head(feed) \in ManagerEvent
  BY HeadTailProperties DEF Inv, TypeOK
<1>2. p \in Peers /\ Head(feed).kind \in PeerKinds
  BY <1>1 DEF ManagerEvent, PeerKinds
<1>3. changes[p] \in Nat /\ Cardinality(Mentions(feed, p)) <= changes[p]
  BY <1>2 DEF Inv, TypeOK, FeedCounted
<1>4. /\ Cardinality(behind) \in Nat
      /\ Cardinality(Mentions(feed, p)) = Cardinality(behind) + 1
      /\ Cardinality(behind) = 0 <=> \A i \in 2..Len(feed) : feed[i].peer # p
  BY <1>1, MentionsTail
<1>5. Announced = [kind |-> Head(feed).kind, peer |-> p, nth |-> changes[p] - Cardinality(behind)]
  BY DEF Announced
<1>6. (\A i \in 2..Len(feed) : feed[i].peer # p) => Says(Head(feed).kind, p)
  BY <1>1 DEF Inv, FeedTrue
<1> HIDE DEF p, behind
<1>7. changes[p] - Cardinality(behind) \in Nat \ {0}
  BY <1>3, <1>4
<1>8. Announced \in Announcements
  BY <1>2, <1>5, <1>7 DEF Announcements, PeerKinds, p
<1> QED
  BY <1>3, <1>4, <1>5, <1>6, <1>8 DEF p

\* Taking an announcement from the feed keeps the invariant.
LEMMA RecvPeerEventStep ==
  ASSUME Inv, NEW t \in Tasks, RecvPeerEvent(t)
  PROVE  Inv'
<1> DEFINE e == Announced
<1>1. /\ started /\ missed = 0 /\ feed # <<>> /\ Spawn(t, e) /\ feed' = Tail(feed)
      /\ heard' = [heard EXCEPT ![e.peer] = e.kind]
      /\ UNCHANGED <<members, up, status, call, outcome, changes, missed, started, asked>>
      /\ UNCHANGED <<tx_events, arrived, answered, early, warned>>
  BY AnnouncedTrue DEF RecvPeerEvent, directoryVars, loopVars, txVars
<1>2. /\ e \in Announcements /\ e.nth <= changes[e.peer]
      /\ (\A i \in 2..Len(feed) : feed[i].peer # e.peer) => Says(e.kind, e.peer)
      /\ e.nth = changes[e.peer] => Says(e.kind, e.peer)
      /\ e.peer = Head(feed).peer
  BY <1>1, AnnouncedTrue
<1> HIDE DEF e
<1>3. /\ e \in {Idle} \cup PeerEvents \cup TxTasks /\ e.kind \in PeerKinds /\ e.peer \in Peers
  BY <1>2, TaskTypes DEF PeerEvents
<1>4. /\ t \notin asked
      /\ task' \in [Tasks -> {Idle} \cup PeerEvents \cup TxTasks]
      /\ asked' \subseteq {u \in Tasks : task'[u] # Idle}
      /\ task'[t] = e /\ \A u \in Tasks \ {t} : task'[u] = task[u]
      /\ \A u \in asked : u \in Tasks /\ u # t
  BY <1>1, <1>3, SpawnStep
<1>5. /\ feed \in Seq(ManagerEvent) /\ Len(feed) \in Nat \ {0} /\ DOMAIN feed = 1..Len(feed)
      /\ feed' \in Seq(ManagerEvent) /\ Len(feed') = Len(feed) - 1 /\ DOMAIN feed' = 1..(Len(feed) - 1)
      /\ \A i \in 1..(Len(feed) - 1) : feed'[i] = feed[i + 1]
      /\ Head(feed) = feed[1]
  BY <1>1, HeadTailProperties DEF Inv, TypeOK
<1>6. TypeOK'
  <2>1. Len(feed') <= FeedCap
    BY <1>5, NodeAssumption DEF Inv, TypeOK
  <2>2. heard' \in [Peers -> {"nothing", "connected", "disconnected"}]
    BY <1>1, <1>3 DEF Inv, TypeOK, PeerKinds
  <2> QED
    BY <1>1, <1>4, <1>5, <2>1, <2>2 DEF Inv, TypeOK
<1>7. FeedTrue'
  <2>1. ASSUME NEW i \in DOMAIN feed',
               \A j \in DOMAIN feed' : j > i => feed'[j].peer # feed'[i].peer
        PROVE  Says(feed'[i].kind, feed'[i].peer)
    <3>1. i + 1 \in DOMAIN feed /\ feed[i + 1] = feed'[i]
      BY <1>5
    <3>2. ASSUME NEW j \in DOMAIN feed, j > i + 1
          PROVE  feed[j].peer # feed[i + 1].peer
      <4>1. j - 1 \in DOMAIN feed' /\ feed'[j - 1] = feed[j] /\ j - 1 > i
        BY <1>5, <3>2
      <4> QED
        BY <2>1, <3>1, <4>1
    <3> QED
      BY <3>1, <3>2 DEF Inv, FeedTrue
  <2> QED
    BY <1>1, <2>1 DEF FeedTrue, Says
<1>8. FeedCounted'
  <2>1. ASSUME NEW p \in Peers
        PROVE  Cardinality(Mentions(feed', p)) <= changes[p]
    <3> DEFINE behind == {i \in 2..Len(feed) : feed[i].peer = p}
    <3>1. /\ Cardinality(Mentions(Tail(feed), p)) = Cardinality(behind)
          /\ Cardinality(behind) \in Nat
          /\ Cardinality(Mentions(feed, p)) = Cardinality(behind) + IF Head(feed).peer = p THEN 1 ELSE 0
      <4>1. feed \in Seq(ManagerEvent) /\ feed # <<>>
        BY <1>1, <1>5
      <4> QED
        BY <4>1, MentionsTail
    <3> HIDE DEF behind
    <3>2. changes[p] \in Nat /\ Cardinality(Mentions(feed, p)) <= changes[p]
      BY DEF Inv, TypeOK, FeedCounted
    <3> QED
      BY <1>1, <3>1, <3>2
  <2> QED
    BY <1>1, <2>1 DEF FeedCounted
<1>9. ASSUME NEW u \in Tasks PROVE TaskTrue(u)'
  <2>1. CASE u = t
    BY <1>1, <1>2, <1>4, <2>1 DEF TaskTrue, Says
  <2>2. CASE u # t
    BY <1>1, <1>4, <2>2 DEF Inv, TaskTrue, Says
  <2> QED
    BY <2>1, <2>2
<1>10. Asking' /\ CountsAreNoOlder'
  BY <1>1, <1>4 DEF Inv, Asking, CountsAreNoOlder
<1>11. Arrivals'
  BY <1>1, <1>3, <1>4 DEF Inv, Arrivals, PeerKinds
<1>12. Heard'
  <2>1. ASSUME ~warned, NEW p \in Peers, \A i \in DOMAIN feed' : feed'[i].peer # p
        PROVE  IF heard'[p] = "nothing" THEN p \in members <=> p \in early ELSE Says(heard'[p], p)
    <3>1. \A i \in 2..Len(feed) : feed[i].peer # p
      <4>1. ASSUME NEW i \in 2..Len(feed) PROVE feed[i].peer # p
        <5>1. i - 1 \in DOMAIN feed' /\ feed'[i - 1] = feed[i]
          BY <1>5
        <5> QED
          BY <2>1, <5>1
      <4> QED
        BY <4>1
    <3>2. CASE p = e.peer
      <4>1. heard'[p] = e.kind /\ e.kind # "nothing"
        BY <1>1, <1>3, <3>2 DEF Inv, TypeOK, PeerKinds
      <4> QED
        BY <1>2, <3>1, <3>2, <4>1
    <3>3. CASE p # e.peer
      <4>1. \A i \in DOMAIN feed : feed[i].peer # p
        <5>1. \A i \in DOMAIN feed : i = 1 \/ i \in 2..Len(feed)
          BY <1>5
        <5> QED
          BY <1>2, <1>5, <3>1, <3>3, <5>1
      <4>2. heard'[p] = heard[p]
        BY <1>1, <3>3 DEF Inv, TypeOK
      <4> QED
        BY <1>1, <2>1, <4>1, <4>2 DEF Inv, Heard
    <3> QED
      BY <3>2, <3>3
  <2> QED
    BY <1>1, <2>1 DEF Heard, Says
<1>13. Unsubscribed'
  BY <1>1 DEF Unsubscribed
<1> QED
  BY <1>6, <1>7, <1>8, <1>9, <1>10, <1>11, <1>12, <1>13 DEF Inv

-----------------------------------------------------------------------------
(* The steps of the handlers, of the manager and of the network *)

\* A handler that asks, or ends, leaves what the others rely on.
LEMMA HandlerFrame ==
  ASSUME Inv, NEW t \in Tasks, task[t] # Idle,
         task' = task \/ (task' = [task EXCEPT ![t] = Idle] /\ t \notin asked'),
         asked' \subseteq asked \cup {t},
         UNCHANGED <<members, feed, up, changes, missed, started, tx_events, arrived, early, heard, warned>>
  PROVE  /\ task' \in [Tasks -> {Idle} \cup PeerEvents \cup TxTasks]
         /\ asked' \subseteq {u \in Tasks : task'[u] # Idle}
         /\ \A u \in asked' : u \in Tasks /\ task'[u] = task[u]
         /\ FeedTrue' /\ FeedCounted' /\ Arrivals' /\ Unsubscribed' /\ Heard'
         /\ \A u \in Tasks : TaskTrue(u)'
<1>1. /\ task \in [Tasks -> {Idle} \cup PeerEvents \cup TxTasks]
      /\ asked \subseteq {u \in Tasks : task[u] # Idle}
  BY DEF Inv, TypeOK
<1>2. task' \in [Tasks -> {Idle} \cup PeerEvents \cup TxTasks]
  BY <1>1
<1>3. \A u \in Tasks : task'[u] = task[u] \/ (u = t /\ task'[u] = Idle /\ t \notin asked')
  BY <1>1
<1>4. \A u \in asked' : u \in Tasks /\ task'[u] = task[u]
  BY <1>1, <1>3
<1>5. asked' \subseteq {u \in Tasks : task'[u] # Idle}
  BY <1>1, <1>4
<1>6. FeedTrue' /\ FeedCounted' /\ Unsubscribed' /\ Heard'
  BY DEF Inv, FeedTrue, FeedCounted, Unsubscribed, Heard, Says
<1>7. Idle.kind \notin PeerKinds /\ Idle.kind # "tx"
  BY TaskTypes DEF PeerKinds
<1>8. Arrivals'
  BY <1>3, <1>7 DEF Inv, Arrivals
<1>9. ASSUME NEW u \in Tasks PROVE TaskTrue(u)'
  BY <1>3, <1>7 DEF Inv, TaskTrue, Says
<1> QED
  BY <1>2, <1>4, <1>5, <1>6, <1>8, <1>9

\* Asking for the peers keeps the invariant.
LEMMA AskPeersStep ==
  ASSUME Inv, NEW t \in Tasks, AskPeers(t)
  PROVE  Inv'
<1>1. /\ task[t].kind \in PeerKinds /\ task' = task /\ asked' = asked \cup {t}
      /\ status' = [status EXCEPT ![t] = "pending"]
      /\ call' = [call EXCEPT ![t] = AskForPeers]
      /\ outcome' = [outcome EXCEPT ![t] = Directory!NoOutcome]
      /\ UNCHANGED <<members, feed, up, changes, missed, started, tx_events, arrived, answered, early>>
      /\ UNCHANGED <<heard, warned>>
  BY DEF AskPeers, Directory!Begin, PeerKinds, loopVars, txVars, history
<1>2. task[t] # Idle
  BY <1>1, TaskTypes DEF PeerKinds
<1>3. /\ task' \in [Tasks -> {Idle} \cup PeerEvents \cup TxTasks]
      /\ asked' \subseteq {u \in Tasks : task'[u] # Idle}
      /\ FeedTrue' /\ FeedCounted' /\ Arrivals' /\ Unsubscribed' /\ Heard'
      /\ \A u \in Tasks : TaskTrue(u)'
  BY <1>1, <1>2, HandlerFrame
<1>4. TypeOK'
  <2>1. AskForPeers \in Directory!Call
    BY DEF AskForPeers, Directory!Call
  <2>2. Directory!NoOutcome \in Outcome
    BY DEF Directory!NoOutcome, Directory!Result, Outcome
  <2>3. /\ status' \in [Tasks -> {"idle", "pending", "done"}]
        /\ call' \in [Tasks -> Directory!Call]
        /\ outcome' \in [Tasks -> Outcome]
    BY <1>1, <2>1, <2>2 DEF Inv, TypeOK
  <2> QED
    BY <1>1, <1>3, <2>3 DEF Inv, TypeOK
<1>5. Asking'
  BY <1>1 DEF Inv, TypeOK, Asking
<1>6. CountsAreNoOlder'
  BY <1>1 DEF Inv, TypeOK, CountsAreNoOlder
<1> QED
  BY <1>3, <1>4, <1>5, <1>6 DEF Inv

\* A handler ends.
LEMMA HandledStep ==
  ASSUME Inv, NEW t \in Tasks, PeerEventHandled(t) \/ Warns(t) \/ TxHandled(t)
  PROVE  Inv'
<1>1. /\ task' = [task EXCEPT ![t] = Idle]
      /\ UNCHANGED <<members, feed, up, status, call, outcome, changes, missed, started>>
      /\ UNCHANGED <<tx_events, arrived, early, heard, warned>>
  BY DEF PeerEventHandled, Warns, TxHandled, Ends, dirVars, directoryVars, loopVars, txVars, history
<1>2. task[t] # Idle /\ asked' \subseteq asked /\ t \notin asked'
  <2>1. CASE PeerEventHandled(t)
    BY <2>1 DEF PeerEventHandled, Inv, TypeOK
  <2>2. CASE Warns(t) \/ TxHandled(t)
    <3>1. task[t].kind \in {"lagged", "closed", "tx"} /\ asked' = asked
      BY <2>2 DEF Warns, TxHandled
    <3> QED
      BY <3>1, TaskTypes DEF Inv, Asking, PeerKinds
  <2> QED
    BY <2>1, <2>2
<1>3. /\ task' \in [Tasks -> {Idle} \cup PeerEvents \cup TxTasks]
      /\ asked' \subseteq {u \in Tasks : task'[u] # Idle}
      /\ \A u \in asked' : u \in Tasks /\ task'[u] = task[u]
      /\ FeedTrue' /\ FeedCounted' /\ Arrivals' /\ Unsubscribed' /\ Heard'
      /\ \A u \in Tasks : TaskTrue(u)'
  BY <1>1, <1>2, HandlerFrame
<1>4. answered' \subseteq 1..arrived
  <2>1. CASE PeerEventHandled(t) \/ Warns(t)
    BY <2>1 DEF PeerEventHandled, Warns, txVars, Inv, TypeOK
  <2>2. CASE TxHandled(t)
    <3>1. task[t].kind = "tx" /\ answered' \subseteq answered \cup {task[t].id}
      BY <2>2 DEF TxHandled, handle_tx_event, IncomingTransactions, GetPooledTransactions, TxIgnored
    <3>2. task[t].id \in 1..MaxTxEvents /\ task[t].id <= arrived
      BY <3>1, TaskTypes DEF Inv, TypeOK, Arrivals
    <3>3. task[t].id \in 1..arrived
      BY <3>2, NodeAssumption DEF Inv, TypeOK
    <3> QED
      BY <3>1, <3>3 DEF Inv, TypeOK
  <2> QED
    BY <2>1, <2>2
<1>5. TypeOK'
  BY <1>1, <1>3, <1>4 DEF Inv, TypeOK
<1>6. Asking' /\ CountsAreNoOlder'
  BY <1>1, <1>2, <1>3 DEF Inv, Asking, CountsAreNoOlder
<1> QED
  BY <1>3, <1>5, <1>6 DEF Inv

\* The answer to a task is the directory as it is now.
LEMMA AnswersStep ==
  ASSUME Inv, NEW t \in Tasks, Answers(t)
  PROVE  Inv'
<1>1. /\ status[t] = "pending"
      /\ status' = [status EXCEPT ![t] = "done"]
      /\ UNCHANGED <<members, feed, up, call, changes, missed, started, task, asked, tx_events>>
      /\ UNCHANGED <<arrived, answered, early, heard, warned>>
  BY DEF Answers, Directory!Finish, loopVars, txVars, history
<1>2. PICK r \in IF up THEN Directory!Answer(call[t]) ELSE Directory!Halted(call[t]) :
        outcome' = [outcome EXCEPT ![t] = r]
  BY DEF Answers, Directory!Finish
<1>3. call[t] \in Directory!Call
  BY DEF Inv, TypeOK
<1>4. r \in Outcome
  <2> USE DEF Directory!Result, Outcome
  <2>1. CASE ~up
    <3>1. r \in Directory!Halted(call[t])
      BY <1>2, <2>1
    <3> QED
      BY <1>3, <3>1 DEF Directory!Halted, Directory!Call
  <2>2. CASE up
    <3>1. r \in Directory!Answer(call[t])
      BY <1>2, <2>2
    <3>2. CASE call[t].op = "list"
      BY <3>1, <3>2 DEF Directory!Answer, Directory!Listed, Inv, TypeOK
    <3>3. CASE call[t].op = "from"
      BY <1>3, <3>1, <3>3
      DEF Directory!Answer, Directory!Targeted, Directory!FromMember, Directory!Empty, Directory!Call
    <3>4. CASE call[t].op = "any"
      BY <3>1, <3>4 DEF Directory!Answer, Directory!Anyone, Directory!FromMember, Directory!Empty
    <3> QED
      BY <1>3, <3>2, <3>3, <3>4 DEF Directory!Call
  <2> QED
    BY <2>1, <2>2
<1>5. TypeOK'
  <2>1. /\ status' \in [Tasks -> {"idle", "pending", "done"}]
        /\ outcome' \in [Tasks -> Outcome]
    BY <1>1, <1>2, <1>4 DEF Inv, TypeOK
  <2> QED
    BY <1>1, <2>1 DEF Inv, TypeOK
<1>6. FeedTrue' /\ FeedCounted' /\ Arrivals' /\ Unsubscribed' /\ Heard' /\ Asking'
  BY <1>1 DEF Inv, FeedTrue, FeedCounted, Arrivals, Unsubscribed, Heard, Asking, Says
<1>7. \A u \in Tasks : TaskTrue(u)'
  BY <1>1 DEF Inv, TaskTrue, Says
<1>8. CountsAreNoOlder'
  <2>1. ASSUME NEW u \in asked, status'[u] = "done", outcome'[u].kind = "list"
        PROVE  \/ task[u].peer \in outcome'[u].peers <=> task[u].kind = "connected"
               \/ changes[task[u].peer] > task[u].nth
    <3>1. u \in Tasks
      BY DEF Inv, TypeOK
    <3>2. CASE u # t
      BY <1>1, <1>2, <2>1, <3>1, <3>2 DEF Inv, TypeOK, CountsAreNoOlder
    <3>3. CASE u = t
      <4>1. outcome'[u] = r /\ call[u] = AskForPeers /\ task[u].kind \in PeerKinds
        BY <1>2, <3>3 DEF Inv, TypeOK, Asking
      <4>2. up
        BY <1>2, <2>1, <3>3, <4>1 DEF Directory!Halted, Directory!Result, AskForPeers
      <4>3. r.peers = members
        BY <1>2, <3>3, <4>1, <4>2 DEF Directory!Answer, Directory!Listed, AskForPeers
      <4>4. /\ task[u].nth <= changes[task[u].peer]
            /\ task[u].nth = changes[task[u].peer] => Says(task[u].kind, task[u].peer)
        BY <3>1, <4>1 DEF Inv, TaskTrue
      <4>5. task[u].nth \in Nat /\ changes[task[u].peer] \in Nat
        BY <3>1, <4>1, TaskTypes DEF Inv, TypeOK
      <4>6. CASE task[u].nth = changes[task[u].peer]
        BY <4>1, <4>3, <4>4, <4>6 DEF Says
      <4> QED
        BY <4>4, <4>5, <4>6
    <3> QED
      BY <3>2, <3>3
  <2> QED
    BY <1>1, <2>1 DEF CountsAreNoOlder
<1> QED
  BY <1>5, <1>6, <1>7, <1>8 DEF Inv

\* A change of the directory is announced, and another one may be lost for it.
LEMMA ChangesEffect ==
  ASSUME Inv, Changes
  PROVE  \E p \in Peers, k \in PeerKinds :
           /\ feed' = Push(feed, [kind |-> k, peer |-> p], FeedCap)
           /\ members' \subseteq Peers
           /\ k = "connected" <=> p \in members'
           /\ \A q \in Peers \ {p} : q \in members' <=> q \in members
           /\ changes' = [changes EXCEPT ![p] = @ + 1]
           /\ UNCHANGED <<up, status, call, outcome>>
<1>1. PICK p \in Peers : /\ Directory!Join(p) \/ Directory!Leave(p)
                         /\ changes' = [changes EXCEPT ![p] = @ + 1]
  BY DEF Changes
<1>2. members \subseteq Peers
  BY DEF Inv, TypeOK
<1>3. CASE Directory!Leave(p)
  <2>1. /\ members' = members \ {p}
        /\ feed' = Push(feed, [kind |-> "disconnected", peer |-> p], FeedCap)
        /\ UNCHANGED <<up, status, call, outcome>>
    BY <1>3 DEF Directory!Leave, Directory!Announce, Directory!Push, Push
  <2> QED
    BY <1>1, <1>2, <2>1 DEF PeerKinds
<1>4. CASE Directory!Join(p)
  <2>1. /\ members' = members \cup {p}
        /\ feed' = Push(feed, [kind |-> "connected", peer |-> p], FeedCap)
        /\ UNCHANGED <<up, status, call, outcome>>
    BY <1>4 DEF Directory!Join, Directory!Announce, Directory!Push, Push
  <2> QED
    BY <1>1, <1>2, <2>1 DEF PeerKinds
<1> QED
  BY <1>1, <1>3, <1>4

\* A change of the directory keeps the invariant: its announcement is the newest.
LEMMA ChangesStep ==
  ASSUME Inv, Changes
  PROVE  Inv'
<1>1. PICK p \in Peers, k \in PeerKinds :
        /\ feed' = Push(feed, [kind |-> k, peer |-> p], FeedCap)
        /\ members' \subseteq Peers
        /\ k = "connected" <=> p \in members'
        /\ \A q \in Peers \ {p} : q \in members' <=> q \in members
        /\ changes' = [changes EXCEPT ![p] = @ + 1]
        /\ UNCHANGED <<up, status, call, outcome>>
  BY ChangesEffect
<1>2. /\ missed' = IF started /\ Full(feed, FeedCap) THEN missed + 1 ELSE missed
      /\ UNCHANGED <<started, task, asked, tx_events, arrived, answered, early, heard, warned>>
  BY DEF Changes, txVars, history
<1> DEFINE v == [kind |-> k, peer |-> p]
<1>3. v \in ManagerEvent /\ v.kind = k /\ v.peer = p
  BY DEF ManagerEvent, PeerKinds
<1>4. feed \in Seq(ManagerEvent) /\ Len(feed) \in Nat /\ Len(feed) <= FeedCap /\ DOMAIN feed = 1..Len(feed)
  BY DEF Inv, TypeOK
<1>5. PICK d \in {0, 1}, n \in Nat \ {0} :
        /\ d = 0 <=> ~Full(feed, FeedCap)
        /\ feed' \in Seq(ManagerEvent) /\ n = Len(feed) + 1 - d /\ n <= FeedCap
        /\ Len(feed') = n /\ DOMAIN feed' = 1..n
        /\ \A i \in 1..(Len(feed) - d) : feed'[i] = feed[i + d]
        /\ feed'[n] = v
  <2> DEFINE d == IF Full(feed, FeedCap) THEN 1 ELSE 0
             n == Len(feed) + 1 - d
  <2> HIDE DEF v
  <2>1. /\ Push(feed, v, FeedCap) \in Seq(ManagerEvent)
        /\ Len(Push(feed, v, FeedCap)) = n /\ n <= FeedCap
        /\ \A i \in 1..(Len(feed) - d) : Push(feed, v, FeedCap)[i] = feed[i + d]
        /\ Push(feed, v, FeedCap)[n] = v
    BY <1>3, <1>4, NodeAssumption, PushProperties
  <2>2. feed' = Push(feed, v, FeedCap)
    BY <1>1 DEF v
  <2>3. d \in {0, 1} /\ n \in Nat \ {0} /\ (d = 0 <=> ~Full(feed, FeedCap))
    BY <1>4, NodeAssumption DEF Full
  <2> HIDE DEF d, n
  <2>4. DOMAIN feed' = 1..n
    BY <2>1, <2>2
  <2>5. n = Len(feed) + 1 - d
    BY DEF n
  <2> QED
    BY <2>1, <2>2, <2>3, <2>4, <2>5
<1>6. \A q \in Peers : changes[q] \in Nat /\ changes'[q] = changes[q] + IF q = p THEN 1 ELSE 0
  BY <1>1 DEF Inv, TypeOK
<1> HIDE DEF v
<1>7. TypeOK'
  <2>1. missed' \in Nat /\ changes' \in [Peers -> Nat]
    BY <1>1, <1>2 DEF Inv, TypeOK
  <2> QED
    BY <1>1, <1>2, <1>5, <2>1 DEF Inv, TypeOK
<1>8. FeedTrue'
  <2>1. ASSUME NEW i \in DOMAIN feed',
               \A j \in DOMAIN feed' : j > i => feed'[j].peer # feed'[i].peer
        PROVE  feed'[i].kind = "connected" <=> feed'[i].peer \in members'
    <3>1. CASE i = n
      BY <1>1, <1>3, <1>5, <3>1
    <3>2. CASE i # n
      <4>1. /\ i \in 1..(Len(feed) - d) /\ i + d \in DOMAIN feed /\ feed'[i] = feed[i + d]
            /\ n \in DOMAIN feed' /\ n > i
        <5>1. i \in 1..n /\ n \in 1..n /\ n > i
          BY <1>5, <3>2
        <5>2. i \in 1..(Len(feed) - d) /\ i + d \in 1..Len(feed)
          BY <1>4, <1>5, <5>1
        <5> QED
          BY <1>4, <1>5, <5>1, <5>2
      <4>2. feed'[i].peer # p
        BY <1>3, <1>5, <2>1, <4>1
      <4>3. ASSUME NEW j \in DOMAIN feed, j > i + d
            PROVE  feed[j].peer # feed[i + d].peer
        <5>1. j - d \in 1..(Len(feed) - d) /\ j - d \in DOMAIN feed' /\ j - d > i /\ (j - d) + d = j
          BY <1>4, <1>5, <4>1, <4>3
        <5>2. feed'[j - d] = feed[j]
          BY <1>5, <5>1
        <5> QED
          BY <2>1, <4>1, <5>1, <5>2
      <4>4. /\ feed[i + d].kind = "connected" <=> feed[i + d].peer \in members
            /\ feed[i + d].peer \in Peers
        <5> DEFINE j == i + d
        <5>1. j \in DOMAIN feed /\ \A l \in DOMAIN feed : l > j => feed[l].peer # feed[j].peer
          BY <4>1, <4>3
        <5> HIDE DEF j
        <5>2. Says(feed[j].kind, feed[j].peer)
          BY <5>1 DEF Inv, FeedTrue
        <5>3. feed[j] \in ManagerEvent
          BY <1>4, <5>1
        <5>4. feed[j].peer \in Peers
          BY <5>3 DEF ManagerEvent
        <5> QED
          BY <5>2, <5>4 DEF Says, j
      <4> QED
        BY <1>1, <4>1, <4>2, <4>4
    <3> QED
      BY <3>1, <3>2
  <2> QED
    BY <2>1 DEF FeedTrue, Says
<1>9. FeedCounted'
  <2>1. ASSUME NEW q \in Peers
        PROVE  Cardinality(Mentions(feed', q)) <= changes'[q]
    <3>1. feed' = Push(feed, v, FeedCap)
      BY <1>1 DEF v
    <3>2. /\ Cardinality(Mentions(feed', q)) \in Nat
          /\ Cardinality(Mentions(feed', q)) <= Cardinality(Mentions(feed, q)) + IF p = q THEN 1 ELSE 0
      BY <1>3, <1>4, <3>1, NodeAssumption, MentionsPush
    <3>3. Cardinality(Mentions(feed, q)) \in Nat /\ Cardinality(Mentions(feed, q)) <= changes[q]
      BY <1>4, MentionsFinite DEF Inv, FeedCounted
    <3> QED
      BY <1>6, <3>2, <3>3
  <2> QED
    BY <2>1 DEF FeedCounted
<1>10. ASSUME NEW u \in Tasks, task[u].kind \in PeerKinds
       PROVE  /\ task[u].peer \in Peers /\ task[u].nth \in Nat
              /\ task[u].nth <= changes[task[u].peer]
              /\ task[u].nth = changes[task[u].peer] => Says(task[u].kind, task[u].peer)
  BY <1>10, TaskTypes DEF Inv, TypeOK, TaskTrue
<1>11. ASSUME NEW u \in Tasks PROVE TaskTrue(u)'
  <2>1. ASSUME task[u].kind \in PeerKinds
        PROVE  /\ task[u].nth <= changes'[task[u].peer]
               /\ task[u].nth = changes'[task[u].peer]
                    => (task[u].kind = "connected" <=> task[u].peer \in members')
    <3>1. CASE task[u].peer = p
      BY <1>6, <1>10, <2>1, <3>1
    <3>2. CASE task[u].peer # p
      BY <1>1, <1>6, <1>10, <2>1, <3>2 DEF Says
    <3> QED
      BY <3>1, <3>2
  <2> QED
    BY <1>2, <2>1 DEF TaskTrue, Says
<1>12. CountsAreNoOlder'
  <2>1. \A u \in asked : u \in Tasks /\ task[u].kind \in PeerKinds
    BY DEF Inv, TypeOK, Asking
  <2>2. \A u \in asked : changes[task[u].peer] > task[u].nth => changes'[task[u].peer] > task[u].nth
    BY <1>6, <1>10, <2>1
  <2> QED
    BY <1>1, <1>2, <2>2 DEF Inv, CountsAreNoOlder
<1>13. Heard'
  <2>1. ASSUME started, ~warned, missed' = 0, NEW q \in Peers, \A i \in DOMAIN feed' : feed'[i].peer # q
        PROVE  IF heard[q] = "nothing" THEN q \in members' <=> q \in early
               ELSE heard[q] = "connected" <=> q \in members'
    <3>1. missed = 0 /\ d = 0
      BY <1>2, <1>5, <2>1 DEF Inv, TypeOK
    <3>2. q # p
      BY <1>3, <1>5, <2>1
    <3>3. \A i \in DOMAIN feed : feed[i].peer # q
      <4>1. ASSUME NEW i \in DOMAIN feed PROVE feed[i].peer # q
        <5>1. i \in 1..(Len(feed) - d) /\ i + d = i /\ i \in DOMAIN feed'
          BY <1>4, <1>5, <3>1
        <5>2. feed'[i] = feed[i]
          BY <1>5, <5>1
        <5> QED
          BY <2>1, <5>1, <5>2
      <4> QED
        BY <4>1
    <3> QED
      BY <1>1, <2>1, <3>1, <3>2, <3>3 DEF Inv, Heard, Says
  <2> QED
    BY <1>2, <2>1 DEF Heard, Says
<1>14. Asking' /\ Arrivals' /\ Unsubscribed'
  BY <1>1, <1>2 DEF Inv, Asking, Arrivals, Unsubscribed
<1> QED
  BY <1>7, <1>8, <1>9, <1>11, <1>12, <1>13, <1>14 DEF Inv

\* What happens outside the node keeps the invariant.
LEMMA OutsideStep ==
  ASSUME Inv, ManagerStops \/ TxArrives \/ UNCHANGED nodeVars
  PROVE  Inv'
<1>1. /\ UNCHANGED <<members, feed, status, call, outcome, changes, missed, started, task, asked>>
      /\ UNCHANGED <<answered, early, heard, warned>>
      /\ up' \in BOOLEAN
  BY DEF ManagerStops, TxArrives, Directory!Halt, nodeVars, dirVars, directoryVars, loopVars, txVars,
         history, Inv, TypeOK
<1>2. /\ tx_events' \in Seq(TxTasks) /\ arrived' \in 0..MaxTxEvents /\ arrived <= arrived'
      /\ \A i \in DOMAIN tx_events' : tx_events'[i].id <= arrived'
  <2>0. /\ tx_events \in Seq(TxTasks) /\ arrived \in 0..MaxTxEvents
        /\ \A i \in DOMAIN tx_events : tx_events[i].id <= arrived
    BY DEF Inv, TypeOK, Arrivals
  <2>1. CASE ManagerStops \/ UNCHANGED nodeVars
    BY <2>0, <2>1, NodeAssumption DEF ManagerStops, nodeVars, txVars
  <2>2. CASE TxArrives
    <3>1. PICK e \in TxEvents :
            tx_events' = Append(tx_events, [kind |-> "tx", id |-> arrived + 1, event |-> e])
      BY <2>2 DEF TxArrives
    <3>2. arrived' = arrived + 1 /\ arrived' \in 0..MaxTxEvents /\ arrived' \in 1..MaxTxEvents
      BY <2>0, <2>2, NodeAssumption DEF TxArrives
    <3> DEFINE x == [kind |-> "tx", id |-> arrived + 1, event |-> e]
    <3>3. x \in TxTasks /\ x.id = arrived'
      BY <3>2 DEF TxTasks
    <3> HIDE DEF x
    <3>4. tx_events' = Append(tx_events, x)
      BY <3>1 DEF x
    <3>5. /\ tx_events' \in Seq(TxTasks) /\ DOMAIN tx_events' = 1..(Len(tx_events) + 1)
          /\ Len(tx_events) \in Nat /\ DOMAIN tx_events = 1..Len(tx_events)
          /\ \A i \in 1..Len(tx_events) : tx_events'[i] = tx_events[i]
          /\ tx_events'[Len(tx_events) + 1] = x
      BY <2>0, <3>3, <3>4, AppendProperties
    <3>6. \A i \in DOMAIN tx_events' : tx_events'[i].id <= arrived'
      <4>1. ASSUME NEW i \in DOMAIN tx_events' PROVE tx_events'[i].id <= arrived'
        <5>1. CASE i \in 1..Len(tx_events)
          <6>1. tx_events[i] \in TxTasks
            BY <2>0, <3>5, <5>1
          <6>2. tx_events'[i] = tx_events[i] /\ tx_events[i].id \in Nat /\ tx_events[i].id <= arrived
            BY <2>0, <3>5, <5>1, <6>1, TaskTypes
          <6> QED
            BY <2>0, <3>2, <6>2
        <5>2. CASE i = Len(tx_events) + 1
          BY <3>2, <3>3, <3>5, <5>2
        <5> QED
          BY <3>5, <5>1, <5>2
      <4> QED
        BY <4>1
    <3> QED
      BY <2>0, <3>2, <3>5, <3>6
  <2> QED
    BY <2>1, <2>2
<1>3. TypeOK'
  <2>1. answered \subseteq 1..arrived' /\ arrived \in 0..MaxTxEvents
    BY <1>2, NodeAssumption DEF Inv, TypeOK
  <2> QED
    BY <1>1, <1>2, <2>1 DEF Inv, TypeOK
<1>4. Arrivals'
  <2>1. ASSUME NEW t \in Tasks, task[t].kind = "tx" PROVE task[t].id <= arrived'
    <3>1. task[t].id \in Nat /\ task[t].id <= arrived /\ arrived \in Nat
      BY <2>1, TaskTypes, NodeAssumption DEF Inv, TypeOK, Arrivals
    <3> QED
      BY <1>2, <3>1
  <2> QED
    BY <1>1, <1>2, <2>1 DEF Arrivals
<1>5. FeedTrue' /\ FeedCounted' /\ Asking' /\ Unsubscribed' /\ Heard' /\ CountsAreNoOlder'
  BY <1>1 DEF Inv, FeedTrue, FeedCounted, Asking, Unsubscribed, Heard, CountsAreNoOlder, Says
<1>6. \A t \in Tasks : TaskTrue(t)'
  BY <1>1 DEF Inv, TaskTrue, Says
<1> QED
  BY <1>3, <1>4, <1>5, <1>6 DEF Inv

\* Every step keeps the invariant.
LEMMA InvStep ==
  ASSUME Inv, [Next]_nodeVars
  PROVE  Inv'
<1>1. CASE \E t \in Tasks : RecvLagged(t) \/ RecvClosed(t) \/ RecvTx(t)
  BY <1>1, RecvStep
<1>2. CASE \E t \in Tasks : RecvPeerEvent(t)
  BY <1>2, RecvPeerEventStep
<1>3. CASE \E t \in Tasks : AskPeers(t)
  BY <1>3, AskPeersStep
<1>4. CASE \E t \in Tasks : PeerEventHandled(t) \/ Warns(t) \/ TxHandled(t)
  BY <1>4, HandledStep
<1>5. CASE \E t \in Tasks : Answers(t)
  BY <1>5, AnswersStep
<1> QED
  BY <1>1, <1>2, <1>3, <1>4, <1>5, StartStep, ChangesStep, OutsideStep DEF Next, Loop, TaskStep

\* The invariant in every reachable state.
LEMMA InvAlways == Spec => []Inv
BY InvInit, InvStep, PTL DEF Spec

-----------------------------------------------------------------------------
(* Theorems *)

\* Every announcement a handler is given is of a change that was made, and every response
\* is to a request that arrived (node.rs:94, :157).
THEOREM NodeTypeCorrect == Spec => []TypeOK
BY InvAlways, PTL DEF Inv

\* Whatever the order in which the handlers of one peer's announcements run, and however
\* late connected_peers() answers them, a count that contradicts the announcement it is
\* printed with belongs to a later change of that peer (node.rs:157, :107, :120).
THEOREM CountsNeverOlder == Spec => []CountsAreNoOlder
BY InvAlways, PTL DEF Inv

\* The last word on each peer, received or still in the feed, is what the manager's map
\* says, unless recv() reported a lag or is about to (node.rs:151, :134): the loop misses
\* no change silently, whatever the capacity of the feed and however slow the loop.
THEOREM ToldOfChanges == Spec => []ToldOfEveryChange
<1>1. Inv => ToldOfEveryChange
  <2> SUFFICES ASSUME Inv, started, ~warned, missed = 0, NEW p \in Peers
               PROVE  CASE LastWord(p) = "connected"    -> p \in members
                        [] LastWord(p) = "disconnected" -> p \notin members
                        [] LastWord(p) = "nothing"      -> (p \in members <=> p \in early)
    BY DEF ToldOfEveryChange
  <2> DEFINE about == {i \in DOMAIN feed : feed[i].peer = p}
  <2>1. /\ feed \in Seq(ManagerEvent) /\ Len(feed) \in Nat /\ DOMAIN feed = 1..Len(feed)
        /\ heard[p] \in {"nothing", "connected", "disconnected"}
    BY DEF Inv, TypeOK
  <2>2. CASE about = {}
    <3>1. LastWord(p) = heard[p]
      BY <2>2 DEF LastWord
    <3>2. IF heard[p] = "nothing" THEN p \in members <=> p \in early ELSE Says(heard[p], p)
      BY <2>2 DEF Inv, Heard
    <3> QED
      BY <2>1, <3>1, <3>2 DEF Says
  <2>3. CASE about # {}
    <3>1. PICK m \in about : \A i \in about : m >= i
      <4>1. about \in SUBSET (1..Len(feed))
        BY <2>1
      <4> HIDE DEF about
      <4> QED
        BY <2>1, <2>3, <4>1, GreatestPosition
    <3>2. PICK l \in about : l = Max(about) /\ \A i \in about : l >= i
      <4> HIDE DEF about
      <4> QED
        BY <3>1 DEF Max
    <3>3. LastWord(p) = feed[l].kind
      BY <2>3, <3>2 DEF LastWord
    <3>4. l \in DOMAIN feed /\ feed[l].peer = p /\ \A i \in DOMAIN feed : i > l => feed[i].peer # p
      <4>1. l \in 1..Len(feed) /\ feed[l].peer = p
        BY <2>1
      <4>2. ASSUME NEW i \in 1..Len(feed), i > l, feed[i].peer = p PROVE FALSE
        <5>1. i \in about
          BY <2>1, <4>2
        <5>2. l >= i
          BY <3>2, <5>1
        <5> QED
          BY <2>1, <4>1, <4>2, <5>2
      <4> QED
        BY <2>1, <4>1, <4>2
    <3>5. Says(feed[l].kind, p)
      BY <3>4 DEF Inv, FeedTrue
    <3>6. feed[l].kind \in PeerKinds
      <4>1. feed[l] \in ManagerEvent
        BY <2>1, <3>4
      <4> QED
        BY <4>1 DEF ManagerEvent, PeerKinds
    <3> QED
      BY <3>3, <3>5, <3>6 DEF Says, PeerKinds
  <2> QED
    BY <2>2, <2>3
<1> QED
  BY <1>1, InvAlways, PTL
=============================================================================
