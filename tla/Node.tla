-------------------------------- MODULE Node --------------------------------
(***************************************************************************)
(* The orchestrator of src/node/node.rs.  start() is a select! loop over   *)
(* the ManagerEvents of the PeerManager and the transaction events of      *)
(* reth; it never awaits a handler: each event gets a task of its own.     *)
(*                                                                         *)
(* The PeerManager is the PeerDirectory it implements, and the tasks that  *)
(* ask it for its peers are its callers.  main() spawns it before it calls *)
(* start(), which subscribes anew.                                         *)
(***************************************************************************)
EXTENDS Decoder, Broadcast, FiniteSets, SequencesExt

CONSTANTS
  Peers, NoPeer,
  FeedCap,      \* capacity of the ManagerEvent broadcast
  Tasks,        \* bound: handlers that run at the same time (unbounded in the code)
  MaxChanges,   \* bound: how often peers are announced
  TxEvents,     \* the transaction events that may arrive
  MaxTxEvents,  \* bound: how many of them do
  pool_config,  \* the addresses of the watched pools, as the file spells them
  Caseless      \* addresses whose hexadecimal form has no letter

\* A transaction event is [kind, txs]; a transaction [to, input], to = NoAddress for one
\* that creates a contract.
NoAddress == "None"

ASSUME NodeAssumption ==
  /\ FeedCap \in Nat \ {0}
  /\ MaxTxEvents \in Nat

VARIABLES
  members, feed, up, status, call, outcome,  \* the PeerDirectory
  changes,      \* changes[p]: how often p was announced
  missed,       \* announcements overwritten since the last recv
  started,      \* start() has subscribed
  task,         \* task[t]: the event it handles
  asked,        \* the tasks that await connected_peers()
  tx_events,    \* the unbounded channel of transaction events
  arrived,      \* how many transaction events arrived
  printed,      \* printed[n]: the interactions reported for the n-th of them
  answered,     \* the GetPooledTransactions requests that got their response
  early,        \* history: the peers connected when start() subscribed
  heard,        \* history: heard[p]: the last announcement received about p
  warned        \* history: a recv returned Lagged

directoryVars == <<members, up, status, call, outcome>>
dirVars == <<directoryVars, feed>>
txVars == <<tx_events, arrived, printed, answered>>
history == <<early, heard, warned>>
loopVars == <<missed, started>>
nodeVars == <<dirVars, changes, loopVars, task, asked, txVars, history>>

Directory == INSTANCE PeerDirectory WITH Callers <- Tasks

Idle == [kind |-> "idle"]
AskForPeers == [op |-> "list", peer |-> NoPeer]

\* An announcement, with how many changes of its peer there had been when it was sent.
Announcements == [kind : {"connected", "disconnected"}, peer : Peers, nth : Nat \ {0}]
PeerEvents == Announcements \cup [kind : {"lagged", "closed"}]
TxTasks == [kind : {"tx"}, id : 1..MaxTxEvents, event : TxEvents]

ManagerEvent == [kind : {"connected", "disconnected"}, peer : Peers]
Outcome == [kind : {"none", "list", "ok", "failed", "dropped", "disconnected", "gone"},
            peer : Peers \cup {NoPeer},
            peers : SUBSET Peers]

TypeOK ==
  /\ members \subseteq Peers
  /\ feed \in Seq(ManagerEvent) /\ Len(feed) <= FeedCap
  /\ up \in BOOLEAN
  /\ status \in [Tasks -> {"idle", "pending", "done"}]
  /\ call \in [Tasks -> Directory!Call]
  /\ outcome \in [Tasks -> Outcome]
  /\ changes \in [Peers -> Nat]
  /\ missed \in Nat
  /\ started \in BOOLEAN
  /\ task \in [Tasks -> {Idle} \cup PeerEvents \cup TxTasks]
  /\ asked \subseteq {t \in Tasks : task[t] # Idle}
  /\ tx_events \in Seq(TxTasks)
  /\ arrived \in 0..MaxTxEvents
  /\ answered \subseteq 1..arrived
  /\ early \subseteq Peers
  /\ heard \in [Peers -> {"nothing", "connected", "disconnected"}]
  /\ warned \in BOOLEAN

Init ==
  /\ Directory!Init
  /\ changes = [p \in Peers |-> 0]
  /\ missed = 0
  /\ started = FALSE
  /\ task = [t \in Tasks |-> Idle]
  /\ asked = {}
  /\ tx_events = <<>>
  /\ arrived = 0
  /\ printed = [n \in 1..MaxTxEvents |-> <<>>]
  /\ answered = {}
  /\ early = {}
  /\ heard = [p \in Peers |-> "nothing"]
  /\ warned = FALSE

-----------------------------------------------------------------------------
(* The manager, which is the directory, and reth *)

TotalChanges == MapThenSumSet(LAMBDA p : changes[p], Peers)

\* A peer of the map may be announced as connected again: its entry is overwritten.
Changes ==
  /\ TotalChanges < MaxChanges
  /\ \E p \in Peers : /\ Directory!Join(p) \/ Directory!Leave(p)
                      /\ changes' = [changes EXCEPT ![p] = @ + 1]
  /\ missed' = IF started /\ Full(feed, FeedCap) THEN missed + 1 ELSE missed
  /\ UNCHANGED <<started, task, asked, txVars, history>>

\* The PeerManager answers a task, or its channel closed.
Answers(t) ==
  /\ Directory!Finish(t)
  /\ UNCHANGED <<changes, loopVars, task, asked, txVars, history>>

ManagerStops ==
  /\ Directory!Halt
  /\ UNCHANGED <<changes, loopVars, task, asked, txVars, history>>

TxArrives ==
  /\ up
  /\ arrived < MaxTxEvents
  /\ \E e \in TxEvents :
       tx_events' = Append(tx_events, [kind |-> "tx", id |-> arrived + 1, event |-> e])
  /\ arrived' = arrived + 1
  /\ UNCHANGED <<dirVars, changes, loopVars, task, asked, printed, answered, history>>

-----------------------------------------------------------------------------
(* start(): the loop *)

\* main() awaits start(), which begins by resubscribing: what the manager announced
\* before is never received.
Start ==
  /\ ~started
  /\ started' = TRUE
  /\ feed' = <<>>
  /\ early' = members
  /\ UNCHANGED <<directoryVars, changes, missed, task, asked, txVars, heard, warned>>

Spawn(t, e) == task[t] = Idle /\ task' = [task EXCEPT ![t] = e]

\* recv() reports a lag before it goes on with the oldest announcement it still has.
RecvLagged(t) ==
  /\ started
  /\ missed > 0
  /\ Spawn(t, [kind |-> "lagged"])
  /\ missed' = 0
  /\ warned' = TRUE
  /\ UNCHANGED <<dirVars, changes, started, asked, txVars, early, heard>>

\* The oldest unread announcement.  The feed holds the latest ones, so those about its
\* peer that are still behind it were sent later.
Announced ==
  LET p == Head(feed).peer
  IN [kind |-> Head(feed).kind, peer |-> p,
      nth |-> changes[p] - Cardinality({i \in 2..Len(feed) : feed[i].peer = p})]

\* Mutant: the loop subscribes again each time round.
RecvAndResubscribe(t) ==
  /\ started
  /\ missed = 0
  /\ feed # <<>>
  /\ Spawn(t, Announced)
  /\ feed' = <<>>
  /\ heard' = [heard EXCEPT ![Head(feed).peer] = Head(feed).kind]
  /\ UNCHANGED <<directoryVars, changes, loopVars, asked, txVars, early, warned>>

RecvPeerEvent(t) ==
  /\ started
  /\ missed = 0
  /\ feed # <<>>
  /\ Spawn(t, Announced)
  /\ feed' = Tail(feed)
  /\ heard' = [heard EXCEPT ![Head(feed).peer] = Head(feed).kind]
  /\ UNCHANGED <<directoryVars, changes, loopVars, asked, txVars, early, warned>>

\* With the manager gone recv() returns Closed at once, again and again.
RecvClosed(t) ==
  /\ started
  /\ missed = 0
  /\ feed = <<>>
  /\ ~up
  /\ Spawn(t, [kind |-> "closed"])
  /\ UNCHANGED <<dirVars, changes, loopVars, asked, txVars, history>>

\* Mutant: the loop ends when the manager is gone, as a commented-out break would.
RecvTxUntilClosed(t) ==
  /\ started
  /\ up
  /\ tx_events # <<>>
  /\ Spawn(t, Head(tx_events))
  /\ tx_events' = Tail(tx_events)
  /\ UNCHANGED <<dirVars, changes, loopVars, asked, arrived, printed, answered, history>>

\* Once the channel of transaction events is closed the loop only spins.
RecvTx(t) ==
  /\ started
  /\ tx_events # <<>>
  /\ Spawn(t, Head(tx_events))
  /\ tx_events' = Tail(tx_events)
  /\ UNCHANGED <<dirVars, changes, loopVars, asked, arrived, printed, answered, history>>

-----------------------------------------------------------------------------
(* handle_peer_event *)

Ends(t) == task' = [task EXCEPT ![t] = Idle]

\* Mutant: a peer count from an earlier question will do.
ReusesAnswer(t) ==
  /\ task[t].kind \in {"connected", "disconnected"}
  /\ t \notin asked
  /\ IF outcome[t].kind = "list" THEN UNCHANGED dirVars ELSE Directory!Begin(t, AskForPeers)
  /\ asked' = asked \cup {t}
  /\ UNCHANGED <<changes, loopVars, task, txVars, history>>

\* connected_peers().await, for a line that says how many peers there are now.
AskPeers(t) ==
  /\ task[t].kind \in {"connected", "disconnected"}
  /\ t \notin asked
  /\ Directory!Begin(t, AskForPeers)
  /\ asked' = asked \cup {t}
  /\ UNCHANGED <<changes, loopVars, task, txVars, history>>

\* Mutant: a task whose question fails does not give up.
EndsOnAnswer(t) ==
  /\ t \in asked
  /\ status[t] = "done"
  /\ outcome[t].kind = "list"
  /\ asked' = asked \ {t}
  /\ Ends(t)
  /\ UNCHANGED <<dirVars, changes, loopVars, txVars, history>>

\* The line is printed, or there is no answer and the task returns without one;
\* handle_pool_sync is empty.
PeerEventHandled(t) ==
  /\ t \in asked
  /\ status[t] = "done"
  /\ asked' = asked \ {t}
  /\ Ends(t)
  /\ UNCHANGED <<dirVars, changes, loopVars, txVars, history>>

Warns(t) ==
  /\ task[t].kind \in {"lagged", "closed"}
  /\ Ends(t)
  /\ UNCHANGED <<dirVars, changes, loopVars, asked, txVars, history>>

-----------------------------------------------------------------------------
(* handle_tx_event *)

\* Address::to_string, the EIP-55 form: the letters' case is a checksum of the address.
\* A file may spell an address so, or in lower case; they are the same without letters.
Spelled(a, form) == [address |-> a, form |-> IF a \in Caseless THEN "lower" ELSE form]
to_string(a) == Spelled(a, "checksum")

Watched(tx) == tx.to # NoAddress /\ to_string(tx.to) \in pool_config

Interaction(tx) == [tx |-> tx, decoded |-> decode_pool_calldata(tx.input)]

IncomingTransactions(id, e) ==
  /\ e.kind = "transactions"
  /\ LET found == SelectSeq(e.txs, Watched)
     IN printed' = [printed EXCEPT ![id] = [i \in DOMAIN found |-> Interaction(found[i])]]
  /\ UNCHANGED answered

\* The node has no pool of its own: the response is empty.
GetPooledTransactions(id, e) ==
  /\ e.kind = "get"
  /\ answered' = answered \cup {id}
  /\ UNCHANGED printed

\* IncomingPooledTransactionHashes, GetTransactionsHandle.
TxIgnored(e) ==
  /\ e.kind \in {"hashes", "handle"}
  /\ UNCHANGED <<printed, answered>>

handle_tx_event(id, e) ==
  \/ IncomingTransactions(id, e)
  \/ GetPooledTransactions(id, e)
  \/ TxIgnored(e)

TxHandled(t) ==
  /\ task[t].kind = "tx"
  /\ handle_tx_event(task[t].id, task[t].event)
  /\ Ends(t)
  /\ UNCHANGED <<dirVars, changes, loopVars, asked, tx_events, arrived, history>>

-----------------------------------------------------------------------------

Loop == \E t \in Tasks : RecvLagged(t) \/ RecvPeerEvent(t) \/ RecvClosed(t) \/ RecvTx(t)

TaskStep(t) == AskPeers(t) \/ PeerEventHandled(t) \/ Warns(t) \/ TxHandled(t)

Next ==
  \/ Start
  \/ Loop
  \/ \E t \in Tasks : TaskStep(t) \/ Answers(t)
  \/ Changes
  \/ ManagerStops
  \/ TxArrives

Spec == Init /\ [][Next]_nodeVars

\* start() is called; select! polls its branches in random order, so a branch that is
\* ready again and again is taken, even one that competes with a closed channel's
\* endless errors; tokio runs every task; the manager answers every call (the
\* property EveryCallReturns of PeerManager).
Fairness ==
  /\ WF_nodeVars(Start)
  /\ SF_nodeVars(\E t \in Tasks : RecvTx(t))
  /\ SF_nodeVars(\E t \in Tasks : RecvLagged(t) \/ RecvPeerEvent(t))
  /\ \A t \in Tasks : WF_nodeVars(TaskStep(t)) /\ WF_nodeVars(Answers(t))

FairSpec == Spec /\ Fairness

-----------------------------------------------------------------------------
(* Correctness *)

\* The last announcement about p that was or will be received.
LastWord(p) ==
  LET about == {i \in DOMAIN feed : feed[i].peer = p}
  IN IF about = {} THEN heard[p] ELSE feed[Max(about)].kind

\* A node that was not warned, and is not about to be, is told of every change of the
\* manager's peers since it subscribed: the last word on a peer says whether it is
\* connected, and silence that nothing changed.
ToldOfEveryChange ==
  started /\ ~warned /\ missed = 0 =>
    \A p \in Peers : CASE LastWord(p) = "connected"    -> p \in members
                       [] LastWord(p) = "disconnected" -> p \notin members
                       [] LastWord(p) = "nothing"      -> (p \in members <=> p \in early)

\* The tasks of one peer's announcements overtake each other, and each asks for its count
\* in its own time (node.rs:157).  A count may then belong to a later moment than the line
\* it is printed on, never to an earlier one: an answer that contradicts the
\* announcement is newer than it, and the peer was announced again since.
CountsAreNoOlder ==
  \A t \in asked : status[t] = "done" /\ outcome[t].kind = "list" =>
    \/ task[t].peer \in outcome[t].peers <=> task[t].kind = "connected"
    \/ changes[task[t].peer] > task[t].nth

\* Every handler ends, also when the manager stops before or while it waits for it.
HandlersEnd == \A t \in Tasks : task[t] # Idle ~> task[t] = Idle

\* Every request for pooled transactions that reached the node is answered, whatever
\* becomes of the manager: the peer that sent it waits for the response.
RequestsAnswered ==
  \A n \in 1..MaxTxEvents :
    (\E i \in DOMAIN tx_events : tx_events[i].id = n /\ tx_events[i].event.kind = "get")
      ~> n \in answered

-----------------------------------------------------------------------------
(* Claims of the documentation that the code does not keep *)

\* README.md, "Mempool access": swaps on the watched pools that are to take place are
\* reported.  pools.json spells every address in lower case, to_string does not.
PoolsReported ==
  [][\A t \in Tasks :
       task[t].kind = "tx" /\ task[t].event.kind = "transactions" /\ task'[t] = Idle =>
         \A tx \in ToSet(task[t].event.txs) :
           /\ \E p \in pool_config : p.address = tx.to
           /\ decode_pool_calldata(tx.input).call = "swap"
           => \E line \in ToSet(printed'[task[t].id]) : line.tx = tx]_nodeVars

\* The comments of the decoder (decoder.rs:34, :42): what is reported of a swap are the
\* zeroForOne and the amountSpecified it was called with.
SwapDecoded ==
  \A n \in 1..MaxTxEvents : \A line \in ToSet(printed[n]) :
    line.decoded.call = "swap" /\ Len(line.tx.input) >= ArgumentEnd(2)
      => line.decoded = AbiSwap(line.tx.input)
=============================================================================
