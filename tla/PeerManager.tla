---------------------------- MODULE PeerManager ----------------------------
(***************************************************************************)
(* The PeerManager actor of src/network/manager.rs: a task that owns the   *)
(* map of connected peers, serves commands from PeerManagerHandles one at  *)
(* a time, follows the network's events and broadcasts ManagerEvents.      *)
(*                                                                         *)
(* run() is a select! loop.  A command is served to its end before the     *)
(* loop reads the next event or command, so a receipts request that waits  *)
(* for a remote peer (pc = "waiting") holds everything else back while     *)
(* sessions go on dying and opening underneath it.                         *)
(*                                                                         *)
(* Peers are identified with their PeerId, a Peer value with the number of *)
(* the session whose sender it holds, and receipts with the peer that sent *)
(* them.  The three branches of Peer::fetch_receipts (eth/70, eth/69,      *)
(* older) differ only in the messages' layout and are one here.            *)
(***************************************************************************)
EXTENDS Sessions, FiniteSets, SequencesExt

CONSTANTS
  Callers,  \* tasks that call a PeerManagerHandle
  CmdCap,   \* capacity of the command channel (128 in the code)
  FeedCap   \* capacity of the ManagerEvent broadcast (256 in the code)

\* PeerId::default(), which names no peer; also the peer of an untargeted call.
NoPeer == "PeerId::default()"
NoCaller == "none"

ASSUME ManagerAssumption ==
  /\ IsFiniteSet(Peers)
  /\ NoPeer \notin Peers
  /\ NoCaller \notin Callers
  /\ CmdCap \in Nat \ {0}
  /\ FeedCap \in Nat \ {0}

VARIABLES
  peers,      \* peers[p]: the session held for p, NoSession if p is not in the map
  order,      \* the order in which the map iterates over its keys
  rr_index,
  cmd_rx,     \* the command channel: callers whose command is queued
  event_tx,   \* ManagerEvents its receiver has not read
  pc,         \* where the task of the manager is
  cur,        \* the caller whose command is being served
  attempt,    \* do_fetch_receipts: the loop variable
  to_evict,   \* do_fetch_receipts: peers to remove after the loop
  last_err,   \* do_fetch_receipts: what the command will be answered
  handle_up,  \* a PeerManagerHandle still exists
  status,     \* status[c]: where the call of c is
  call,       \* call[c]: what c called last
  outcome     \* outcome[c]: what that call returned

mapVars == <<peers, order, event_tx>>
fetchVars == <<pc, cur, attempt, to_evict, last_err>>
callVars == <<handle_up, status, call, outcome>>
managerVars == <<mapVars, rr_index, cmd_rx, fetchVars, callVars>>
vars == <<netVars, managerVars>>

Call == [op : {"list", "any"}, peer : {NoPeer}] \cup [op : {"from"}, peer : Peers]

ErrorKinds == {"disconnected", "failed", "dropped", "gone"}
Outcome == [kind : {"none", "list", "ok"} \cup ErrorKinds,
            peer : Peers \cup {NoPeer},
            peers : SUBSET Peers]

Result(kind, p) == [kind |-> kind, peer |-> p, peers |-> {}]
Listing(S) == [kind |-> "list", peer |-> NoPeer, peers |-> S]
NoOutcome == Result("none", NoPeer)

ManagerEvent == [kind : {"connected", "disconnected"}, peer : Peers]

Connected == {p \in Peers : peers[p] # NoSession}

TypeOK ==
  /\ SessionsTypeOK
  /\ peers \in [Peers -> Nat]
  /\ order \in Seq(Peers)
  /\ rr_index \in Nat
  /\ cmd_rx \in Seq(Callers) /\ Len(cmd_rx) <= CmdCap
  /\ event_tx \in Seq(ManagerEvent) /\ Len(event_tx) <= FeedCap
  /\ pc \in {"select", "asking", "waiting", "evicting", "stopped"}
  /\ cur \in Callers \cup {NoCaller}
  /\ attempt \in Nat
  /\ to_evict \in Seq(Peers)
  /\ last_err \in Outcome
  /\ handle_up \in BOOLEAN
  /\ status \in [Callers -> {"idle", "sending", "waiting", "done"}]
  /\ call \in [Callers -> Call]
  /\ outcome \in [Callers -> Outcome]

Init ==
  /\ SessionsInit
  /\ peers = [p \in Peers |-> NoSession]
  /\ order = <<>>
  /\ rr_index = 0
  /\ cmd_rx = <<>>
  /\ event_tx = <<>>
  /\ pc = "select"
  /\ cur = NoCaller
  /\ attempt = 0
  /\ to_evict = <<>>
  /\ last_err = NoOutcome
  /\ handle_up = FALSE
  /\ status = [c \in Callers |-> "idle"]
  /\ call = [c \in Callers |-> [op |-> "list", peer |-> NoPeer]]
  /\ outcome = [c \in Callers |-> NoOutcome]

-----------------------------------------------------------------------------
(* PeerManager::new, after start_network has spawned the network: the events *)
(* sent until then went to nobody *)

Subscribe ==
  /\ ~listening
  /\ listening' = TRUE
  /\ handle_up' = TRUE
  /\ UNCHANGED <<net_up, opened, sess, alive, chan, req, events, lagged, lost>>
  /\ UNCHANGED <<mapVars, rr_index, cmd_rx, fetchVars, status, call, outcome>>

-----------------------------------------------------------------------------
(* The handle: calls of connected_peers, fetch_receipts, fetch_receipts_from *)

StartCall(c) ==
  /\ handle_up
  /\ status[c] \in {"idle", "done"}
  /\ \E k \in Call : call' = [call EXCEPT ![c] = k]
  /\ status' = [status EXCEPT ![c] = "sending"]
  /\ outcome' = [outcome EXCEPT ![c] = NoOutcome]
  /\ UNCHANGED <<netVars, mapVars, rr_index, cmd_rx, fetchVars, handle_up>>

\* cmd_tx.send(..).await: waits for room in the channel.
SendCommand(c) ==
  /\ status[c] = "sending"
  /\ pc # "stopped"
  /\ Len(cmd_rx) < CmdCap
  /\ cmd_rx' = Append(cmd_rx, c)
  /\ status' = [status EXCEPT ![c] = "waiting"]
  /\ UNCHANGED <<netVars, mapVars, rr_index, fetchVars, handle_up, call, outcome>>

Return(c, r) ==
  /\ status' = [status EXCEPT ![c] = "done"]
  /\ outcome' = [outcome EXCEPT ![c] = r]
  /\ UNCHANGED <<handle_up, call>>

\* The receiver of the command channel is gone.
SendFails(c) ==
  /\ status[c] = "sending"
  /\ pc = "stopped"
  /\ Return(c, IF call[c].op = "from" THEN Result("disconnected", call[c].peer)
                                      ELSE Result("gone", NoPeer))
  /\ UNCHANGED <<netVars, mapVars, rr_index, cmd_rx, fetchVars>>

\* The command was dropped with the channel, and its reply sender with it.
ReplyDropped(c) ==
  /\ status[c] = "waiting"
  /\ pc = "stopped"
  /\ Return(c, IF call[c].op = "from" THEN Result("dropped", call[c].peer)
                                      ELSE Result("gone", NoPeer))
  /\ UNCHANGED <<netVars, mapVars, rr_index, cmd_rx, fetchVars>>

\* The last handle is dropped; a call in progress still borrows one.
DropHandles ==
  /\ handle_up
  /\ \A c \in Callers : status[c] \in {"idle", "done"}
  /\ handle_up' = FALSE
  /\ UNCHANGED <<netVars, mapVars, rr_index, cmd_rx, fetchVars, status, call, outcome>>

-----------------------------------------------------------------------------
(* Network events *)

\* HashMap::insert: a new key may change the order of iteration of all of them.
on_peer_connected(p, s) ==
  /\ peers' = [peers EXCEPT ![p] = s]
  /\ IF p \in Connected THEN order' = order
                        ELSE order' \in SetToSeqs(Connected \cup {p})
  /\ event_tx' = Push(event_tx, [kind |-> "connected", peer |-> p], FeedCap)

\* HashMap::remove: the other keys keep their order.  The entry is unwrapped before
\* it is removed: the task panics when p is not in the map (see EvictsOnlyMembers).
on_peer_removed(p) ==
  /\ p \in Connected
  /\ peers' = [peers EXCEPT ![p] = NoSession]
  /\ \E i \in DOMAIN order : order[i] = p /\ order' = RemoveAt(order, i)
  /\ event_tx' = Push(event_tx, [kind |-> "disconnected", peer |-> p], FeedCap)

\* Peer::from_session: the Peer keeps the sender of the session that was announced.
from_session(e) == e.session

\* Mutant: only PeerRemoved takes a peer out, SessionClosed is ignored.
IgnoresSessionClosed(e) ==
  \/ e.kind = "established" /\ on_peer_connected(e.peer, from_session(e))
  \/ e.kind = "removed" /\ e.peer \in Connected /\ on_peer_removed(e.peer)
  \/ e.kind # "established" /\ (e.kind = "removed" => e.peer \notin Connected) /\ UNCHANGED mapVars

handle_network_event(e) ==
  \/ /\ e.kind = "established"
     /\ on_peer_connected(e.peer, from_session(e))
  \/ /\ e.kind \in {"closed", "removed"}
     /\ e.peer \in Connected
     /\ on_peer_removed(e.peer)
  \/ /\ e.kind \in {"closed", "removed"}
     /\ e.peer \notin Connected
     /\ UNCHANGED mapVars

RecvEvent ==
  /\ pc = "select"
  /\ events # <<>>
  /\ handle_network_event(Head(events))
  /\ events' = Tail(events)
  /\ UNCHANGED <<net_up, opened, sess, alive, chan, req, listening, lagged, lost>>
  /\ UNCHANGED <<rr_index, cmd_rx, fetchVars, callVars>>

-----------------------------------------------------------------------------
(* Commands *)

\* Peer::fetch_receipts up to its await: try_send fails on a closed or a full channel.
CanSend(p) == Live(p, peers[p]) /\ chan[p] < ChanCap

Ask(p) ==
  /\ CanSend(p)
  /\ chan' = [chan EXCEPT ![p] = @ + 1]
  /\ req' = [req EXCEPT ![p] = "queued"]
  /\ UNCHANGED <<net_up, opened, sess, alive, listening, events, lagged, lost>>

\* The locals of do_fetch_receipts are gone once it returns.
FetchDone ==
  /\ pc' = "select"
  /\ cur' = NoCaller
  /\ attempt' = 0
  /\ to_evict' = <<>>
  /\ last_err' = NoOutcome

\* A command that is answered without asking a peer.
AnswerAtOnce(c, r) ==
  /\ Return(c, r)
  /\ UNCHANGED <<netVars, mapVars, rr_index, fetchVars>>

ServeList(c) ==
  /\ call[c].op = "list"
  /\ AnswerAtOnce(c, Listing(Connected))

ServeNoPeers(c) ==
  /\ call[c].op # "list"
  /\ Connected = {}
  /\ AnswerAtOnce(c, Result("disconnected", NoPeer))

\* fetch_receipts_from: the peer is not in the map, or its channel refuses the request.
ServeFromFails(c) ==
  /\ call[c].op = "from"
  /\ Connected # {}
  /\ call[c].peer \notin Connected \/ ~CanSend(call[c].peer)
  /\ AnswerAtOnce(c, Result("disconnected", call[c].peer))

ServeFrom(c) ==
  /\ call[c].op = "from"
  /\ call[c].peer \in Connected
  /\ Ask(call[c].peer)
  /\ pc' = "waiting"
  /\ cur' = c
  /\ UNCHANGED <<mapVars, rr_index, attempt, to_evict, last_err, callVars>>

\* fetch_receipts: enter the loop over the peers.
ServeAny(c) ==
  /\ call[c].op = "any"
  /\ Connected # {}
  /\ rr_index' = rr_index % Len(order)
  /\ pc' = "asking"
  /\ cur' = c
  /\ attempt' = 0
  /\ to_evict' = <<>>
  /\ last_err' = Result("disconnected", NoPeer)
  /\ UNCHANGED <<netVars, mapVars, callVars>>

handle_command(c) ==
  \/ ServeList(c)
  \/ ServeNoPeers(c)
  \/ ServeFromFails(c)
  \/ ServeFrom(c)
  \/ ServeAny(c)

RecvCommand ==
  /\ pc = "select"
  /\ cmd_rx # <<>>
  /\ handle_command(Head(cmd_rx))
  /\ cmd_rx' = Tail(cmd_rx)

-----------------------------------------------------------------------------
(* do_fetch_receipts for any peer: the loop, its await and the evictions *)

\* Mutant: the cursor advances with every attempt, and the loop adds the attempt again.
DriftingPosition(a) == (rr_index + 2 * a) % Len(order)

\* idx, counted from 0 as in the code.
Position(a) == (rr_index + a) % Len(order)
Candidate(a) == order[Position(a) + 1]

\* The peer whose answer is awaited.
Asked == IF call[cur].op = "from" THEN call[cur].peer ELSE Candidate(attempt)

TryNext ==
  /\ pc = "asking"
  /\ attempt < Len(order)
  /\ Ask(Candidate(attempt))
  /\ pc' = "waiting"
  /\ UNCHANGED <<mapVars, rr_index, cmd_rx, cur, attempt, to_evict, last_err, callVars>>

TryFails ==
  /\ pc = "asking"
  /\ attempt < Len(order)
  /\ ~CanSend(Candidate(attempt))
  /\ to_evict' = Append(to_evict, Candidate(attempt))
  /\ last_err' = Result("disconnected", Candidate(attempt))
  /\ attempt' = attempt + 1
  /\ UNCHANGED <<netVars, mapVars, rr_index, cmd_rx, pc, cur, callVars>>

TakeAnswer ==
  /\ pc = "waiting"
  /\ req[Asked] \in Answers
  /\ req' = [req EXCEPT ![Asked] = "none"]
  /\ UNCHANGED <<net_up, opened, sess, alive, chan, listening, events, lagged, lost>>
  /\ UNCHANGED <<mapVars, cmd_rx>>

FromAnswered ==
  /\ TakeAnswer
  /\ call[cur].op = "from"
  /\ Return(cur, Result(req[Asked], Asked))
  /\ FetchDone
  /\ UNCHANGED rr_index

\* Mutant: the cursor stays on the peer that answered.
StaysOnPeer ==
  /\ TakeAnswer
  /\ call[cur].op = "any"
  /\ req[Asked] = "ok"
  /\ rr_index' = Position(attempt)
  /\ last_err' = Result("ok", Asked)
  /\ pc' = "evicting"
  /\ UNCHANGED <<cur, attempt, to_evict, callVars>>

AnySucceeds ==
  /\ TakeAnswer
  /\ call[cur].op = "any"
  /\ req[Asked] = "ok"
  /\ rr_index' = (Position(attempt) + 1) % Len(order)
  /\ last_err' = Result("ok", Asked)
  /\ pc' = "evicting"
  /\ UNCHANGED <<cur, attempt, to_evict, callVars>>

\* Mutant: a peer whose answer is an error is evicted as well.
EvictsOnAnyError ==
  /\ TakeAnswer
  /\ call[cur].op = "any"
  /\ req[Asked] # "ok"
  /\ to_evict' = Append(to_evict, Asked)
  /\ last_err' = Result(req[Asked], Asked)
  /\ attempt' = attempt + 1
  /\ pc' = "asking"
  /\ UNCHANGED <<rr_index, cur, callVars>>

AnyFails ==
  /\ TakeAnswer
  /\ call[cur].op = "any"
  /\ req[Asked] # "ok"
  /\ last_err' = Result(req[Asked], Asked)
  /\ attempt' = attempt + 1
  /\ pc' = "asking"
  /\ UNCHANGED <<rr_index, cur, to_evict, callVars>>

\* Mutant: the loop runs one attempt too far and never ends.
NeverExhausted ==
  /\ pc = "asking"
  /\ attempt > Len(order)
  /\ pc' = "evicting"
  /\ UNCHANGED <<netVars, mapVars, rr_index, cmd_rx, cur, attempt, to_evict, last_err, callVars>>

Exhausted ==
  /\ pc = "asking"
  /\ attempt = Len(order)
  /\ pc' = "evicting"
  /\ UNCHANGED <<netVars, mapVars, rr_index, cmd_rx, cur, attempt, to_evict, last_err, callVars>>

Evict ==
  /\ pc = "evicting"
  /\ to_evict # <<>>
  /\ on_peer_removed(Head(to_evict))
  /\ to_evict' = Tail(to_evict)
  /\ UNCHANGED <<netVars, rr_index, cmd_rx, pc, cur, attempt, last_err, callVars>>

\* Mutant: the caller is answered before the dead peers are removed, and they never are.
RepliesBeforeEvicting ==
  /\ pc = "evicting"
  /\ Return(cur, last_err)
  /\ FetchDone
  /\ UNCHANGED <<netVars, mapVars, rr_index, cmd_rx>>

ReplyAny ==
  /\ pc = "evicting"
  /\ to_evict = <<>>
  /\ Return(cur, last_err)
  /\ FetchDone
  /\ UNCHANGED <<netVars, mapVars, rr_index, cmd_rx>>

FetchStep ==
  \/ TryNext
  \/ TryFails
  \/ FromAnswered
  \/ AnySucceeds
  \/ AnyFails
  \/ Exhausted
  \/ Evict
  \/ ReplyAny

-----------------------------------------------------------------------------
(* The end of run(), and the receiver of the broadcast *)

Stop ==
  /\ listening
  /\ pc = "select"
  /\ \/ ~net_up /\ events = <<>>
     \/ ~handle_up /\ cmd_rx = <<>>
  /\ pc' = "stopped"
  /\ UNCHANGED <<netVars, mapVars, rr_index, cmd_rx, cur, attempt, to_evict, last_err, callVars>>

\* The receiver reads one value, or resubscribes: then it never sees those sent so far.
ReadFeed ==
  /\ event_tx # <<>>
  /\ event_tx' \in {Tail(event_tx), <<>>}
  /\ UNCHANGED <<netVars, peers, order, rr_index, cmd_rx, fetchVars, callVars>>

CallerStep ==
  \/ \E c \in Callers :
       \/ StartCall(c)
       \/ SendCommand(c)
       \/ SendFails(c)
       \/ ReplyDropped(c)
  \/ DropHandles

ManagerStep == Subscribe \/ RecvEvent \/ RecvCommand \/ FetchStep \/ Stop

Outside(A) == A /\ UNCHANGED managerVars

Environment ==
  \/ \E p \in Peers :
       \/ Outside(SessionOpens(p))
       \/ Outside(SessionDies(p))
       \/ Outside(ReportClosed(p))
       \/ Outside(ReportRemoved(p))
       \/ Outside(SessionTakes(p))
       \/ Outside(SessionAnswers(p))
  \/ Outside(NetworkStops)

Next == ManagerStep \/ CallerStep \/ Environment \/ ReadFeed

Spec == Init /\ [][Next]_vars

(* select! polls its branches in random order: a branch that is ready again and *)
(* again is taken in the end, even when the loop is busy in between (strong      *)
(* fairness of RecvEvent and Stop); a queued command stays ready.  send().await  *)
(* waits in a first-come queue, so it gets a slot if slots keep getting free.    *)
(* Of reth: a session takes its requests and resolves each of them, at the       *)
(* latest by its own request timeout, and the network reports a dead session.    *)
Fairness ==
  /\ SF_vars(RecvEvent)
  /\ WF_vars(RecvCommand)
  /\ WF_vars(FetchStep)
  /\ SF_vars(Stop)
  /\ \A c \in Callers : SF_vars(SendCommand(c)) /\ WF_vars(SendFails(c)) /\ WF_vars(ReplyDropped(c))
  /\ \A p \in Peers :
       /\ WF_vars(Outside(SessionTakes(p)))
       /\ WF_vars(Outside(SessionAnswers(p)))
       /\ WF_vars(Outside(ReportClosed(p)) \/ Outside(ReportRemoved(p)))

FairSpec == Spec /\ Fairness

-----------------------------------------------------------------------------
(* Correctness *)

\* on_peer_removed unwraps the entry of the peer it removes (manager.rs:260).  The
\* peers a fetch evicts are distinct and still in the map when their turn comes, so
\* the unwrap never panics: nothing else changes the map between the moment a
\* peer is found dead and the end of the loop, however long the awaits in between.
EvictsOnlyMembers ==
  /\ \A i, j \in DOMAIN to_evict : to_evict[i] = to_evict[j] => i = j
  /\ \A i \in DOMAIN to_evict : to_evict[i] \in Connected

\* A peer is removed, or its sender replaced, only when the session it stood for is
\* over.  try_send also fails on a full channel and the code then takes the peer for
\* dead: that never happens because the manager has at most one request out.
OnlyDeadRemoved ==
  [][\A p \in Connected : peers'[p] # peers[p] => ~Live(p, peers[p])]_vars

About(p) == {i \in DOMAIN events : events[i].peer = p}

\* The map agrees with the network on every peer no unread event is about: the peer of
\* a running session is there with that session, and a peer with no session, or with
\* a dead one that was evicted, is not there.  The exception are the peers whose
\* newest event was lost, before the manager subscribed or to an overrun; older losses
\* are repaired by any later event about the peer.
DirectoryAccurate ==
  \A p \in Peers \ lost :
    About(p) = {} =>
      \/ peers[p] = sess[p]
      \/ peers[p] = NoSession /\ ~alive[p]

\* The sender of a peer in the map is overwritten (and the peer announced twice in
\* a row) only after an event about it was lost: otherwise the end of a session takes the
\* peer out before its next session puts it back.
OverwriteOnlyAfterLag ==
  [][\A p \in Connected : peers'[p] \notin {peers[p], NoSession} => p \in lagged]_vars

\* Every call of a handle returns: with an answer, or with an error once the
\* manager is gone.
EveryCallReturns ==
  \A c \in Callers : status[c] \in {"sending", "waiting"} ~> status[c] = "done"

\* A manager that runs on comes to agree with the network, again and again, on every
\* peer whose newest event was not lost, however long its fetches keep it from reading.
DirectoryConverges ==
  \A p \in Peers : []<>(peers[p] = sess[p] \/ p \in lost \/ pc = "stopped")

\* The manager implements the directory the rest of the program relies on: whether a
\* call still waits for room in the command channel cannot be told from outside.
Up == pc # "stopped"
Progress ==
  [c \in Callers |-> IF status[c] \in {"sending", "waiting"} THEN "pending" ELSE status[c]]

Directory == INSTANCE PeerDirectory WITH
  members <- Connected, feed <- event_tx, up <- Up, status <- Progress

ImplementsDirectory == Directory!Spec
=============================================================================
