------------------------------ MODULE Sessions ------------------------------
(***************************************************************************)
(* The part of the reth network stack that v3-node stands on, as           *)
(* src/network uses it: authenticated sessions with remote peers, the      *)
(* request channel of each session, and the stream of NetworkEvents that   *)
(* NetworkHandle::event_listener() returns.  The code of reth is not in    *)
(* this repository: the module is an external environment.                 *)
(*                                                                         *)
(* A session's task may end (its channel closes at once) some time before  *)
(* the network reports the closure; a peer has one session at a time, and  *)
(* every session has a fresh number.                                       *)
(***************************************************************************)
EXTENDS Broadcast, Naturals, Sequences

CONSTANTS
  Peers,        \* the remote peers
  MaxSessions,  \* bound: how many sessions are ever opened
  EventCap,     \* capacity of the network event stream
  ChanCap       \* capacity of a session's request channel

ASSUME SessionsAssumption ==
  /\ MaxSessions \in Nat
  /\ EventCap \in Nat \ {0}
  /\ ChanCap \in Nat \ {0}

VARIABLES
  net_up,   \* the NetworkManager task runs
  opened,   \* number of sessions opened so far
  sess,     \* sess[p]: the session the network has with p, NoSession if none
  alive,    \* alive[p]: the task of that session still runs
  chan,     \* chan[p]: requests that session has not taken from its channel
  req,      \* req[p]: the oneshot of the last request sent to p
  listening, \* the PeerManager has subscribed to the events
  events,   \* network events the PeerManager has not read
  lagged,   \* history: peers with an event that was never read
  lost      \* history: peers whose newest event was never read and never will be

netVars == <<net_up, opened, sess, alive, chan, req, listening, events, lagged, lost>>

NoSession == 0

\* A request waits in the channel, is being served, or its oneshot is resolved:
\* with receipts, with a RequestError, or by dropping the sender.
Unanswered == {"queued", "taken"}
Answers == {"ok", "failed", "dropped"}
RequestStates == {"none"} \cup Unanswered \cup Answers

Event == [kind : {"established", "closed", "removed"}, peer : Peers, session : Nat]

SessionsTypeOK ==
  /\ net_up \in BOOLEAN
  /\ opened \in Nat
  /\ sess \in [Peers -> Nat]
  /\ alive \in [Peers -> BOOLEAN]
  /\ chan \in [Peers -> Nat]
  /\ req \in [Peers -> RequestStates]
  /\ events \in Seq(Event) /\ Len(events) <= EventCap
  /\ listening \in BOOLEAN
  /\ lagged \in SUBSET Peers
  /\ lost \in SUBSET Peers

SessionsInit ==
  /\ net_up = TRUE
  /\ opened = 0
  /\ sess = [p \in Peers |-> NoSession]
  /\ alive = [p \in Peers |-> FALSE]
  /\ chan = [p \in Peers |-> 0]
  /\ req = [p \in Peers |-> "none"]
  /\ listening = FALSE
  /\ events = <<>>
  /\ lagged = {}
  /\ lost = {}

\* Sender's half of session s of p is usable: the receiver task exists.
Live(p, s) == s # NoSession /\ alive[p] /\ sess[p] = s

\* The unread events once e has been sent, and the peer of the event that is lost by
\* it: e itself before anyone listens, the oldest one when the buffer is full.
Sent(q, e) == IF listening THEN Push(q, e, EventCap) ELSE q

Dropped(q, e) ==
  IF ~listening THEN {e.peer} ELSE IF Full(q, EventCap) THEN {Head(q).peer} ELSE {}

\* Of the peers of D an event is lost; those with none left to read have lost the newest.
Lose(D, unread) ==
  /\ lagged' = lagged \cup D
  /\ lost' = {p \in lost \cup D : \A i \in DOMAIN unread : unread[i].peer # p}

Notify(e) ==
  /\ events' = Sent(events, e)
  /\ Lose(Dropped(events, e), events')

Established(p, s) == [kind |-> "established", peer |-> p, session |-> s]
Closed(p, s) == [kind |-> "closed", peer |-> p, session |-> s]
Removed(p) == [kind |-> "removed", peer |-> p, session |-> NoSession]

\* A handshake completed: ActivePeerSession is notified with the session's sender.
SessionOpens(p) ==
  /\ net_up
  /\ sess[p] = NoSession
  /\ opened < MaxSessions
  /\ opened' = opened + 1
  /\ sess' = [sess EXCEPT ![p] = opened + 1]
  /\ alive' = [alive EXCEPT ![p] = TRUE]
  /\ Notify(Established(p, opened + 1))
  /\ UNCHANGED <<net_up, chan, req, listening>>

\* The session's task ends: the channel closes with what it holds, and a request
\* that was not answered gets an error or loses its sender.
SessionDies(p) ==
  /\ alive[p]
  /\ alive' = [alive EXCEPT ![p] = FALSE]
  /\ chan' = [chan EXCEPT ![p] = 0]
  /\ IF req[p] \in Unanswered
       THEN \E a \in {"failed", "dropped"} : req' = [req EXCEPT ![p] = a]
       ELSE req' = req
  /\ UNCHANGED <<net_up, opened, sess, listening, events, lagged, lost>>

\* The network notices the end of the session and reports SessionClosed.
ReportClosed(p) ==
  /\ net_up
  /\ sess[p] # NoSession
  /\ ~alive[p]
  /\ sess' = [sess EXCEPT ![p] = NoSession]
  /\ Notify(Closed(p, sess[p]))
  /\ UNCHANGED <<net_up, opened, alive, chan, req, listening>>

\* As ReportClosed, for a peer that also leaves the peer set: SessionClosed, then
\* PeerRemoved.
ReportRemoved(p) ==
  /\ net_up
  /\ sess[p] # NoSession
  /\ ~alive[p]
  /\ sess' = [sess EXCEPT ![p] = NoSession]
  /\ LET closed == Sent(events, Closed(p, sess[p]))
     IN /\ events' = Sent(closed, Removed(p))
        /\ Lose(Dropped(events, Closed(p, sess[p])) \cup Dropped(closed, Removed(p)), events')
  /\ UNCHANGED <<net_up, opened, alive, chan, req, listening>>

\* The session takes a request from its channel and sends it to the peer.
SessionTakes(p) ==
  /\ alive[p]
  /\ chan[p] > 0
  /\ req[p] = "queued"
  /\ chan' = [chan EXCEPT ![p] = @ - 1]
  /\ req' = [req EXCEPT ![p] = "taken"]
  /\ UNCHANGED <<net_up, opened, sess, alive, listening, events, lagged, lost>>

\* The peer answers, or the session's own request timeout fails the request.
SessionAnswers(p) ==
  /\ alive[p]
  /\ req[p] = "taken"
  /\ \E a \in Answers : req' = [req EXCEPT ![p] = a]
  /\ UNCHANGED <<net_up, opened, sess, alive, chan, listening, events, lagged, lost>>

\* The NetworkManager task ends: no more events.
NetworkStops ==
  /\ net_up
  /\ net_up' = FALSE
  /\ UNCHANGED <<opened, sess, alive, chan, req, listening, events, lagged, lost>>
=============================================================================
