--------------------------- MODULE PeerDirectory ---------------------------
(***************************************************************************)
(* What the PeerManager promises to the rest of the program: a directory   *)
(* of peers whose changes are announced on a feed, each exactly once and   *)
(* in order, and that answers every call at most once, at one moment       *)
(* between the call and its return, with what was true of the directory at *)
(* that moment.  Nothing is said of sessions, of the command channel or of *)
(* how a peer is chosen; PeerManager implements this module.               *)
(***************************************************************************)
EXTENDS Broadcast, FiniteSets

CONSTANTS Peers, Callers, FeedCap, NoPeer

VARIABLES
  members,  \* the peers in the directory
  feed,     \* announced changes that the subscriber has not read
  up,       \* the directory is served
  status,   \* status[c]: "idle", "pending" or "done"
  call,     \* call[c]: what c asked last
  outcome   \* outcome[c]: what it was answered

dirVars == <<members, feed, up, status, call, outcome>>

Call == [op : {"list", "any"}, peer : {NoPeer}] \cup [op : {"from"}, peer : Peers]
Result(kind, p) == [kind |-> kind, peer |-> p, peers |-> {}]
NoOutcome == Result("none", NoPeer)

Init ==
  /\ members = {}
  /\ feed = <<>>
  /\ up = TRUE
  /\ status = [c \in Callers |-> "idle"]
  /\ call = [c \in Callers |-> [op |-> "list", peer |-> NoPeer]]
  /\ outcome = [c \in Callers |-> NoOutcome]

Announce(kind, p) == feed' = Push(feed, [kind |-> kind, peer |-> p], FeedCap)

\* A member that joins again has a new session: it is announced again.
Join(p) ==
  /\ up
  /\ members' = members \cup {p}
  /\ Announce("connected", p)
  /\ UNCHANGED <<up, status, call, outcome>>

Leave(p) ==
  /\ up
  /\ p \in members
  /\ members' = members \ {p}
  /\ Announce("disconnected", p)
  /\ UNCHANGED <<up, status, call, outcome>>

\* The subscriber reads one announcement, or resubscribes and skips them all.
Consume ==
  /\ feed # <<>>
  /\ feed' \in {Tail(feed), <<>>}
  /\ UNCHANGED <<members, up, status, call, outcome>>

Begin(c, k) ==
  /\ status[c] # "pending"
  /\ status' = [status EXCEPT ![c] = "pending"]
  /\ call' = [call EXCEPT ![c] = k]
  /\ outcome' = [outcome EXCEPT ![c] = NoOutcome]
  /\ UNCHANGED <<members, feed, up>>

\* The snapshot of the directory, whole.
Listed == {[kind |-> "list", peer |-> NoPeer, peers |-> members]}

\* A member that was asked: it answered, or failed and stays a member.
FromMember(p) == IF p \in members THEN {Result(k, p) : k \in {"ok", "failed", "dropped"}} ELSE {}

\* No member at all; the error names no peer, whoever was asked for.
Empty == IF members = {} THEN {Result("disconnected", NoPeer)} ELSE {}

\* A targeted call is answered by its target or not at all.
Targeted(p) == FromMember(p) \cup Empty \cup {Result("disconnected", p)}

\* Any member may answer.  "disconnected" is said of a peer that is out by now.
Anyone ==
  Empty \cup (UNION {FromMember(p) : p \in Peers})
        \cup {Result("disconnected", p) : p \in Peers \ members}

Answer(k) ==
  CASE k.op = "list" -> Listed
    [] k.op = "from" -> Targeted(k.peer)
    [] k.op = "any"  -> Anyone

Halted(k) ==
  IF k.op = "from" THEN {Result("disconnected", k.peer), Result("dropped", k.peer)}
                   ELSE {Result("gone", NoPeer)}

Finish(c) ==
  /\ status[c] = "pending"
  /\ \E r \in IF up THEN Answer(call[c]) ELSE Halted(call[c]) :
       outcome' = [outcome EXCEPT ![c] = r]
  /\ status' = [status EXCEPT ![c] = "done"]
  /\ UNCHANGED <<members, feed, up, call>>

Halt ==
  /\ up
  /\ up' = FALSE
  /\ UNCHANGED <<members, feed, status, call, outcome>>

Next ==
  \/ \E p \in Peers : Join(p) \/ Leave(p)
  \/ Consume
  \/ \E c \in Callers : Finish(c) \/ \E k \in Call : Begin(c, k)
  \/ Halt

Spec == Init /\ [][Next]_dirVars
=============================================================================
