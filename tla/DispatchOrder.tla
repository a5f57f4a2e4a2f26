--------------------------- MODULE DispatchOrder ---------------------------
(***************************************************************************)
(* Which peers an untargeted fetch_receipts asks, and in which order.      *)
(* The doc comment of the handle (manager.rs:118) calls it "round-robin    *)
(* with fallback".  Four history variables watch the PeerManager; they     *)
(* never constrain it.  The turns are those of any two peers, Server and   *)
(* Debtor.                                                                 *)
(***************************************************************************)
EXTENDS PeerManager

CONSTANTS Server, Debtor

ASSUME WatchAssumption == {Server, Debtor} \subseteq Peers /\ Server # Debtor

VARIABLES
  snapshot, \* the peers connected when the current fetch began
  visited,  \* the peers it has asked, or found dead, so far
  owed,     \* Debtor was connected ever since Server last served, and not visited
  changed   \* how the map has changed since Server last served

history == <<snapshot, visited, owed, changed>>
dispatchVars == <<vars, history>>

DispatchInit ==
  /\ Init
  /\ snapshot = {}
  /\ visited = {}
  /\ owed = FALSE
  /\ changed = "no"

Beginning == pc = "select" /\ pc' = "asking"
Visiting(p) == pc = "asking" /\ pc' \in {"asking", "waiting"} /\ p = Candidate(attempt)
Serving(p) == pc = "waiting" /\ pc' = "evicting" /\ p = Asked

WatchFetch ==
  \/ /\ Beginning
     /\ snapshot' = Connected
     /\ visited' = {}
  \/ /\ pc' = "select"
     /\ snapshot' = {}
     /\ visited' = {}
  \/ /\ ~Beginning /\ pc' # "select"
     /\ snapshot' = snapshot
     /\ visited' = visited \cup {p \in Peers : Visiting(p)}

WatchTurns ==
  \/ /\ Serving(Server)
     /\ owed' = (Debtor \in Connected)
     /\ changed' = "no"
  \/ /\ ~Serving(Server)
     /\ owed' = (owed /\ ~Visiting(Debtor) /\ {Server, Debtor} \subseteq Connected')
     /\ changed' = IF Connected' \ Connected # {} THEN "arrivals"
                   ELSE IF Connected' # Connected /\ changed = "no" THEN "departures"
                   ELSE changed

DispatchNext == Next /\ WatchFetch /\ WatchTurns

DispatchSpec == DispatchInit /\ [][DispatchNext]_dispatchVars

-----------------------------------------------------------------------------

\* Fallback: the fetch gives up only when every peer that was connected when it
\* began has been asked or found dead, whatever happened to their sessions since.
FallbackExhaustive ==
  pc = "evicting" /\ last_err.kind # "ok" => snapshot \subseteq visited

\* Round-robin: between two services by one peer, any other that was connected all
\* that time has been visited.  The comment of fetch_receipts says so (manager.rs:118).
\* Arrivals are excused, they may reorder the map; a departure should not make one
\* peer serve twice while another waits.  In the code it does: rr_index counts
\* positions of the map as it was, and is taken modulo the size it has later.
RoundRobin == [][Serving(Server) /\ changed # "arrivals" => ~owed]_dispatchVars

\* It is so as long as no peer joins or leaves the map between the two services.
RoundRobinWhileStable == [][Serving(Server) /\ changed = "no" => ~owed]_dispatchVars
=============================================================================
