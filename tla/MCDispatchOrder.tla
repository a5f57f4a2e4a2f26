-------------------------- MODULE MCDispatchOrder --------------------------
(***************************************************************************)
(* DispatchOrder for TLC.  Only untargeted calls matter, while the manager *)
(* runs; what the feed, the callers and the histories of lost events hold  *)
(* influences nothing and is left out of the view.                         *)
(***************************************************************************)
EXTENDS DispatchOrder

Running ==
  /\ net_up /\ (listening => handle_up) /\ pc # "stopped"
  /\ \A c \in Callers : status[c] # "idle" => call[c].op = "any"

View == <<net_up, opened, sess, alive, chan, req, listening, events, peers, order, rr_index, cmd_rx, fetchVars, handle_up, status, call, history>>
=============================================================================
