----------------------------- MODULE Broadcast -----------------------------
(***************************************************************************)
(* The bounded broadcast channel of tokio, seen by one receiver.  It is    *)
(* what carries reth's network events to the PeerManager (EventStream) and *)
(* the PeerManager's ManagerEvents to the Node.  The sender never waits: a *)
(* value sent while the receiver is a whole buffer behind takes the place  *)
(* of the oldest unread one, and the receiver is told that it lagged.      *)
(***************************************************************************)
EXTENDS Naturals, Sequences

\* Mutant: the channel keeps everything.
PushUnbounded(q, v, cap) == Append(q, v)

\* The receiver's unread values once v has been sent.
Push(q, v, cap) ==
  IF Len(q) < cap THEN Append(q, v) ELSE Append(Tail(q), v)

\* Sending now would overwrite a value the receiver has not read.
Full(q, cap) == Len(q) >= cap
=============================================================================
