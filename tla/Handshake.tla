----------------------------- MODULE Handshake -----------------------------
(***************************************************************************)
(* BscHandshake of src/network/handshake.rs between two ends of one        *)
(* connection: the eth status exchange of reth (external), then, for a     *)
(* version above eth/66, the exchange of UpgradeStatus messages, both      *)
(* under a single timeout.  An end is a v3-node or a geth (external),      *)
(* which speaks the same protocol with frames and a schedule of its own.   *)
(*                                                                         *)
(* v3-node hands its upgrade message to the sink with start_send and does  *)
(* not flush it: it leaves at some later moment, perhaps only once the     *)
(* handshake is over.                                                      *)
(***************************************************************************)
EXTENDS UpgradeCodec, ForkSchedule

CONSTANTS
  Ends,       \* the two ends
  Nodes,      \* those that run v3-node; the others run geth
  Versions,   \* eth versions the capabilities may have settled on
  LaterFork,  \* a time fork that geth may know of and the list does not
  Heads       \* where the chain of a geth may be

\* The later fork comes after the forks of the list, and a chain that has come to it
\* has come through those by block number.
ASSUME HandshakeAssumption ==
  /\ IsFiniteSet(Ends) /\ Cardinality(Ends) = 2
  /\ Nodes \subseteq Ends
  /\ LaterFork \in Nat /\ \A f \in ToSet(bsc_mainnet.time) : f < LaterFork
  /\ \A h \in Heads :
       /\ h.number \in Nat /\ h.timestamp \in Nat
       /\ h.timestamp >= LaterFork => \A f \in ToSet(bsc_mainnet.block) : f <= h.number

VARIABLES
  version,   \* the negotiated eth version
  schedule,  \* schedule[e]: the forks e knows
  at,        \* at[e]: the head e announces and filters by
  phase,     \* phase[e]: what e does next
  result,    \* result[e]: what its handshake returned
  sink,      \* sink[e]: messages e has handed over but not flushed
  wire,      \* wire[e]: messages on their way to e
  broken,    \* the network cut the connection
  open       \* the connection is up

settings == <<version, schedule, at>>
vars == <<settings, phase, result, sink, wire, broken, open>>

Other(e) == CHOOSE o \in Ends : o # e

Frames == {Encode(FALSE), <<UPGRADE_STATUS_MESSAGE_ID, 194>> \o Extension(FALSE),
                          <<UPGRADE_STATUS_MESSAGE_ID, 194>> \o Extension(TRUE)}

\* Messages are the statuses, by their fork id, and frames of bytes.
Status(e) == [kind |-> "status", id |-> fork_id(schedule[e], at[e])]
Upgrade(frame) == [kind |-> "upgrade", frame |-> frame]

\* The results leave out "panicked": no message of either program makes decode panic.
TypeOK ==
  /\ version \in Versions
  /\ phase \in [Ends -> {"greet", "status", "upgrade", "reply", "done"}]
  /\ result \in [Ends -> {"none", "ok", "refused", "no_response", "timeout"}]
  /\ \A e \in Ends : Len(sink[e]) <= 1 /\ Len(wire[e]) <= 2
  /\ \A e \in Ends : \A i \in DOMAIN wire[e] :
       wire[e][i].kind = "upgrade" => wire[e][i].frame \in Frames
  /\ broken \in BOOLEAN /\ open \in BOOLEAN
  /\ \A e \in Ends : phase[e] = "done" <=> result[e] # "none"

Known(e) ==
  IF e \in Nodes THEN {bsc_mainnet}
  ELSE {bsc_mainnet, [bsc_mainnet EXCEPT !.time = Append(@, LaterFork)]}

Init ==
  /\ version \in Versions
  /\ schedule \in {s \in [Ends -> UNION {Known(e) : e \in Ends}] : \A e \in Ends : s[e] \in Known(e)}
  /\ at \in {h \in [Ends -> Heads \cup {head}] : \A e \in Nodes : h[e] = head}
  /\ phase = [e \in Ends |-> "greet"]
  /\ result = [e \in Ends |-> "none"]
  /\ sink = [e \in Ends |-> <<>>]
  /\ wire = [e \in Ends |-> <<>>]
  /\ broken = FALSE
  /\ open = TRUE

-----------------------------------------------------------------------------
(* How a phase ends *)

Goto(e, p) ==
  /\ phase' = [phase EXCEPT ![e] = p]
  /\ UNCHANGED result

\* Mutant: an error is noted but the handshake goes on.
KeepsGoing(e, r) ==
  /\ phase' = phase
  /\ result' = [result EXCEPT ![e] = r]

Finish(e, r) ==
  /\ phase' = [phase EXCEPT ![e] = "done"]
  /\ result' = [result EXCEPT ![e] = r]

\* The session is established on this end; the connection stays.
Succeed(e) == Finish(e, "ok") /\ UNCHANGED open

\* disconnect(..), or the connection is dropped with the error or by the panic.
Fail(e, r) == Finish(e, r) /\ open' = FALSE

\* A message for a connection that is down is lost; the next read notices.
Deliver(e, m) == wire' = IF open THEN [wire EXCEPT ![Other(e)] = Append(@, m)] ELSE wire

\* Mutant: only a version above eth/67 exchanges the upgrade status.
UpgradesFromEth68(e) ==
  IF version > 67 THEN Goto(e, "upgrade") /\ UNCHANGED open ELSE Succeed(e)

\* upgrade_status is entered: without the exchange for an old version.
AfterStatus(e) ==
  IF version > 66 THEN Goto(e, "upgrade") /\ UNCHANGED open ELSE Succeed(e)

-----------------------------------------------------------------------------
(* EthereumEthHandshake::eth_handshake, and the same in geth *)

SendStatus(e) ==
  /\ phase[e] = "greet"
  /\ Goto(e, "status")
  /\ Deliver(e, Status(e))
  /\ UNCHANGED <<settings, sink, broken, open>>

\* Mutant: any status will do, whatever its fork id.
WelcomesAny(e, m) == m.kind = "status"

Welcome(e, m) == m.kind = "status" /\ Accepts(schedule[e], at[e], m.id)

RecvStatus(e) ==
  /\ phase[e] = "status"
  /\ wire[e] # <<>>
  /\ IF Welcome(e, Head(wire[e])) THEN AfterStatus(e) ELSE Fail(e, "refused")
  /\ wire' = [wire EXCEPT ![e] = Tail(@)]
  /\ UNCHANGED <<settings, sink, broken>>

-----------------------------------------------------------------------------
(* upgrade_status *)

\* start_send_unpin puts the message in the sink of the stream.
SendUpgrade(e) ==
  /\ e \in Nodes
  /\ phase[e] = "upgrade"
  /\ Goto(e, "reply")
  /\ sink' = [sink EXCEPT ![e] = Append(@, Upgrade(Encode(FALSE)))]
  /\ UNCHANGED <<settings, wire, broken, open>>

\* The stream flushes when it chooses to while the handshake runs, or the session does.
Flush(e) ==
  /\ sink[e] # <<>>
  /\ Deliver(e, Head(sink[e]))
  /\ sink' = [sink EXCEPT ![e] = Tail(@)]
  /\ UNCHANGED <<settings, phase, result, broken, open>>

\* geth frames the extension as the only element of a list, and flushes.
GethSendsUpgrade(e) ==
  /\ e \notin Nodes
  /\ phase[e] = "upgrade"
  /\ Goto(e, "reply")
  /\ \E disable \in BOOLEAN :
       Deliver(e, Upgrade(<<UPGRADE_STATUS_MESSAGE_ID, 194>> \o Extension(disable)))
  /\ UNCHANGED <<settings, sink, broken, open>>

\* What the end makes of a message.  A status begins with another id.  geth takes any
\* message with the right id: it reads a missing extension as the default one.
Verdict(e, m) ==
  CASE m.kind = "status" -> "refused"
    [] m.kind = "upgrade" /\ e \in Nodes ->
         [ok |-> "ok", error |-> "refused", panic |-> "panicked"][Decode(m.frame).kind]
    [] m.kind = "upgrade" /\ e \notin Nodes ->
         IF Head(m.frame) = UPGRADE_STATUS_MESSAGE_ID THEN "ok" ELSE "refused"

RecvUpgrade(e) ==
  /\ phase[e] = "reply"
  /\ wire[e] # <<>>
  /\ LET verdict == Verdict(e, Head(wire[e]))
     IN IF verdict = "ok" THEN Succeed(e) ELSE Fail(e, verdict)
  /\ wire' = [wire EXCEPT ![e] = Tail(@)]
  /\ UNCHANGED <<settings, sink, broken>>

\* Mutant: the end of the stream is an error of the eth handshake alone.
IgnoresEndOfStream(e) ==
  /\ phase[e] = "status"
  /\ wire[e] = <<>>
  /\ ~open
  /\ Fail(e, "no_response")
  /\ UNCHANGED <<settings, sink, wire, broken>>

\* unauth.next() ends, or fails, once the connection is down and drained.
RecvNothing(e) ==
  /\ phase[e] \in {"status", "reply"}
  /\ wire[e] = <<>>
  /\ ~open
  /\ Fail(e, "no_response")
  /\ UNCHANGED <<settings, sink, wire, broken>>

-----------------------------------------------------------------------------
(* handshake: the timeout around both phases, and the network *)

Timeout(e) ==
  /\ phase[e] # "done"
  /\ Fail(e, "timeout")
  /\ UNCHANGED <<settings, sink, wire, broken>>

Cut ==
  /\ open
  /\ open' = FALSE
  /\ broken' = TRUE
  /\ UNCHANGED <<settings, phase, result, sink, wire>>

Next ==
  \/ \E e \in Ends :
       \/ SendStatus(e)
       \/ RecvStatus(e)
       \/ SendUpgrade(e)
       \/ Flush(e)
       \/ GethSendsUpgrade(e)
       \/ RecvUpgrade(e)
       \/ RecvNothing(e)
       \/ Timeout(e)
  \/ Cut

Spec == Init /\ [][Next]_vars

\* Weak fairness of SendStatus and RecvStatus.  Their guards stand in for ENABLED, for
\* which TLC would have to compute fork ids without sharing a partial result.
StatusFairness(e) ==
  \/ []<>~(phase[e] = "greet" \/ (phase[e] = "status" /\ wire[e] # <<>>))
  \/ []<><<SendStatus(e) \/ RecvStatus(e)>>_vars

\* A handshake that can go on does, and an established session flushes its stream.
\* Nothing makes the stream flush before, no timer has to fire and no network has to
\* cut the connection.
Fairness ==
  \A e \in Ends :
    /\ StatusFairness(e)
    /\ WF_vars(SendUpgrade(e) \/ GethSendsUpgrade(e) \/ RecvUpgrade(e) \/ RecvNothing(e))
    /\ WF_vars(result[e] = "ok" /\ Flush(e))

FairSpec == Spec /\ Fairness

-----------------------------------------------------------------------------
(* Correctness *)

\* A node is on a fork the other end has never heard of.
Foreign(e) == \E f \in ToSet(schedule[e].time) \ ToSet(schedule[Other(e)].time) : at[e].timestamp >= f

\* An end that holds the connection for established knows that the other end has
\* accepted its status: the upgrade message of the other end is the proof, and comes
\* only after both statuses were accepted, whatever is flushed when and whoever runs
\* out of time.  Only up to eth/66 may an end be through while the other one refuses it.
EstablishedIsMutual ==
  \A e \in Ends : result[e] = "ok" /\ version > 66 =>
    /\ phase[Other(e)] \in {"reply", "done"}
    /\ Welcome(e, Status(Other(e)))
    /\ Welcome(Other(e), Status(e))

\* So no connection is established across a fork that one end is on and the other does
\* not know: the fork ids and the filters tell the two chains apart in any position.
NoForeignerEstablished ==
  \A e \in Ends : result[e] = "ok" /\ version > 66 => ~Foreign(e) /\ ~Foreign(Other(e))

\* An end refuses the other one for its status alone: between a v3-node and a geth the
\* messages come in order, each is understood by the end that reads it, however late it
\* was flushed, and a connection that nobody cut stays up until both ends are through.
RefusesOnlyByStatus ==
  (\A e \in Ends : Welcome(e, Status(Other(e))) /\ result[e] # "timeout") /\ ~broken =>
    \A e \in Ends : result[e] \in {"none", "ok"}

\* A handshake with a geth on the chain's forks, anywhere along the chain and however
\* late the upgrade message is flushed, is refused by neither end: it fails only when
\* the connection is cut or one of the two runs out of time.  In particular the
\* order of bsc_mainnet, its fixed head and both framings of the upgrade message
\* agree with what the peer computes.
RefusesOnlyForeigners ==
  (\A e \in Ends : ~Foreign(e) /\ result[e] # "timeout") /\ ~broken =>
    \A e \in Ends : result[e] \in {"none", "ok"}

\* upgrade.rs:1 calls the message "required during handshake with other BSC clients";
\* a v3-node is one.  Two of them refuse each other: decode skips a byte that encode
\* does not write.
AgreesWithItself == RefusesOnlyForeigners

\* A v3-node and a geth never wait for each other until a timer fires: the upgrade
\* message that a v3-node has not flushed keeps the geth waiting, and leaves because the
\* geth sends its own unasked, which lets the v3-node through to the session; and who
\* is refused or cut off while it waits is told so by the end of its stream.
NobodyWaitsForever == \A e \in Ends : <>(phase[e] = "done")
=============================================================================
