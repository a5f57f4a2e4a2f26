-------------------------- MODULE HandshakeProofs --------------------------
(***************************************************************************)
(* Theorems about the handshake, for any two ends, any versions, any       *)
(* heads, any later fork and whatever forks each end knows.  First what    *)
(* holds for any fork ids and any filter, which are not expanded; then     *)
(* what those of bsc_mainnet make of it.                                   *)
(***************************************************************************)
EXTENDS Handshake, DataProofs

-----------------------------------------------------------------------------
(* The two ends *)

\* There are two ends, each the other one of the other.
LEMMA TwoEnds ==
  ASSUME NEW e \in Ends
  PROVE  /\ Other(e) \in Ends /\ Other(e) # e
         /\ Other(Other(e)) = e
         /\ \A x \in Ends : x = e \/ x = Other(e)
<1>1. IsFiniteSet(Ends \ {e}) /\ Cardinality(Ends \ {e}) = 1
  BY HandshakeAssumption, FS_RemoveElement
<1>2. PICK o : Ends \ {e} = {o}
  BY <1>1, FS_Singleton
<1>3. o \in Ends /\ o # e /\ \A x \in Ends : x = e \/ x = o
  BY <1>2
<1>4. Other(e) = o
  BY <1>3 DEF Other
<1>5. Other(o) = e
  BY <1>3 DEF Other
<1> QED
  BY <1>3, <1>4, <1>5

\* What an end announces and what it welcomes is settled before the handshake.
LEMMA Settled ==
  ASSUME UNCHANGED settings
  PROVE  /\ \A x : Status(x)' = Status(x)
         /\ \A x, m : Welcome(x, m)' = Welcome(x, m)
         /\ version' = version
  BY DEF settings, Status, Welcome

-----------------------------------------------------------------------------
(* The inductive invariant *)

\* The upgrade messages that x may send.
Upgrades(x) ==
  {Upgrade(frame) : frame \in
     IF x \in Nodes THEN {Encode(FALSE)}
     ELSE {<<UPGRADE_STATUS_MESSAGE_ID, 194>> \o Extension(disable) : disable \in BOOLEAN}}

\* x has accepted the status of the other end and sent, or handed over, its own upgrade message.
Committed(x) == phase[x] \in {"reply", "done"} /\ Welcome(x, Status(Other(x)))

\* What may be on its way to x: the status of the other end, and its upgrade message
\* once it has accepted the status of x.
Sendable(x) == {Status(Other(x))} \cup {m \in Upgrades(Other(x)) : Committed(Other(x))}

\* How many messages an end has sent or handed over at most.
Sent(p) == CASE p = "greet" -> 0
             [] p \in {"status", "upgrade"} -> 1
             [] p \in {"reply", "done"} -> 2

Types ==
  /\ version \in Versions
  /\ phase \in [Ends -> {"greet", "status", "upgrade", "reply", "done"}]
  /\ result \in [Ends -> {"none", "ok", "refused", "no_response", "timeout"}]
  /\ sink = [e \in Ends |-> sink[e]] /\ wire = [e \in Ends |-> wire[e]]
  /\ broken \in BOOLEAN /\ open \in BOOLEAN
  /\ \A e \in Ends : phase[e] = "done" <=> result[e] # "none"

Messages(x) ==
  /\ wire[x] \in Seq(Sendable(x))
  /\ sink[x] \in Seq(Upgrades(x))
  /\ sink[x] # <<>> => Committed(x)

\* Whoever is in upgrade_status has accepted the status of the other end.
Accepting(x) == phase[x] \in {"upgrade", "reply"} => Welcome(x, Status(Other(x)))

\* An end sends each message once.
Counted(x) ==
  /\ Len(sink[x]) <= 1
  /\ Len(wire[Other(x)]) + Len(sink[x]) <= Sent(phase[x])

Mutual(x) ==
  result[x] = "ok" /\ version > 66 => Welcome(x, Status(Other(x))) /\ Committed(Other(x))

Inv ==
  /\ Types
  /\ \A x \in Ends : Messages(x) /\ Accepting(x) /\ Counted(x) /\ Mutual(x)

\* The status of the other end is the first message to x, and read before any other.
StatusFirst(x) ==
  /\ phase[x] \in {"upgrade", "reply"} => phase[Other(x)] # "greet"
  /\ \A i \in DOMAIN wire[x] :
       wire[x][i].kind = "status" => i = 1 /\ phase[x] \in {"greet", "status", "done"}
  /\ phase[x] \in {"greet", "status"} /\ wire[x] # <<>> => wire[x][1].kind = "status"
  /\ phase[x] \in {"greet", "status"} /\ phase[Other(x)] # "greet" /\ open => wire[x] # <<>>

\* What x made of the messages it read.
Judged(x) ==
  /\ result[x] = "ok" /\ version > 66 => \E m \in Upgrades(Other(x)) : Verdict(x, m) = "ok"
  /\ result[x] = "refused" =>
       \/ ~Welcome(x, Status(Other(x)))
       \/ \E m \in Upgrades(Other(x)) : Verdict(x, m) # "ok"

\* Nobody waits in vain but for a cut, for a refusal or for the timer of the other end.
Blame ==
  ~open \/ (\E x \in Ends : result[x] = "no_response") =>
    broken \/ \E x \in Ends : result[x] \in {"refused", "timeout"}

Order == (\A x \in Ends : StatusFirst(x) /\ Judged(x)) /\ Blame

-----------------------------------------------------------------------------
(* The frames and how they are read *)

\* The first byte of two lists put together, and what is left behind the second byte.
LEMMA Framed ==
  ASSUME NEW s \in Seq(Nat), NEW t \in Seq(Nat), s # <<>>, t # <<>>
  PROVE  /\ s \o t # <<>> /\ Head(s \o t) = s[1] /\ \A b : s \o t # <<b>>
         /\ SubSeq(s \o t, 3, Len(s \o t)) \in Seq(Nat)
         /\ Len(s) = 2 => SubSeq(s \o t, 3, Len(s \o t)) = t
         /\ Len(s) = 1 => Len(SubSeq(s \o t, 3, Len(s \o t))) = Len(t) - 1
<1> DEFINE f == s \o t
           r == SubSeq(f, 3, Len(f))
<1>1. /\ Len(s) \in Nat \ {0} /\ Len(t) \in Nat \ {0}
  BY EmptySeq
<1>2. /\ f \in Seq(Nat) /\ Len(f) = Len(s) + Len(t)
      /\ \A i \in 1..Len(f) : f[i] = IF i <= Len(s) THEN s[i] ELSE t[i - Len(s)]
  BY ConcatProperties
<1> HIDE DEF f
<1>3. f # <<>> /\ f[1] = s[1] /\ \A b : f # <<b>>
  <2>1. Len(f) >= 2
    BY <1>1, <1>2
  <2>2. ASSUME NEW b, f = <<b>> PROVE FALSE
    <3>1. Len(f) = 1
      BY <2>2
    <3> QED
      BY <2>1, <3>1
  <2> QED
    BY <1>1, <1>2, <2>2
<1>4. Head(f) = s[1]
  BY <1>2, <1>3
<1>5. /\ r \in Seq(Nat)
      /\ Len(r) = IF 3 <= Len(f) THEN Len(f) - 2 ELSE 0
      /\ \A i \in 1..(Len(f) - 2) : r[i] = f[i + 2]
  <2>1. Len(f) \in Int /\ \A i \in 3..Len(f) : f[i] \in Nat
    BY <1>1, <1>2, ElementOfSeq
  <2>2. /\ r \in Seq(Nat)
        /\ Len(r) = IF 3 <= Len(f) THEN Len(f) - 3 + 1 ELSE 0
        /\ \A i \in 1..(Len(f) - 3 + 1) : r[i] = f[3 + i - 1]
    BY <2>1, SubSeqProperties
  <2> QED
    BY <2>1, <2>2
<1> HIDE DEF r
<1>6. Len(s) = 2 => r = t
  <2> SUFFICES ASSUME Len(s) = 2 PROVE r = t
    OBVIOUS
  <2>1. Len(r) = Len(t)
    BY <1>1, <1>2, <1>5
  <2>2. ASSUME NEW i \in 1..Len(r)
        PROVE  r[i] = t[i]
    <3>1. i \in Nat /\ i >= 1 /\ i <= Len(t) /\ Len(f) = Len(t) + 2
      BY <1>1, <1>2, <2>1
    <3>2. i \in 1..(Len(f) - 2) /\ i + 2 \in 1..Len(f) /\ ~(i + 2 <= Len(s)) /\ i + 2 - Len(s) = i
      BY <1>1, <3>1
    <3>3. r[i] = f[i + 2]
      BY <1>5, <3>2
    <3>4. f[i + 2] = t[i + 2 - Len(s)]
      <4> DEFINE j == i + 2
      <4>1. j \in 1..Len(f) /\ ~(j <= Len(s))
        BY <3>2
      <4> HIDE DEF j
      <4>2. f[j] = t[j - Len(s)]
        BY <1>2, <4>1
      <4> QED
        BY <4>2 DEF j
    <3> QED
      BY <3>2, <3>3, <3>4
  <2> QED
    BY <1>5, <2>1, <2>2, SeqEqual
<1>7. Len(s) = 1 => Len(r) = Len(t) - 1
  <2> SUFFICES ASSUME Len(s) = 1 PROVE Len(r) = Len(t) - 1
    OBVIOUS
  <2>1. Len(f) = Len(t) + 1 /\ Len(t) \in Nat /\ Len(t) >= 1
    BY <1>1, <1>2
  <2>2. Len(r) = IF 3 <= Len(f) THEN Len(f) - 2 ELSE 0
    BY <1>5
  <2> QED
    BY <2>1, <2>2
<1> QED
  BY <1>3, <1>4, <1>5, <1>6, <1>7 DEF f, r

\* decode reads both messages of geth.
LEMMA GethFrameDecodes ==
  ASSUME NEW disable \in BOOLEAN
  PROVE  /\ Head(<<UPGRADE_STATUS_MESSAGE_ID, 194>> \o Extension(disable)) = UPGRADE_STATUS_MESSAGE_ID
         /\ Decode(<<UPGRADE_STATUS_MESSAGE_ID, 194>> \o Extension(disable)).kind = "ok"
<1> DEFINE s == <<UPGRADE_STATUS_MESSAGE_ID, 194>>
           t == Extension(disable)
<1>1. s \in Seq(Nat) /\ s # <<>> /\ Len(s) = 2 /\ s[1] = UPGRADE_STATUS_MESSAGE_ID
  BY DEF UPGRADE_STATUS_MESSAGE_ID
<1>2. t \in Seq(Nat) /\ t # <<>>
  BY DEF Extension
<1> HIDE DEF s, t
<1>3. /\ s \o t # <<>> /\ Head(s \o t) = UPGRADE_STATUS_MESSAGE_ID
      /\ SubSeq(s \o t, 3, Len(s \o t)) = t
      /\ s \o t # <<UPGRADE_STATUS_MESSAGE_ID>>
  BY <1>1, <1>2, Framed
<1>4. Decode(s \o t) = DecodeExtension(t)
  BY <1>3 DEF Decode
<1>5. IsPrefix(t, t)
  BY <1>2, LenProperties DEF IsPrefix
<1>6. IsPrefix(Extension(FALSE), t) \/ IsPrefix(Extension(TRUE), t)
  BY <1>5 DEF t
<1>7. DecodeExtension(t).kind = "ok"
  BY <1>6 DEF DecodeExtension, Decoded
<1> QED
  BY <1>3, <1>4, <1>7 DEF s, t

\* decode does not read what encode writes: it skips the first byte of the extension.
LEMMA OwnFrameIsMalformed == Decode(Encode(FALSE)).kind = "error"
<1> DEFINE s == <<UPGRADE_STATUS_MESSAGE_ID>>
           t == Extension(FALSE)
           r == SubSeq(s \o t, 3, Len(s \o t))
<1>1. s \in Seq(Nat) /\ s # <<>> /\ Len(s) = 1
  BY DEF UPGRADE_STATUS_MESSAGE_ID
<1>2. t \in Seq(Nat) /\ t # <<>> /\ Len(t) = 2
  BY DEF Extension
<1>3. Len(r) = 1 /\ s \o t # <<UPGRADE_STATUS_MESSAGE_ID>>
  <2> HIDE DEF s, t
  <2> QED
    BY <1>1, <1>2, Framed
<1> HIDE DEF r
<1>4. Len(Extension(FALSE)) = 2 /\ Len(Extension(TRUE)) = 2
  BY DEF Extension
<1>5. ~IsPrefix(Extension(FALSE), r) /\ ~IsPrefix(Extension(TRUE), r)
  <2>1. \A e : Len(e) = 2 => ~IsPrefix(e, r)
    BY <1>3 DEF IsPrefix
  <2> QED
    BY <1>4, <2>1
<1>6. DecodeExtension(r) = Malformed
  BY <1>5 DEF DecodeExtension
<1>7. Decode(s \o t) = DecodeExtension(r) \/ Decode(s \o t) = Malformed
  BY <1>3 DEF Decode, r
<1>8. Decode(s \o t) = Malformed
  BY <1>6, <1>7
<1>9. Encode(FALSE) = s \o t
  BY DEF Encode
<1>10. Malformed.kind = "error"
  BY DEF Malformed
<1> HIDE DEF s, t
<1> QED
  BY <1>8, <1>9, <1>10

\* What either program makes of a frame.
LEMMA VerdictOfFrame ==
  ASSUME NEW x, NEW frame
  PROVE  /\ x \in Nodes /\ Decode(frame).kind = "ok" => Verdict(x, Upgrade(frame)) = "ok"
         /\ x \in Nodes /\ Decode(frame).kind = "error" => Verdict(x, Upgrade(frame)) = "refused"
         /\ x \notin Nodes =>
              Verdict(x, Upgrade(frame)) =
                IF Head(frame) = UPGRADE_STATUS_MESSAGE_ID THEN "ok" ELSE "refused"
<1>1. /\ Upgrade(frame).kind = "upgrade" /\ Upgrade(frame).kind # "status"
      /\ Upgrade(frame).frame = frame
  BY DEF Upgrade
<1>2. CASE x \in Nodes
  <2> DEFINE verdicts == [ok |-> "ok", error |-> "refused", panic |-> "panicked"]
  <2>1. Verdict(x, Upgrade(frame)) = verdicts[Decode(frame).kind]
    BY <1>1, <1>2 DEF Verdict
  <2>2. verdicts["ok"] = "ok" /\ verdicts["error"] = "refused"
    OBVIOUS
  <2> QED
    BY <1>2, <2>1, <2>2
<1>3. CASE x \notin Nodes
  BY <1>1, <1>3 DEF Verdict
<1> QED
  BY <1>2, <1>3

\* Two ends of which one runs geth understand each other's upgrade messages.
LEMMA FramesAgree ==
  ASSUME ~(Ends \subseteq Nodes), NEW x \in Ends, NEW m \in Upgrades(Other(x))
  PROVE  Verdict(x, m) = "ok"
<1>1. ~(x \in Nodes /\ Other(x) \in Nodes)
  BY TwoEnds
<1>2. CASE Other(x) \notin Nodes
  <2>1. PICK disable \in BOOLEAN : m = Upgrade(<<UPGRADE_STATUS_MESSAGE_ID, 194>> \o Extension(disable))
    BY <1>2 DEF Upgrades
  <2> DEFINE frame == <<UPGRADE_STATUS_MESSAGE_ID, 194>> \o Extension(disable)
  <2>2. Head(frame) = UPGRADE_STATUS_MESSAGE_ID /\ Decode(frame).kind = "ok"
    BY GethFrameDecodes
  <2>3. m = Upgrade(frame)
    BY <2>1
  <2> HIDE DEF frame
  <2> QED
    BY <2>2, <2>3, VerdictOfFrame
<1>3. CASE Other(x) \in Nodes
  <2>1. m = Upgrade(Encode(FALSE)) /\ x \notin Nodes
    BY <1>1, <1>3 DEF Upgrades
  <2>2. Head(Encode(FALSE)) = UPGRADE_STATUS_MESSAGE_ID
    BY DEF Encode, Extension
  <2> QED
    BY <2>1, <2>2, VerdictOfFrame
<1> QED
  BY <1>2, <1>3

\* No message an end is sent makes it panic, and only an upgrade message is understood.
LEMMA NoPanic ==
  ASSUME NEW x \in Ends, NEW m \in Sendable(x)
  PROVE  /\ Verdict(x, m) \in {"ok", "refused"}
         /\ Verdict(x, m) = "ok" => m.kind = "upgrade"
<1>1. CASE m = Status(Other(x))
  <2>1. m.kind = "status"
    BY <1>1 DEF Status
  <2>2. Verdict(x, m) = "refused"
    BY <2>1 DEF Verdict
  <2> QED
    BY <2>2
<1>2. CASE m \in Upgrades(Other(x))
  <2>1. PICK frame : m = Upgrade(frame)
    BY <1>2 DEF Upgrades
  <2>2. m.kind = "upgrade"
    BY <2>1 DEF Upgrade
  <2>3. CASE x \notin Nodes
    BY <2>1, <2>2, <2>3, VerdictOfFrame
  <2>4. CASE Other(x) \notin Nodes
    <3>1. ~(Ends \subseteq Nodes)
      BY <2>4, TwoEnds
    <3>2. Verdict(x, m) = "ok"
      BY <1>2, <3>1, FramesAgree
    <3> QED
      BY <2>2, <3>2
  <2>5. CASE x \in Nodes /\ Other(x) \in Nodes
    <3>1. m = Upgrade(Encode(FALSE))
      BY <1>2, <2>5 DEF Upgrades
    <3>2. Verdict(x, m) = "refused"
      BY <2>5, <3>1, OwnFrameIsMalformed, VerdictOfFrame
    <3> QED
      BY <3>2
  <2> QED
    BY <2>3, <2>4, <2>5
<1> QED
  BY <1>1, <1>2 DEF Sendable

-----------------------------------------------------------------------------
(* What every step uses *)

\* Both programs write the frames TypeOK lists.
LEMMA FramesSent ==
  /\ Encode(FALSE) \in Frames
  /\ \A disable \in BOOLEAN : (<<UPGRADE_STATUS_MESSAGE_ID, 194>> \o Extension(disable)) \in Frames
  BY DEF Frames

\* What an end is sent is the status of the other end, or an upgrade message that proves
\* that the other end has accepted its own.
LEMMA MessageKinds ==
  ASSUME NEW x, NEW m \in Sendable(x)
  PROVE  /\ m.kind = "status" => m = Status(Other(x))
         /\ m.kind = "upgrade" => m.frame \in Frames /\ Committed(Other(x))
<1>1. CASE m = Status(Other(x))
  BY <1>1 DEF Status
<1>2. CASE m \in Upgrades(Other(x)) /\ Committed(Other(x))
  <2>1. PICK frame \in Frames : m = Upgrade(frame)
    BY <1>2, FramesSent DEF Upgrades
  <2> QED
    BY <1>2, <2>1 DEF Upgrade
<1> QED
  BY <1>1, <1>2 DEF Sendable

\* The acceptance of a status is never taken back, so what may be sent stays sendable.
LEMMA OnceCommitted ==
  ASSUME UNCHANGED settings,
         \A x \in Ends : phase[x] \in {"reply", "done"} => phase'[x] \in {"reply", "done"}
  PROVE  /\ \A x \in Ends : Committed(x) => Committed(x)'
         /\ \A x \in Ends : Sendable(x) \subseteq Sendable(x)'
         /\ \A x \in Ends : Seq(Sendable(x)) \subseteq Seq(Sendable(x)')
<1>1. \A x \in Ends : Committed(x) => Committed(x)'
  BY Settled DEF Committed
<1>2. ASSUME NEW x \in Ends
      PROVE  Sendable(x) \subseteq Sendable(x)'
  <2>1. Committed(Other(x)) => Committed(Other(x))'
    BY <1>1, TwoEnds
  <2>2. Status(Other(x))' = Status(Other(x))
    BY Settled
  <2> QED
    BY <2>1, <2>2 DEF Sendable
<1> QED
  BY <1>1, <1>2, SeqMonotonic

\* A delivery adds at most one message, to what is on its way to the other end.
LEMMA Delivered ==
  ASSUME Types, NEW e \in Ends, NEW S, wire[Other(e)] \in Seq(S), NEW m \in S, Deliver(e, m)
  PROVE  /\ wire' = [x \in Ends |-> wire'[x]]
         /\ wire'[e] = wire[e]
         /\ wire'[Other(e)] \in Seq(S)
         /\ Len(wire'[Other(e)]) \in {Len(wire[Other(e)]), Len(wire[Other(e)]) + 1}
<1>1. Append(wire[Other(e)], m) \in Seq(S) /\ Len(Append(wire[Other(e)], m)) = Len(wire[Other(e)]) + 1
  BY AppendProperties
<1>2. CASE open
  <2>1. wire' = [wire EXCEPT ![Other(e)] = Append(wire[Other(e)], m)]
    BY <1>2 DEF Deliver
  <2> QED
    BY <1>1, <2>1, TwoEnds DEF Types
<1>3. CASE ~open
  BY <1>3, TwoEnds DEF Deliver, Types
<1> QED
  BY <1>2, <1>3

\* Reading takes the oldest message and leaves a queue of the same kind.
LEMMA Read ==
  ASSUME Types, NEW e \in Ends, NEW S, wire[e] \in Seq(S), wire[e] # <<>>,
         wire' = [wire EXCEPT ![e] = Tail(@)]
  PROVE  /\ wire' = [x \in Ends |-> wire'[x]]
         /\ wire'[Other(e)] = wire[Other(e)]
         /\ wire'[e] \in Seq(S) /\ Head(wire[e]) \in S
         /\ Len(wire'[e]) = Len(wire[e]) - 1
  BY HeadTailProperties, TwoEnds DEF Types

\* The queues between the ends have lengths.
LEMMA Lengths ==
  ASSUME NEW x \in Ends, Messages(x), Messages(Other(x))
  PROVE  Len(sink[x]) \in Nat /\ Len(wire[x]) \in Nat /\ Len(wire[Other(x)]) \in Nat
  BY LenProperties DEF Messages

\* No end ever sends more than its status and its upgrade message.
LEMMA AtMostTwo ==
  ASSUME Inv, NEW x \in Ends
  PROVE  /\ Len(sink[x]) \in Nat /\ Len(wire[Other(x)]) \in Nat /\ Sent(phase[x]) \in Nat
         /\ Len(sink[x]) <= 1
         /\ Len(wire[Other(x)]) + Len(sink[x]) <= 2
<1>1. Len(sink[x]) \in Nat /\ Len(wire[Other(x)]) \in Nat
  BY Lengths, TwoEnds DEF Inv
<1>2. Sent(phase[x]) \in {0, 1, 2}
  BY DEF Inv, Types, Sent
<1>3. Len(sink[x]) <= 1 /\ Len(wire[Other(x)]) + Len(sink[x]) <= Sent(phase[x])
  BY DEF Inv, Counted
<1>4. \A a, b, c \in Nat : a + b <= c /\ c <= 2 => a + b <= 2
  OBVIOUS
<1>5. Sent(phase[x]) \in Nat /\ Sent(phase[x]) <= 2
  BY <1>2
<1> QED
  BY <1>1, <1>3, <1>4, <1>5

\* A message less is not a message more.
LEMMA Fewer ==
  ASSUME NEW a \in Nat, NEW b \in Nat, NEW c \in Nat, NEW d \in Nat, a <= b, b + c <= d
  PROVE  a + c <= d
  OBVIOUS

\* A queue is all there is when the other one is empty.
LEMMA Alone ==
  ASSUME NEW a \in Nat, NEW b \in Nat, NEW n \in Nat, b = 0
  PROVE  a + b <= n <=> a <= n
  OBVIOUS

\* A flush moves a message and adds none.
LEMMA MovesOne ==
  ASSUME NEW a \in Nat, NEW b \in Nat, NEW c \in Nat, NEW d \in Int, NEW s \in Nat,
         c \in {a, a + 1}, d = b - 1, a + b <= s
  PROVE  c + d <= s
  OBVIOUS

-----------------------------------------------------------------------------
(* The invariant in the initial states and in every step *)

\* The invariant holds initially.
LEMMA InvInit == Init => Inv
<1> SUFFICES ASSUME Init PROVE Inv
  OBVIOUS
<1>1. Types
  BY DEF Init, Types
<1>2. ASSUME NEW x \in Ends
      PROVE  Messages(x) /\ Accepting(x) /\ Counted(x) /\ Mutual(x)
  <2>1. Other(x) \in Ends
    BY TwoEnds
  <2>2. /\ phase[x] = "greet" /\ result[x] = "none"
        /\ sink[x] = <<>> /\ wire[x] = <<>> /\ wire[Other(x)] = <<>>
    BY <2>1 DEF Init
  <2>3. Messages(x)
    BY <2>2, EmptySeq DEF Messages
  <2>4. Counted(x)
    BY <2>2 DEF Counted, Sent
  <2> QED
    BY <2>2, <2>3, <2>4 DEF Accepting, Mutual
<1> QED
  BY <1>1, <1>2 DEF Inv

\* A handshake that returns keeps the invariant, if it is only established in good faith.
LEMMA Returns ==
  ASSUME Inv, NEW e \in Ends, phase[e] # "done",
         NEW r \in {"ok", "refused", "no_response", "timeout"}, Finish(e, r),
         UNCHANGED <<settings, sink, broken>>, open' \in BOOLEAN,
         wire' = wire \/ (wire[e] # <<>> /\ wire' = [wire EXCEPT ![e] = Tail(@)]),
         r = "ok" /\ version > 66 => Welcome(e, Status(Other(e))) /\ Committed(Other(e))
  PROVE  Inv'
<1> DEFINE o == Other(e)
<1>1. o \in Ends /\ o # e /\ Other(o) = e /\ \A x \in Ends : x = e \/ x = o
  BY TwoEnds
<1>2. /\ phase'[e] = "done" /\ result'[e] = r
      /\ phase'[o] = phase[o] /\ result'[o] = result[o]
      /\ Types
  BY <1>1 DEF Inv, Finish, Types
<1>3. /\ \A x \in Ends : Committed(x) => Committed(x)'
      /\ \A x \in Ends : Seq(Sendable(x)) \subseteq Seq(Sendable(x)')
  BY <1>1, <1>2, OnceCommitted
<1>4. /\ wire' = [x \in Ends |-> wire'[x]] /\ wire'[o] = wire[o]
      /\ wire'[e] \in Seq(Sendable(e))
      /\ Len(wire'[e]) <= Len(wire[e])
  <2>1. wire[e] \in Seq(Sendable(e)) /\ Len(wire[e]) \in Nat
    BY LenProperties DEF Inv, Messages
  <2> QED
    BY <1>1, <1>2, <2>1, Read DEF Types
<1>5. Types'
  BY <1>2, <1>4, Settled DEF Types, Finish
<1>6. Messages(e)' /\ Messages(o)'
  BY <1>1, <1>3, <1>4 DEF Inv, Messages
<1>7. Accepting(e)' /\ Accepting(o)'
  BY <1>1, <1>2, Settled DEF Inv, Accepting
<1>8. Counted(e)' /\ Counted(o)'
  <2>1. /\ Len(sink[e]) \in Nat /\ Len(sink[o]) \in Nat /\ Len(wire[o]) \in Nat
        /\ Len(wire[e]) \in Nat /\ Len(wire'[e]) \in Nat
    BY <1>1, <1>4, Lengths, LenProperties DEF Inv
  <2>2. Counted(e)'
    <3>1. Len(sink[e]) <= 1 /\ Len(wire[o]) + Len(sink[e]) <= 2
      BY AtMostTwo
    <3>2. Sent(phase'[e]) = 2
      BY <1>2 DEF Sent
    <3>3. sink'[e] = sink[e] /\ wire'[o] = wire[o]
      BY <1>4
    <3> QED
      BY <1>2, <3>1, <3>2, <3>3 DEF Counted
  <2>3. Counted(o)'
    <3>1. /\ Len(sink[o]) <= 1
          /\ Len(wire[e]) + Len(sink[o]) <= Sent(phase[o])
      BY <1>1 DEF Inv, Counted
    <3>2. Sent(phase[o]) \in Nat
      BY <1>1, <1>2 DEF Types, Sent
    <3>3. Len(wire'[e]) + Len(sink[o]) <= Sent(phase[o])
      BY <1>4, <2>1, <3>1, <3>2, Fewer
    <3> QED
      BY <1>1, <1>2, <3>1, <3>3 DEF Counted
  <2> QED
    BY <2>2, <2>3
<1>9. Mutual(e)' /\ Mutual(o)'
  <2>1. Mutual(e)'
    BY <1>1, <1>2, <1>3, Settled DEF Mutual
  <2>2. Mutual(o)'
    BY <1>1, <1>2, <1>3, Settled DEF Inv, Mutual
  <2> QED
    BY <2>1, <2>2
<1> QED
  BY <1>1, <1>5, <1>6, <1>7, <1>8, <1>9 DEF Inv


\* The status goes out first, and alone.
LEMMA GreetingKeeps ==
  ASSUME Inv, NEW e \in Ends, SendStatus(e)
  PROVE  Inv'
<1> DEFINE o == Other(e)
<1>1. o \in Ends /\ o # e /\ Other(o) = e /\ \A x \in Ends : x = e \/ x = o
  BY TwoEnds
<1>2. /\ phase[e] = "greet" /\ phase'[e] = "status" /\ phase'[o] = phase[o]
      /\ result' = result /\ sink' = sink /\ UNCHANGED settings
      /\ Types
  BY <1>1 DEF Inv, SendStatus, Goto, Types
<1>3. /\ \A x \in Ends : Committed(x) => Committed(x)'
      /\ \A x \in Ends : Seq(Sendable(x)) \subseteq Seq(Sendable(x)')
  BY <1>1, <1>2, OnceCommitted
<1>4. /\ wire' = [x \in Ends |-> wire'[x]]
      /\ wire'[e] = wire[e]
      /\ wire'[o] \in Seq(Sendable(o))
      /\ Len(wire'[o]) \in {Len(wire[o]), Len(wire[o]) + 1}
  <2>1. Status(e) \in Sendable(o) /\ wire[o] \in Seq(Sendable(o)) /\ Deliver(e, Status(e))
    BY <1>1 DEF Sendable, Inv, Messages, SendStatus
  <2> QED
    BY <1>2, <2>1, Delivered
<1>5. Types'
  BY <1>2, <1>4, Settled DEF Types, SendStatus, Goto
<1>6. Messages(e)' /\ Messages(o)'
  BY <1>1, <1>2, <1>3, <1>4 DEF Inv, Messages
<1>7. Accepting(e)' /\ Accepting(o)'
  BY <1>1, <1>2, Settled DEF Inv, Accepting
<1>8. Counted(e)' /\ Counted(o)'
  <2>1. Len(sink[e]) \in Nat /\ Len(wire[o]) \in Nat
    BY AtMostTwo
  <2>2. Len(wire[o]) + Len(sink[e]) <= 0 /\ Len(sink[e]) <= 1
    BY <1>2 DEF Inv, Counted, Sent
  <2>3. Len(wire'[o]) + Len(sink[e]) <= 1
    <3>1. \A a, b \in Nat : a + b <= 0 => a = 0 /\ b = 0
      OBVIOUS
    <3>2. Len(wire[o]) = 0 /\ Len(sink[e]) = 0
      BY <2>1, <2>2, <3>1
    <3>3. Len(wire[o]) <= 0
      BY <3>2
    <3>4. Len(wire'[o]) \in Nat /\ Len(wire'[o]) <= 1
      BY <1>4, <2>1, <3>3
    <3> QED
      BY <2>1, <3>2, <3>4, Alone
  <2>4. Counted(e)'
    <3>1. Sent(phase'[e]) = 1
      BY <1>2 DEF Sent
    <3> QED
      BY <1>2, <2>2, <2>3, <3>1 DEF Counted
  <2>5. Counted(o)'
    BY <1>1, <1>2, <1>4 DEF Inv, Counted
  <2> QED
    BY <2>4, <2>5
<1>9. Mutual(e)' /\ Mutual(o)'
  BY <1>1, <1>2, <1>3, Settled DEF Inv, Mutual
<1> QED
  BY <1>1, <1>5, <1>6, <1>7, <1>8, <1>9 DEF Inv

\* A status that is accepted leads to upgrade_status, or up to eth/66 to the end.
LEMMA AcceptingKeeps ==
  ASSUME Inv, NEW e \in Ends, RecvStatus(e)
  PROVE  Inv'
<1> DEFINE o == Other(e)
<1>1. o \in Ends /\ o # e /\ Other(o) = e /\ \A x \in Ends : x = e \/ x = o
  BY TwoEnds
<1>2. /\ phase[e] = "status" /\ wire[e] # <<>> /\ wire' = [wire EXCEPT ![e] = Tail(@)]
      /\ UNCHANGED <<settings, sink, broken>>
      /\ Types
  BY DEF Inv, RecvStatus
<1>3. CASE ~Welcome(e, Head(wire[e]))
  <2>1. Fail(e, "refused")
    BY <1>3 DEF RecvStatus
  <2> QED
    BY <1>2, <2>1, Returns DEF Fail
<1>4. CASE Welcome(e, Head(wire[e])) /\ ~(version > 66)
  <2>1. Succeed(e)
    BY <1>4 DEF RecvStatus, AfterStatus
  <2>2. open' \in BOOLEAN
    BY <1>2, <2>1 DEF Succeed, Types
  <2> QED
    BY <1>2, <1>4, <2>1, <2>2, Returns DEF Succeed
<1>5. CASE Welcome(e, Head(wire[e])) /\ version > 66
  <2>1. /\ phase' = [phase EXCEPT ![e] = "upgrade"] /\ result' = result /\ open' = open
    BY <1>5 DEF RecvStatus, AfterStatus, Goto
  <2>2. phase'[e] = "upgrade" /\ phase'[o] = phase[o] /\ sink' = sink
    BY <1>1, <1>2, <2>1 DEF Types
  <2>3. /\ \A x \in Ends : Committed(x) => Committed(x)'
        /\ \A x \in Ends : Seq(Sendable(x)) \subseteq Seq(Sendable(x)')
    BY <1>1, <1>2, <2>2, OnceCommitted
  <2>4. wire[e] \in Seq(Sendable(e)) /\ Len(wire[e]) \in Nat
    BY LenProperties DEF Inv, Messages
  <2>5. /\ wire' = [x \in Ends |-> wire'[x]] /\ wire'[o] = wire[o]
        /\ wire'[e] \in Seq(Sendable(e)) /\ Head(wire[e]) \in Sendable(e)
        /\ Len(wire'[e]) = Len(wire[e]) - 1
    BY <1>2, <2>4, Read
  <2>6. Welcome(e, Status(o))
    <3>1. Head(wire[e]).kind = "status"
      BY <1>5 DEF Welcome
    <3>2. Head(wire[e]) = Status(o)
      BY <2>5, <3>1, MessageKinds
    <3> QED
      BY <1>5, <3>2
  <2>7. Types'
    BY <1>2, <2>1, <2>5, Settled DEF Types
  <2>8. Messages(e)' /\ Messages(o)'
    BY <1>1, <1>2, <2>2, <2>3, <2>5 DEF Inv, Messages
  <2>9. Accepting(e)' /\ Accepting(o)'
    BY <1>1, <1>2, <2>2, <2>6, Settled DEF Inv, Accepting
  <2>10. Counted(e)' /\ Counted(o)'
    <3>1. Counted(e)'
      <4>1. Sent(phase[e]) = 1 /\ Sent(phase'[e]) = 1
        BY <1>2, <2>2 DEF Sent
      <4> QED
        BY <1>2, <2>2, <2>5, <4>1 DEF Inv, Counted
    <3>2. Counted(o)'
      <4>1. /\ Len(sink[o]) \in Nat /\ Len(wire'[e]) \in Nat /\ Sent(phase[o]) \in Nat
        BY <1>1, <2>5, AtMostTwo, LenProperties
      <4>2. /\ Len(sink[o]) <= 1
            /\ Len(wire[e]) + Len(sink[o]) <= Sent(phase[o])
        BY <1>1 DEF Inv, Counted
      <4>3. Len(wire'[e]) <= Len(wire[e])
        BY <2>4, <2>5
      <4>4. Len(wire'[e]) + Len(sink[o]) <= Sent(phase[o])
        BY <2>4, <4>1, <4>2, <4>3, Fewer
      <4> QED
        BY <1>1, <2>2, <4>2, <4>4 DEF Counted
    <3> QED
      BY <3>1, <3>2
  <2>11. Mutual(e)' /\ Mutual(o)'
    BY <1>1, <1>2, <2>1, <2>3, Settled DEF Inv, Mutual
  <2> QED
    BY <1>1, <2>7, <2>8, <2>9, <2>10, <2>11 DEF Inv
<1> QED
  BY <1>3, <1>4, <1>5


\* A node hands its upgrade message to the sink only after it has accepted the status.
LEMMA HandingOverKeeps ==
  ASSUME Inv, NEW e \in Ends, SendUpgrade(e)
  PROVE  Inv'
<1> DEFINE o == Other(e)
           m == Upgrade(Encode(FALSE))
<1>1. o \in Ends /\ o # e /\ Other(o) = e /\ \A x \in Ends : x = e \/ x = o
  BY TwoEnds
<1>2. /\ phase[e] = "upgrade" /\ phase'[e] = "reply" /\ phase'[o] = phase[o]
      /\ result' = result /\ wire' = wire /\ UNCHANGED settings
      /\ Types
  BY <1>1 DEF Inv, SendUpgrade, Goto, Types
<1>3. /\ \A x \in Ends : Committed(x) => Committed(x)'
      /\ \A x \in Ends : Seq(Sendable(x)) \subseteq Seq(Sendable(x)')
  BY <1>1, <1>2, OnceCommitted
<1>4. sink[e] = <<>> /\ Welcome(e, Status(o))
  BY <1>2 DEF Inv, Messages, Committed, Accepting
<1>5. Committed(e)'
  BY <1>2, <1>4, Settled DEF Committed
<1>6. m \in Upgrades(e)
  BY DEF Upgrades, SendUpgrade
<1>7. /\ sink' = [x \in Ends |-> sink'[x]]
      /\ sink'[e] \in Seq(Upgrades(e)) /\ Len(sink'[e]) = 1
      /\ sink'[o] = sink[o]
  <2>1. sink' = [sink EXCEPT ![e] = Append(sink[e], m)]
    BY DEF SendUpgrade
  <2>2. sink[e] \in Seq(Upgrades(e)) /\ Len(sink[e]) = 0
    BY <1>4, EmptySeq
  <2>3. Append(sink[e], m) \in Seq(Upgrades(e)) /\ Len(Append(sink[e], m)) = 1
    <3> HIDE DEF m
    <3> QED
      BY <1>6, <2>2, AppendProperties
  <2> QED
    BY <1>1, <1>2, <2>1, <2>3 DEF Types
<1>8. Types'
  BY <1>2, <1>7, Settled DEF Types, SendUpgrade, Goto
<1>9. Messages(e)' /\ Messages(o)'
  BY <1>1, <1>2, <1>3, <1>5, <1>7 DEF Inv, Messages
<1>10. Accepting(e)' /\ Accepting(o)'
  BY <1>1, <1>2, <1>4, Settled DEF Inv, Accepting
<1>11. Counted(e)' /\ Counted(o)'
  <2>1. Len(wire[o]) \in Nat /\ Len(wire[o]) <= 1
    <3>1. Sent(phase[e]) = 1 /\ Len(wire[o]) + Len(sink[e]) <= Sent(phase[e])
      BY <1>2 DEF Inv, Counted, Sent
    <3> QED
      BY <1>4, <3>1, AtMostTwo, EmptySeq
  <2>2. Sent(phase'[e]) = 2
    BY <1>2 DEF Sent
  <2>3. Counted(e)'
    BY <1>2, <1>7, <2>1, <2>2 DEF Counted
  <2>4. Counted(o)'
    BY <1>1, <1>2, <1>7 DEF Inv, Counted
  <2> QED
    BY <2>3, <2>4
<1>12. Mutual(e)' /\ Mutual(o)'
  BY <1>1, <1>2, <1>3, Settled DEF Inv, Mutual
<1> QED
  BY <1>1, <1>8, <1>9, <1>10, <1>11, <1>12 DEF Inv

\* What was handed over leaves at any moment, during the handshake or after it.
LEMMA FlushKeeps ==
  ASSUME Inv, NEW e \in Ends, Flush(e)
  PROVE  Inv'
<1> DEFINE o == Other(e)
<1>1. o \in Ends /\ o # e /\ Other(o) = e /\ \A x \in Ends : x = e \/ x = o
  BY TwoEnds
<1>2. /\ sink[e] # <<>> /\ sink' = [sink EXCEPT ![e] = Tail(sink[e])]
      /\ UNCHANGED <<settings, phase, result, broken, open>> /\ Deliver(e, Head(sink[e]))
      /\ Types
  BY DEF Inv, Flush
<1>3. /\ \A x \in Ends : Committed(x) => Committed(x)'
      /\ \A x \in Ends : Seq(Sendable(x)) \subseteq Seq(Sendable(x)')
  BY <1>1, <1>2, OnceCommitted
<1>4. Committed(e) /\ sink[e] \in Seq(Upgrades(e))
  BY <1>2 DEF Inv, Messages
<1>5. /\ Head(sink[e]) \in Upgrades(e) /\ Tail(sink[e]) \in Seq(Upgrades(e))
      /\ Len(Tail(sink[e])) = Len(sink[e]) - 1
  BY <1>2, <1>4, HeadTailProperties
<1>6. /\ wire' = [x \in Ends |-> wire'[x]]
      /\ wire'[e] = wire[e]
      /\ wire'[o] \in Seq(Sendable(o))
      /\ Len(wire'[o]) \in {Len(wire[o]), Len(wire[o]) + 1}
  <2>1. Head(sink[e]) \in Sendable(o) /\ wire[o] \in Seq(Sendable(o))
    BY <1>1, <1>4, <1>5 DEF Sendable, Inv, Messages
  <2> QED
    BY <1>2, <2>1, Delivered
<1>7. /\ sink' = [x \in Ends |-> sink'[x]]
      /\ sink'[e] = Tail(sink[e]) /\ sink'[o] = sink[o]
  BY <1>1, <1>2 DEF Types
<1>8. Types'
  BY <1>2, <1>6, <1>7, Settled DEF Types
<1>9. Messages(e)' /\ Messages(o)'
  BY <1>1, <1>2, <1>3, <1>4, <1>5, <1>6, <1>7 DEF Inv, Messages
<1>10. Accepting(e)' /\ Accepting(o)'
  BY <1>1, <1>2, Settled DEF Inv, Accepting
<1>11. Counted(e)' /\ Counted(o)'
  <2>1. /\ Len(sink[e]) \in Nat /\ Len(wire[o]) \in Nat /\ Sent(phase[e]) \in Nat
        /\ Len(sink[e]) <= 1
    BY AtMostTwo
  <2>2. Len(wire[o]) + Len(sink[e]) <= Sent(phase[e])
    BY DEF Inv, Counted
  <2>3. Len(sink'[e]) = Len(sink[e]) - 1
    BY <1>5, <1>7
  <2>4. Len(wire'[o]) \in Nat /\ Len(sink'[e]) \in Int
    BY <1>6, <2>1, <2>3
  <2>5. Len(sink'[e]) <= 1
    BY <2>1, <2>3
  <2>6. Len(wire'[o]) + Len(sink'[e]) <= Sent(phase[e])
    <3>1. Len(sink[e]) \in Nat /\ Len(wire[o]) \in Nat /\ Sent(phase[e]) \in Nat
      BY <2>1
    <3>2. Len(wire'[o]) \in Nat /\ Len(sink'[e]) \in Int
      BY <2>4
    <3>3. Len(wire'[o]) \in {Len(wire[o]), Len(wire[o]) + 1}
      BY <1>6
    <3> QED
      BY <2>2, <2>3, <3>1, <3>2, <3>3, MovesOne
  <2>7. Counted(e)'
    BY <1>2, <2>5, <2>6 DEF Counted
  <2>8. Counted(o)'
    BY <1>1, <1>2, <1>6, <1>7 DEF Inv, Counted
  <2> QED
    BY <2>7, <2>8
<1>12. Mutual(e)' /\ Mutual(o)'
  BY <1>1, <1>2, <1>3, Settled DEF Inv, Mutual
<1> QED
  BY <1>1, <1>8, <1>9, <1>10, <1>11, <1>12 DEF Inv

\* A geth writes its upgrade message at once, and also after it has accepted the status.
LEMMA GethSendsKeeps ==
  ASSUME Inv, NEW e \in Ends, GethSendsUpgrade(e)
  PROVE  Inv'
<1> DEFINE o == Other(e)
<1>1. o \in Ends /\ o # e /\ Other(o) = e /\ \A x \in Ends : x = e \/ x = o
  BY TwoEnds
<1>2. /\ phase[e] = "upgrade" /\ phase'[e] = "reply" /\ phase'[o] = phase[o]
      /\ result' = result /\ sink' = sink /\ UNCHANGED settings
      /\ Types
  BY <1>1 DEF Inv, GethSendsUpgrade, Goto, Types
<1>3. PICK disable \in BOOLEAN :
        Deliver(e, Upgrade(<<UPGRADE_STATUS_MESSAGE_ID, 194>> \o Extension(disable)))
  BY DEF GethSendsUpgrade
<1> DEFINE m == Upgrade(<<UPGRADE_STATUS_MESSAGE_ID, 194>> \o Extension(disable))
<1>4. m \in Upgrades(e)
  BY DEF Upgrades, GethSendsUpgrade
<1>5. sink[e] = <<>> /\ Welcome(e, Status(o))
  BY <1>2 DEF Inv, Messages, Committed, Accepting
<1>6. /\ \A x \in Ends : Committed(x) => Committed(x)'
      /\ \A x \in Ends : Seq(Sendable(x)) \subseteq Seq(Sendable(x)')
  BY <1>1, <1>2, OnceCommitted
<1>7. Committed(e)'
  BY <1>2, <1>5, Settled DEF Committed
<1>8. /\ wire' = [x \in Ends |-> wire'[x]]
      /\ wire'[e] = wire[e]
      /\ wire'[o] \in Seq(Sendable(o)')
      /\ Len(wire'[o]) \in {Len(wire[o]), Len(wire[o]) + 1}
  <2>1. m \in Sendable(o)'
    BY <1>1, <1>4, <1>7 DEF Sendable
  <2>2. wire[o] \in Seq(Sendable(o)')
    BY <1>1, <1>6 DEF Inv, Messages
  <2> QED
    BY <1>2, <1>3, <2>1, <2>2, Delivered
<1>9. Types'
  BY <1>2, <1>8, Settled DEF Types, GethSendsUpgrade, Goto
<1>10. Messages(e)' /\ Messages(o)'
  BY <1>1, <1>2, <1>6, <1>8 DEF Inv, Messages
<1>11. Accepting(e)' /\ Accepting(o)'
  BY <1>1, <1>2, <1>5, Settled DEF Inv, Accepting
<1>12. Counted(e)' /\ Counted(o)'
  <2>1. Len(sink[e]) = 0 /\ Len(sink[e]) \in Nat /\ Len(wire[o]) \in Nat
    BY <1>5, EmptySeq, AtMostTwo
  <2>2. Sent(phase[e]) = 1 /\ Sent(phase'[e]) = 2
    BY <1>2 DEF Sent
  <2>3. Len(wire'[o]) + Len(sink[e]) <= 2 /\ Len(sink[e]) <= 1
    <3>1. Len(wire[o]) + Len(sink[e]) <= 1
      BY <2>2 DEF Inv, Counted
    <3>2. Len(wire[o]) <= 1
      BY <2>1, <3>1, Alone
    <3>3. Len(wire'[o]) \in Nat /\ Len(wire'[o]) <= 2
      BY <1>8, <2>1, <3>2
    <3> QED
      BY <2>1, <3>3, Alone
  <2>4. Counted(e)'
    BY <1>2, <2>2, <2>3 DEF Counted
  <2>5. Counted(o)'
    BY <1>1, <1>2, <1>8 DEF Inv, Counted
  <2> QED
    BY <2>4, <2>5
<1>13. Mutual(e)' /\ Mutual(o)'
  BY <1>1, <1>2, <1>6, Settled DEF Inv, Mutual
<1> QED
  BY <1>1, <1>9, <1>10, <1>11, <1>12, <1>13 DEF Inv

\* Only an upgrade message ends upgrade_status well, and it proves that the other end is committed.
LEMMA ReplyKeeps ==
  ASSUME Inv, NEW e \in Ends, RecvUpgrade(e)
  PROVE  Inv'
<1>1. /\ phase[e] = "reply" /\ wire[e] # <<>> /\ wire' = [wire EXCEPT ![e] = Tail(@)]
      /\ UNCHANGED <<settings, sink, broken>>
      /\ Types
  BY DEF Inv, RecvUpgrade
<1>2. CASE Verdict(e, Head(wire[e])) # "ok"
  <2>1. Fail(e, "refused")
    <3>1. Head(wire[e]) \in Sendable(e)
      BY <1>1, Read DEF Inv, Messages
    <3>2. Verdict(e, Head(wire[e])) = "refused"
      BY <1>2, <3>1, NoPanic
    <3> QED
      BY <1>2, <3>2 DEF RecvUpgrade
  <2> QED
    BY <1>1, <2>1, Returns DEF Fail
<1>3. CASE Verdict(e, Head(wire[e])) = "ok"
  <2>1. Succeed(e)
    BY <1>3 DEF RecvUpgrade
  <2>2. Head(wire[e]) \in Sendable(e)
    BY <1>1, Read DEF Inv, Messages
  <2>3. Head(wire[e]) \in Upgrades(Other(e)) /\ Committed(Other(e))
    <3>1. Head(wire[e]).kind = "upgrade"
      BY <1>3, <2>2, NoPanic
    <3>2. Head(wire[e]) # Status(Other(e))
      BY <3>1 DEF Status
    <3> QED
      BY <2>2, <3>2 DEF Sendable
  <2>4. Welcome(e, Status(Other(e)))
    BY <1>1 DEF Inv, Accepting
  <2>5. open' \in BOOLEAN
    BY <1>1, <2>1 DEF Succeed, Types
  <2> QED
    BY <1>1, <2>1, <2>3, <2>4, <2>5, Returns DEF Succeed
<1> QED
  BY <1>2, <1>3

\* The network and idle steps leave the ends and their messages alone.
LEMMA Untouched ==
  ASSUME Inv, UNCHANGED <<settings, phase, result, sink, wire>>,
         open' \in BOOLEAN, broken' \in BOOLEAN
  PROVE  Inv'
<1>1. Types'
  BY Settled DEF Inv, Types
<1>2. \A x : Committed(x)' = Committed(x) /\ Sendable(x)' = Sendable(x)
  BY Settled DEF Committed, Sendable
<1>3. ASSUME NEW x \in Ends
      PROVE  Messages(x)' /\ Accepting(x)' /\ Counted(x)' /\ Mutual(x)'
  <2>1. Messages(x) /\ Accepting(x) /\ Counted(x) /\ Mutual(x)
    BY DEF Inv
  <2>2. Messages(x)'
    BY <1>2, <2>1 DEF Messages
  <2>3. Accepting(x)'
    BY <2>1, Settled DEF Accepting
  <2>4. Counted(x)'
    BY <2>1 DEF Counted
  <2>5. Mutual(x)'
    BY <1>2, <2>1, Settled DEF Mutual
  <2> QED
    BY <2>2, <2>3, <2>4, <2>5
<1> QED
  BY <1>1, <1>3 DEF Inv

\* Every step keeps the invariant.
LEMMA InvNext == Inv /\ [Next]_vars => Inv'
<1> SUFFICES ASSUME Inv, [Next]_vars PROVE Inv'
  OBVIOUS
<1>1. CASE UNCHANGED vars
  BY <1>1, Untouched DEF vars, Inv, Types
<1>2. ASSUME NEW e \in Ends, SendStatus(e) PROVE Inv'
  BY <1>2, GreetingKeeps
<1>3. ASSUME NEW e \in Ends, RecvStatus(e) PROVE Inv'
  BY <1>3, AcceptingKeeps
<1>4. ASSUME NEW e \in Ends, SendUpgrade(e) PROVE Inv'
  BY <1>4, HandingOverKeeps
<1>5. ASSUME NEW e \in Ends, Flush(e) PROVE Inv'
  BY <1>5, FlushKeeps
<1>6. ASSUME NEW e \in Ends, GethSendsUpgrade(e) PROVE Inv'
  BY <1>6, GethSendsKeeps
<1>7. ASSUME NEW e \in Ends, RecvUpgrade(e) PROVE Inv'
  BY <1>7, ReplyKeeps
<1>8. ASSUME NEW e \in Ends, RecvNothing(e) PROVE Inv'
  BY <1>8, Returns DEF RecvNothing, Fail
<1>9. ASSUME NEW e \in Ends, Timeout(e) PROVE Inv'
  BY <1>9, Returns DEF Timeout, Fail
<1>10. CASE Cut
  BY <1>10, Untouched DEF Cut
<1> QED
  BY <1>1, <1>2, <1>3, <1>4, <1>5, <1>6, <1>7, <1>8, <1>9, <1>10 DEF Next

\* The invariant in every reachable state.
LEMMA Invariance == Spec => []Inv
  BY InvInit, InvNext, PTL DEF Spec

-----------------------------------------------------------------------------
(* The second invariant: what arrives in which order, and who is to blame *)

\* The second invariant holds initially.
LEMMA OrderInit == Init => Order
<1> SUFFICES ASSUME Init PROVE Order
  OBVIOUS
<1>1. ASSUME NEW x \in Ends
      PROVE  StatusFirst(x) /\ Judged(x)
  <2>1. Other(x) \in Ends
    BY TwoEnds
  <2>2. /\ phase[x] = "greet" /\ result[x] = "none" /\ wire[x] = <<>>
        /\ phase[Other(x)] = "greet"
    BY <2>1 DEF Init
  <2> QED
    BY <2>2 DEF StatusFirst, Judged
<1>2. Blame
  BY DEF Init, Blame
<1> QED
  BY <1>1, <1>2 DEF Order

\* The verdict of an end stands once it is given.
LEMMA VerdictStands ==
  ASSUME NEW x, Judged(x), UNCHANGED settings, result'[x] = result[x]
  PROVE  Judged(x)'
  BY Settled DEF Judged

\* A read leaves nothing that looks like a status.
LEMMA StatusRead ==
  ASSUME Inv, NEW e \in Ends, StatusFirst(e), wire[e] # <<>>, wire' = [wire EXCEPT ![e] = Tail(@)]
  PROVE  /\ Head(wire[e]) = wire[e][1]
         /\ \A i \in DOMAIN wire'[e] : wire'[e][i].kind # "status"
<1>1. wire[e] \in Seq(Sendable(e)) /\ wire'[e] = Tail(wire[e])
  BY DEF Inv, Types, Messages
<1>2. /\ Tail(wire[e]) \in Seq(Sendable(e))
      /\ Len(Tail(wire[e])) = Len(wire[e]) - 1
      /\ \A i \in 1..Len(Tail(wire[e])) : Tail(wire[e])[i] = wire[e][i + 1]
  BY <1>1, HeadTailProperties
<1>3. Len(wire[e]) \in Nat /\ DOMAIN wire[e] = 1..Len(wire[e])
  BY <1>1, LenProperties
<1>4. DOMAIN wire'[e] = 1..(Len(wire[e]) - 1)
  BY <1>1, <1>2, LenProperties
<1>5. ASSUME NEW i \in DOMAIN wire'[e]
      PROVE  wire'[e][i].kind # "status"
  <2>1. i \in 1..(Len(wire[e]) - 1) /\ i + 1 \in DOMAIN wire[e] /\ i + 1 # 1
    BY <1>3, <1>4
  <2>2. wire'[e][i] = wire[e][i + 1]
    BY <1>1, <1>2, <2>1
  <2> QED
    BY <2>1, <2>2 DEF StatusFirst
<1> QED
  BY <1>1, <1>5

\* A handshake that returns keeps the order, if its verdict is founded, and nothing but a
\* success leaves the connection up.
LEMMA ReturnsInOrder ==
  ASSUME Inv, Order, NEW e \in Ends, phase[e] # "done",
         NEW r \in {"ok", "refused", "no_response", "timeout"}, Finish(e, r),
         UNCHANGED <<settings, sink, broken>>,
         wire' = wire \/ (wire[e] # <<>> /\ wire' = [wire EXCEPT ![e] = Tail(@)]),
         open' => open /\ phase[e] # "greet",
         ~open' => ~open \/ r # "ok",
         r = "no_response" => ~open,
         r = "ok" /\ version > 66 => \E m \in Upgrades(Other(e)) : Verdict(e, m) = "ok",
         r = "refused" => \/ ~Welcome(e, Status(Other(e)))
                          \/ \E m \in Upgrades(Other(e)) : Verdict(e, m) # "ok"
  PROVE  Order'
<1> DEFINE o == Other(e)
<1>1. o \in Ends /\ o # e /\ Other(o) = e /\ \A x \in Ends : x = e \/ x = o
  BY TwoEnds
<1>2. /\ phase'[e] = "done" /\ result'[e] = r
      /\ phase'[o] = phase[o] /\ result'[o] = result[o]
      /\ result[e] = "none"
  BY <1>1 DEF Inv, Finish, Types
<1>3. wire'[o] = wire[o] /\ StatusFirst(e) /\ StatusFirst(o) /\ Judged(o)
  BY <1>1 DEF Inv, Types, Order
<1>4. StatusFirst(e)'
  <2>1. CASE wire' = wire
    BY <1>2, <1>3, <2>1 DEF StatusFirst
  <2>2. CASE wire[e] # <<>> /\ wire' = [wire EXCEPT ![e] = Tail(@)]
    BY <1>2, <1>3, <2>2, StatusRead DEF StatusFirst
  <2> QED
    BY <2>1, <2>2
<1>5. StatusFirst(o)'
  BY <1>1, <1>2, <1>3 DEF StatusFirst
<1>6. Judged(e)'
  BY <1>2, Settled DEF Judged
<1>7. Judged(o)'
  BY <1>2, <1>3, VerdictStands
<1>8. Blame'
  <2>1. CASE r \in {"refused", "timeout"}
    BY <1>2, <2>1 DEF Blame
  <2>2. CASE r \in {"ok", "no_response"}
    <3> SUFFICES ASSUME ~open' \/ (\E x \in Ends : result'[x] = "no_response")
                 PROVE  broken' \/ \E x \in Ends : result'[x] \in {"refused", "timeout"}
      BY DEF Blame
    <3>1. ~open \/ \E x \in Ends : result[x] = "no_response"
      BY <1>1, <1>2, <2>2
    <3>2. broken \/ \E x \in Ends : result[x] \in {"refused", "timeout"}
      BY <3>1 DEF Order, Blame
    <3>3. broken' = broken /\ (result[o] \in {"refused", "timeout"} => result'[o] \in {"refused", "timeout"})
      BY <1>2
    <3> QED
      BY <1>1, <1>2, <3>2, <3>3
  <2> QED
    BY <2>1, <2>2
<1> QED
  BY <1>1, <1>4, <1>5, <1>6, <1>7, <1>8 DEF Order

\* A step that only moves e within the handshake keeps every verdict and the blame.
LEMMA MovesOn ==
  ASSUME Order, UNCHANGED <<settings, result, broken, open>>
  PROVE  (\A x \in Ends : Judged(x)') /\ Blame'
<1>1. \A x \in Ends : Judged(x)'
  BY VerdictStands DEF Order
<1>2. Blame'
  BY DEF Order, Blame
<1> QED
  BY <1>1, <1>2

\* An upgrade message does not overtake the status of the same end.
LEMMA NoOvertaking ==
  ASSUME Inv, Order, NEW e \in Ends, phase[e] # "greet", phase'[e] # "greet",
         phase'[Other(e)] = phase[Other(e)], open' = open,
         NEW S, wire[Other(e)] \in Seq(S), NEW m \in S, m.kind = "upgrade", Deliver(e, m)
  PROVE  StatusFirst(Other(e))'
<1> DEFINE o == Other(e)
<1>1. o \in Ends /\ o # e /\ Other(o) = e /\ \A x \in Ends : x = e \/ x = o
  BY TwoEnds
<1>2. StatusFirst(o) /\ Types
  BY <1>1 DEF Order, Inv
<1>3. CASE ~open
  <2>1. wire' = wire
    BY <1>3 DEF Deliver
  <2> QED
    BY <1>1, <1>2, <1>3, <2>1 DEF StatusFirst
<1>4. CASE open
  <2>1. wire'[o] = Append(wire[o], m)
    BY <1>1, <1>2, <1>4 DEF Deliver, Types
  <2>2. /\ Append(wire[o], m) \in Seq(S) /\ Append(wire[o], m) # <<>>
        /\ Len(Append(wire[o], m)) = Len(wire[o]) + 1
        /\ \A i \in 1..Len(wire[o]) : Append(wire[o], m)[i] = wire[o][i]
        /\ Append(wire[o], m)[Len(wire[o]) + 1] = m
    BY AppendProperties
  <2>3. Len(wire[o]) \in Nat /\ DOMAIN wire[o] = 1..Len(wire[o])
    BY LenProperties
  <2>4. DOMAIN wire'[o] = 1..(Len(wire[o]) + 1)
    BY <2>1, <2>2, LenProperties
  <2>5. ASSUME NEW i \in DOMAIN wire'[o], wire'[o][i].kind = "status"
        PROVE  i = 1 /\ phase'[o] \in {"greet", "status", "done"}
    <3>1. i # Len(wire[o]) + 1
      BY <2>1, <2>2, <2>5
    <3>2. i \in DOMAIN wire[o] /\ wire'[o][i] = wire[o][i]
      BY <2>1, <2>2, <2>3, <2>4, <3>1
    <3> QED
      BY <1>2, <2>5, <3>2 DEF StatusFirst
  <2>6. ASSUME phase[o] \in {"greet", "status"}
        PROVE  wire'[o][1].kind = "status"
    <3>1. wire[o] # <<>> /\ wire[o][1].kind = "status"
      BY <1>1, <1>2, <1>4, <2>6 DEF StatusFirst
    <3>2. 1 \in 1..Len(wire[o])
      BY <2>3, <3>1, EmptySeq
    <3> QED
      BY <2>1, <2>2, <3>1, <3>2
  <2> QED
    BY <1>1, <2>1, <2>2, <2>5, <2>6 DEF StatusFirst
<1> QED
  BY <1>3, <1>4

\* Every upgrade message is told from a status.
LEMMA UpgradeKind ==
  ASSUME NEW x, NEW m \in Upgrades(x)
  PROVE  m.kind = "upgrade"
<1>1. PICK frame : m = Upgrade(frame)
  BY DEF Upgrades
<1> QED
  BY <1>1 DEF Upgrade

\* The other end has not read the status yet when it is sent.
LEMMA GreetingInOrder ==
  ASSUME Inv, Order, NEW e \in Ends, SendStatus(e)
  PROVE  Order'
<1> DEFINE o == Other(e)
<1>1. o \in Ends /\ o # e /\ Other(o) = e /\ \A x \in Ends : x = e \/ x = o
  BY TwoEnds
<1>2. /\ phase[e] = "greet" /\ phase'[e] = "status" /\ phase'[o] = phase[o]
      /\ UNCHANGED <<settings, result, broken, open>>
      /\ StatusFirst(e) /\ StatusFirst(o) /\ Types
  BY <1>1 DEF Inv, Order, SendStatus, Goto, Types
<1>3. wire[o] \in Seq(Sendable(o)) /\ wire[o] = <<>>
  <2>1. Len(sink[e]) \in Nat /\ Len(wire[o]) \in Nat
    BY AtMostTwo
  <2>2. Len(wire[o]) + Len(sink[e]) <= 0
    BY <1>2 DEF Inv, Counted, Sent
  <2>3. \A a, b \in Nat : a + b <= 0 => a = 0
    OBVIOUS
  <2>4. Len(wire[o]) = 0
    BY <2>1, <2>2, <2>3
  <2> QED
    BY <1>1, <2>4, EmptySeq DEF Inv, Messages
<1>4. Status(e) \in Sendable(o) /\ Status(e).kind = "status"
  BY <1>1 DEF Sendable, Status
<1>5. /\ wire'[e] = wire[e]
      /\ ~open => wire'[o] = <<>>
      /\ open => wire'[o] = <<Status(e)>>
  BY <1>1, <1>2, <1>3 DEF SendStatus, Deliver, Types
<1>6. StatusFirst(e)'
  BY <1>2, <1>5 DEF StatusFirst
<1>7. StatusFirst(o)'
  <2>1. phase[o] \in {"greet", "status", "done"}
    BY <1>1, <1>2 DEF StatusFirst, Types
  <2>2. CASE open
    <3>1. \A i \in DOMAIN <<Status(e)>> : i = 1
      OBVIOUS
    <3>2. wire'[o] # <<>> /\ wire'[o][1] = Status(e)
      BY <1>5, <2>2
    <3> QED
      BY <1>1, <1>2, <1>4, <1>5, <2>1, <2>2, <3>1, <3>2 DEF StatusFirst
  <2>3. CASE ~open
    BY <1>1, <1>2, <1>5, <2>1, <2>3 DEF StatusFirst
  <2> QED
    BY <2>2, <2>3
<1> QED
  BY <1>1, <1>2, <1>6, <1>7, MovesOn DEF Order

\* What is read as the status is the status, and is refused for its fork id only.
LEMMA AcceptingInOrder ==
  ASSUME Inv, Order, NEW e \in Ends, RecvStatus(e)
  PROVE  Order'
<1> DEFINE o == Other(e)
<1>1. o \in Ends /\ o # e /\ Other(o) = e /\ \A x \in Ends : x = e \/ x = o
  BY TwoEnds
<1>2. /\ phase[e] = "status" /\ wire[e] # <<>> /\ wire' = [wire EXCEPT ![e] = Tail(@)]
      /\ UNCHANGED <<settings, sink, broken>>
      /\ StatusFirst(e) /\ StatusFirst(o) /\ Types
  BY <1>1 DEF Inv, Order, RecvStatus
<1>3. Head(wire[e]) = Status(o)
  <2>1. Head(wire[e]) = wire[e][1] /\ wire[e][1].kind = "status"
    BY <1>2, StatusRead DEF StatusFirst
  <2>2. Head(wire[e]) \in Sendable(e)
    BY <1>2, Read DEF Inv, Messages
  <2> QED
    BY <2>1, <2>2, MessageKinds
<1>4. CASE ~Welcome(e, Head(wire[e]))
  <2>1. Fail(e, "refused")
    BY <1>4 DEF RecvStatus
  <2> QED
    BY <1>2, <1>3, <1>4, <2>1, ReturnsInOrder DEF Fail
<1>5. CASE Welcome(e, Head(wire[e])) /\ ~(version > 66)
  <2>1. Succeed(e)
    BY <1>5 DEF RecvStatus, AfterStatus
  <2> QED
    BY <1>2, <1>5, <2>1, ReturnsInOrder DEF Succeed
<1>6. CASE Welcome(e, Head(wire[e])) /\ version > 66
  <2>1. phase' = [phase EXCEPT ![e] = "upgrade"] /\ UNCHANGED <<result, open>>
    BY <1>6 DEF RecvStatus, AfterStatus, Goto
  <2>2. phase'[e] = "upgrade" /\ phase'[o] = phase[o] /\ wire'[o] = wire[o]
    BY <1>1, <1>2, <2>1 DEF Types
  <2>3. phase[o] # "greet"
    <3>1. /\ Len(wire[e]) \in Nat \ {0} /\ Len(sink[o]) \in Nat
      BY <1>1, <1>2, AtMostTwo, EmptySeq DEF Inv, Messages
    <3>2. Len(wire[e]) + Len(sink[o]) <= Sent(phase[o])
      BY <1>1 DEF Inv, Counted
    <3>3. \A a \in Nat \ {0}, b \in Nat : ~(a + b <= 0)
      OBVIOUS
    <3>4. Sent("greet") = 0
      BY DEF Sent
    <3> QED
      BY <3>1, <3>2, <3>3, <3>4
  <2>4. \A i \in DOMAIN wire'[e] : wire'[e][i].kind # "status"
    BY <1>2, StatusRead
  <2>5. StatusFirst(e)'
    BY <2>2, <2>3, <2>4 DEF StatusFirst
  <2>6. StatusFirst(o)'
    BY <1>1, <1>2, <2>1, <2>2 DEF StatusFirst
  <2> QED
    BY <1>1, <1>2, <2>1, <2>5, <2>6, MovesOn DEF Order
<1> QED
  BY <1>4, <1>5, <1>6

\* Handing the upgrade message to the sink delivers nothing yet.
LEMMA HandingOverInOrder ==
  ASSUME Inv, Order, NEW e \in Ends, SendUpgrade(e)
  PROVE  Order'
<1> DEFINE o == Other(e)
<1>1. o \in Ends /\ o # e /\ Other(o) = e /\ \A x \in Ends : x = e \/ x = o
  BY TwoEnds
<1>2. /\ phase[e] = "upgrade" /\ phase'[e] = "reply" /\ phase'[o] = phase[o]
      /\ UNCHANGED <<settings, result, wire, broken, open>>
      /\ StatusFirst(e) /\ StatusFirst(o)
  BY <1>1 DEF Inv, Order, SendUpgrade, Goto, Types
<1>3. StatusFirst(e)' /\ StatusFirst(o)'
  BY <1>1, <1>2 DEF StatusFirst
<1> QED
  BY <1>1, <1>2, <1>3, MovesOn DEF Order

\* A late flush comes after the status all the same.
LEMMA FlushInOrder ==
  ASSUME Inv, Order, NEW e \in Ends, Flush(e)
  PROVE  Order'
<1> DEFINE o == Other(e)
<1>1. o \in Ends /\ o # e /\ Other(o) = e /\ \A x \in Ends : x = e \/ x = o
  BY TwoEnds
<1>2. /\ sink[e] # <<>> /\ Deliver(e, Head(sink[e]))
      /\ UNCHANGED <<settings, phase, result, broken, open>>
      /\ StatusFirst(e)
  BY DEF Order, Flush
<1>3. Committed(e) /\ Head(sink[e]) \in Upgrades(e)
  BY <1>2, HeadTailProperties DEF Inv, Messages
<1>4. Head(sink[e]) \in Sendable(o) /\ wire[o] \in Seq(Sendable(o)) /\ Types
  BY <1>1, <1>3 DEF Sendable, Inv, Messages
<1>5. wire'[e] = wire[e]
  BY <1>2, <1>4, Delivered
<1>6. StatusFirst(e)'
  BY <1>2, <1>5 DEF StatusFirst
<1>7. StatusFirst(o)'
  BY <1>2, <1>3, <1>4, UpgradeKind, NoOvertaking DEF Committed
<1> QED
  BY <1>1, <1>2, <1>6, <1>7, MovesOn DEF Order

\* A geth's upgrade message comes after its status.
LEMMA GethSendsInOrder ==
  ASSUME Inv, Order, NEW e \in Ends, GethSendsUpgrade(e)
  PROVE  Order'
<1> DEFINE o == Other(e)
<1>1. o \in Ends /\ o # e /\ Other(o) = e /\ \A x \in Ends : x = e \/ x = o
  BY TwoEnds
<1>2. /\ phase[e] = "upgrade" /\ phase'[e] = "reply" /\ phase'[o] = phase[o]
      /\ UNCHANGED <<settings, result, broken, open>>
      /\ StatusFirst(e) /\ Types
  BY <1>1 DEF Inv, Order, GethSendsUpgrade, Goto, Types
<1>3. PICK disable \in BOOLEAN :
        Deliver(e, Upgrade(<<UPGRADE_STATUS_MESSAGE_ID, 194>> \o Extension(disable)))
  BY DEF GethSendsUpgrade
<1> DEFINE m == Upgrade(<<UPGRADE_STATUS_MESSAGE_ID, 194>> \o Extension(disable))
           S == Sendable(o) \cup {m}
<1>4. m.kind = "upgrade"
  BY DEF Upgrade
<1>5. Deliver(e, m) /\ m \in S
  BY <1>3
<1>6. wire[o] \in Seq(S)
  BY <1>1, SeqMonotonic DEF Inv, Messages
<1> HIDE DEF m, S
<1>7. wire'[e] = wire[e]
  BY <1>2, <1>5, <1>6, Delivered
<1>8. StatusFirst(e)'
  BY <1>2, <1>7 DEF StatusFirst
<1>9. StatusFirst(o)'
  BY <1>2, <1>4, <1>5, <1>6, NoOvertaking
<1> QED
  BY <1>1, <1>2, <1>8, <1>9, MovesOn DEF Order

\* What is read as the upgrade message is one.
LEMMA ReplyInOrder ==
  ASSUME Inv, Order, NEW e \in Ends, RecvUpgrade(e)
  PROVE  Order'
<1>1. /\ phase[e] = "reply" /\ wire[e] # <<>> /\ wire' = [wire EXCEPT ![e] = Tail(@)]
      /\ UNCHANGED <<settings, sink, broken>>
      /\ StatusFirst(e) /\ Types
  BY DEF Inv, Order, RecvUpgrade
<1>2. Head(wire[e]) \in Upgrades(Other(e))
  <2>1. wire[e] \in Seq(Sendable(e)) /\ Head(wire[e]) \in Sendable(e)
    BY <1>1, Read DEF Inv, Messages
  <2>2. 1 \in DOMAIN wire[e]
    BY <1>1, <2>1, EmptySeq, LenProperties
  <2>3. Head(wire[e]).kind # "status"
    BY <1>1, <2>2, StatusRead DEF StatusFirst
  <2>4. Head(wire[e]) # Status(Other(e))
    BY <2>3 DEF Status
  <2> QED
    BY <2>1, <2>4 DEF Sendable
<1>3. CASE Verdict(e, Head(wire[e])) # "ok"
  <2>1. Fail(e, "refused")
    <3>1. Head(wire[e]) \in Sendable(e)
      BY <1>1, Read DEF Inv, Messages
    <3>2. Verdict(e, Head(wire[e])) = "refused"
      BY <1>3, <3>1, NoPanic
    <3> QED
      BY <1>3, <3>2 DEF RecvUpgrade
  <2> QED
    BY <1>1, <1>2, <1>3, <2>1, ReturnsInOrder DEF Fail
<1>4. CASE Verdict(e, Head(wire[e])) = "ok"
  <2>1. Succeed(e)
    BY <1>4 DEF RecvUpgrade
  <2> QED
    BY <1>1, <1>2, <1>4, <2>1, ReturnsInOrder DEF Succeed
<1> QED
  BY <1>3, <1>4

\* Every step keeps the second invariant, given the first.
LEMMA OrderNext == Inv /\ Order /\ [Next]_vars => Order'
<1> SUFFICES ASSUME Inv, Order, [Next]_vars PROVE Order'
  OBVIOUS
<1>1. CASE UNCHANGED vars
  <2>1. UNCHANGED <<settings, phase, result, wire, broken, open>>
    BY <1>1 DEF vars
  <2>2. \A x \in Ends : StatusFirst(x)'
    BY <2>1 DEF Order, StatusFirst
  <2> QED
    BY <2>1, <2>2, MovesOn DEF Order
<1>2. ASSUME NEW e \in Ends, SendStatus(e) PROVE Order'
  BY <1>2, GreetingInOrder
<1>3. ASSUME NEW e \in Ends, RecvStatus(e) PROVE Order'
  BY <1>3, AcceptingInOrder
<1>4. ASSUME NEW e \in Ends, SendUpgrade(e) PROVE Order'
  BY <1>4, HandingOverInOrder
<1>5. ASSUME NEW e \in Ends, Flush(e) PROVE Order'
  BY <1>5, FlushInOrder
<1>6. ASSUME NEW e \in Ends, GethSendsUpgrade(e) PROVE Order'
  BY <1>6, GethSendsInOrder
<1>7. ASSUME NEW e \in Ends, RecvUpgrade(e) PROVE Order'
  BY <1>7, ReplyInOrder
<1>8. ASSUME NEW e \in Ends, RecvNothing(e) PROVE Order'
  BY <1>8, ReturnsInOrder DEF RecvNothing, Fail
<1>9. ASSUME NEW e \in Ends, Timeout(e) PROVE Order'
  BY <1>9, ReturnsInOrder DEF Timeout, Fail
<1>10. CASE Cut
  <2>1. UNCHANGED <<settings, phase, result, wire>> /\ open' = FALSE /\ broken' = TRUE
    BY <1>10 DEF Cut
  <2>2. \A x \in Ends : StatusFirst(x)'
    BY <2>1 DEF Order, StatusFirst
  <2>3. \A x \in Ends : Judged(x)'
    BY <2>1, VerdictStands DEF Order
  <2>4. Blame'
    BY <2>1 DEF Blame
  <2> QED
    BY <2>2, <2>3, <2>4 DEF Order
<1> QED
  BY <1>1, <1>2, <1>3, <1>4, <1>5, <1>6, <1>7, <1>8, <1>9, <1>10 DEF Next

\* Both invariants in every reachable state.
LEMMA Orderliness == Spec => [](Inv /\ Order)
<1>1. Init => Inv /\ Order
  BY InvInit, OrderInit
<1>2. Inv /\ Order /\ [Next]_vars => (Inv /\ Order)'
  BY InvNext, OrderNext
<1> QED
  BY <1>1, <1>2, PTL DEF Spec

-----------------------------------------------------------------------------
(* The forks: what fork_id folds and what the filter sorts *)

Nondecreasing(q) == \A i, j \in DOMAIN q : i <= j => q[i] <= q[j]

\* The values the fold of Folded goes through.
Folds(q, F) ==
  /\ F[0] = <<>>
  /\ \A i \in 1..Len(q) :
       F[i] = IF q[i] = Last(<<0>> \o F[i - 1]) THEN F[i - 1] ELSE Append(F[i - 1], q[i])

\* Folded goes through these values.
LEMMA FoldsExist ==
  ASSUME NEW q \in Seq(Nat)
  PROVE  \E F : Folds(q, F) /\ Folded(q) = F[Len(q)]
<1> DEFINE D == SUBSET (DOMAIN q)
           next(hash, x) == IF x = Last(<<0>> \o hash) THEN hash ELSE Append(hash, x)
           Sol(f) == f = [T \in D |-> IF T = {} THEN <<>>
                                      ELSE LET x == Max(T) IN
                                        IF q[x] = Last(<<0>> \o f[T \ {x}]) THEN f[T \ {x}]
                                        ELSE Append(f[T \ {x}], q[x])]
           step == [x \in Nat |-> [hash \in Seq(Nat) |-> next(hash, x)]]
           h == CHOOSE f : Sol(f)
           n == Len(q)
<1>0. DOMAIN q = 1..n /\ n \in Nat /\ \A i \in 1..n : q[i] \in Nat
  BY LenProperties, ElementOfSeq
<1>1. step \in [Nat -> [Seq(Nat) -> Seq(Nat)]]
  <2>1. \A x \in Nat, hash \in Seq(Nat) : next(hash, x) \in Seq(Nat)
    BY AppendProperties
  <2> HIDE DEF next
  <2> QED
    BY <2>1
<1>2. PICK f \in [D -> Seq(Nat)] : Accumulates(q, <<>>, step, f)
  <2> HIDE DEF step
  <2>1. <<>> \in Seq(Nat)
    OBVIOUS
  <2> QED
    BY <1>1, <2>1, FoldExists, Zenon
<1>3. ASSUME NEW T \in D
      PROVE  f[T] = IF T = {} THEN <<>> ELSE LET x == Max(T) IN next(f[T \ {x}], q[x])
  <2>1. CASE T # {}
    <3>1. Max(T) \in 1..n
      BY <1>0, <2>1, MaxPosition
    <3>2. T \ {Max(T)} \in D
      OBVIOUS
    <3>3. q[Max(T)] \in Nat /\ f[T \ {Max(T)}] \in Seq(Nat)
      BY <1>0, <1>2, <3>1, <3>2
    <3> HIDE DEF next
    <3>4. step[q[Max(T)]][f[T \ {Max(T)}]] = next(f[T \ {Max(T)}], q[Max(T)])
      BY <3>3
    <3> HIDE DEF step
    <3> QED
      BY <1>2, <2>1, <3>4 DEF Accumulates
  <2>2. CASE T = {}
    BY <1>2, <2>2 DEF Accumulates
  <2> QED
    BY <2>1, <2>2
<1>4. Sol(f)
  <2>1. f = [T \in D |-> f[T]]
    BY <1>2
  <2> QED
    BY <1>3, <2>1, Zenon
<1>5. Sol(h)
  <2> HIDE DEF Sol
  <2> QED
    BY <1>4
<1>6. Folded(q) = h[DOMAIN q]
  BY Zenon DEF Folded, FoldLeft, MapThenFoldSet
<1> HIDE DEF h
<1> DEFINE F == [i \in 0..n |-> h[1..i]]
<1>7. h[{}] = <<>>
  BY <1>5
<1>8. ASSUME NEW i \in 1..n
      PROVE  h[1..i] = next(h[1..(i - 1)], q[i])
  <2>1. Max(1..i) = i /\ (1..i) \ {i} = 1..(i - 1)
    BY MaxOfPrefix
  <2>2. 1..i \in D /\ 1..i # {}
    BY <1>0
  <2>3. h[1..i] = LET x == Max(1..i) IN next(h[(1..i) \ {x}], q[x])
    BY <1>5, <2>2, Zenon
  <2> HIDE DEF next
  <2> QED
    BY <2>1, <2>3
<1>9. F[0] = <<>> /\ \A i \in 1..n : F[i] = next(F[i - 1], q[i])
  <2>1. 1..0 = {} /\ 0 \in 0..n /\ \A i \in 1..n : i \in 0..n /\ i - 1 \in 0..n
    BY <1>0
  <2> HIDE DEF next
  <2> QED
    BY <1>7, <1>8, <2>1
<1>10. F[n] = Folded(q)
  BY <1>0, <1>6
<1> HIDE DEF F
<1>11. Folds(q, F)
  BY <1>9, Zenon DEF Folds
<1> QED
  BY <1>10, <1>11

\* What a fold has come to last.
LEMMA LastBehindZero ==
  ASSUME NEW s \in Seq(Nat)
  PROVE  Last(<<0>> \o s) = IF s = <<>> THEN 0 ELSE s[Len(s)]
<1>1. <<0>> \in Seq(Nat) /\ Len(<<0>>) = 1 /\ <<0>>[1] = 0
  OBVIOUS
<1>2. /\ Len(<<0>> \o s) = Len(s) + 1 /\ Len(s) \in Nat
      /\ \A i \in 1..(Len(s) + 1) : (<<0>> \o s)[i] = IF i <= 1 THEN <<0>>[i] ELSE s[i - 1]
  BY <1>1, ConcatProperties, LenProperties
<1>3. (<<0>> \o s)[Len(s) + 1] = IF Len(s) + 1 <= 1 THEN <<0>>[Len(s) + 1] ELSE s[(Len(s) + 1) - 1]
  BY <1>2
<1>4. s = <<>> <=> Len(s) = 0
  BY EmptySeq
<1> QED
  BY <1>1, <1>2, <1>3, <1>4 DEF Last

\* A value behind the others of an increasing sequence.
LEMMA IncreasingAppend ==
  ASSUME NEW s \in Seq(Nat), Increasing(s), NEW x \in Nat, \A y \in ToSet(s) : y < x
  PROVE  /\ Append(s, x) \in Seq(Nat) /\ Increasing(Append(s, x))
         /\ ToSet(Append(s, x)) = ToSet(s) \cup {x}
<1> DEFINE r == Append(s, x)
           n == Len(s)
<1>1. /\ n \in Nat /\ DOMAIN s = 1..n /\ r \in Seq(Nat) /\ DOMAIN r = 1..(n + 1)
      /\ r[n + 1] = x /\ \A i \in 1..n : r[i] = s[i]
  BY LenProperties, AppendProperties
<1> HIDE DEF r
<1>2. \A i \in 1..n : s[i] \in ToSet(s) /\ s[i] < x
  BY <1>1 DEF ToSet
<1>3. ASSUME NEW i \in DOMAIN r, NEW j \in DOMAIN r, i < j
      PROVE  r[i] < r[j]
  <2>1. i \in 1..n
    BY <1>1, <1>3
  <2>2. CASE j = n + 1
    BY <1>1, <1>2, <2>1, <2>2
  <2>3. CASE j # n + 1
    <3>1. j \in 1..n
      BY <1>1, <2>3
    <3> QED
      BY <1>1, <1>3, <2>1, <3>1 DEF Increasing
  <2> QED
    BY <2>2, <2>3
<1>4. ToSet(r) = ToSet(s) \cup {x}
  <2>1. \A y \in ToSet(r) : y \in ToSet(s) \cup {x}
    <3> TAKE y \in ToSet(r)
    <3>1. PICK i \in 1..(n + 1) : y = r[i]
      BY <1>1 DEF ToSet
    <3>2. i \in 1..n \/ i = n + 1
      BY <1>1
    <3> QED
      BY <1>1, <1>2, <3>1, <3>2
  <2>2. ToSet(s) \cup {x} \subseteq ToSet(r)
    <3>1. 1..n \subseteq 1..(n + 1) /\ n + 1 \in 1..(n + 1)
      BY <1>1
    <3> QED
      BY <1>1, <3>1 DEF ToSet
  <2> QED
    BY <2>1, <2>2
<1> QED
  BY <1>1, <1>3, <1>4 DEF r, Increasing

\* Of forks in order Folded keeps each once, except those in force since the genesis.
LEMMA FoldedKeepsOnce ==
  ASSUME NEW q \in Seq(Nat), Nondecreasing(q)
  PROVE  Folded(q) \in Seq(Nat) /\ Increasing(Folded(q)) /\ ToSet(Folded(q)) = ToSet(q) \ {0}
<1> DEFINE n == Len(q)
<1>0. DOMAIN q = 1..n /\ n \in Nat /\ \A i \in 1..n : q[i] \in Nat
  BY LenProperties, ElementOfSeq
<1>1. PICK F : Folds(q, F) /\ Folded(q) = F[n]
  BY FoldsExist
<1> DEFINE Good(i) == /\ F[i] \in Seq(Nat) /\ Increasing(F[i])
                      /\ ToSet(F[i]) = {q[j] : j \in 1..i} \ {0}
                      /\ Last(<<0>> \o F[i]) = IF i = 0 THEN 0 ELSE q[i]
           Bad == {i \in 0..n : ~Good(i)}
<1>2. Good(0)
  <2>1. F[0] = <<>> /\ <<>> \in Seq(Nat) /\ ToSet(<<>>) = {} /\ 1..0 = {} /\ Increasing(<<>>)
    BY <1>1 DEF Folds, ToSet, Increasing
  <2>2. Last(<<0>> \o <<>>) = 0
    BY <2>1, LastBehindZero
  <2> QED
    BY <2>1, <2>2
<1>3. ASSUME NEW i \in 1..n, Good(i - 1)
      PROVE  Good(i)
  <2> DEFINE s == F[i - 1]
             last == Last(<<0>> \o s)
  <2>1. F[i] = IF q[i] = last THEN s ELSE Append(s, q[i])
    BY <1>1 DEF Folds
  <2>2. s \in Seq(Nat) /\ Increasing(s) /\ ToSet(s) = {q[j] : j \in 1..(i - 1)} \ {0}
    BY <1>3
  <2>3. last = (IF i - 1 = 0 THEN 0 ELSE q[i - 1]) /\ last = IF s = <<>> THEN 0 ELSE s[Len(s)]
    BY <1>3, <2>2, LastBehindZero
  <2> HIDE DEF Good, s, last
  <2>4. \A j \in 1..(i - 1) : q[j] <= last
    <3>1. ASSUME NEW j \in 1..(i - 1)
          PROVE  q[j] <= last
      <4>1. i - 1 \in 1..n /\ j \in 1..n /\ i - 1 # 0 /\ j <= i - 1
        BY <1>0
      <4> QED
        BY <1>0, <2>3, <4>1 DEF Nondecreasing
    <3> QED
      BY <3>1
  <2>5. last \in Nat /\ last <= q[i] /\ q[i] \in Nat
    <3>1. i \in Nat /\ q[i] \in Nat /\ 0 <= q[i]
      BY <1>0
    <3>2. CASE i - 1 = 0
      BY <2>3, <3>1, <3>2
    <3>3. CASE i - 1 # 0
      <4>1. i - 1 \in 1..n /\ i \in 1..n /\ i - 1 <= i
        BY <1>0, <3>3
      <4>2. q[i - 1] <= q[i] /\ q[i - 1] \in Nat
        BY <1>0, <4>1 DEF Nondecreasing
      <4> QED
        BY <2>3, <3>1, <3>3, <4>2
    <3> QED
      BY <3>2, <3>3
  <2>6. {q[j] : j \in 1..i} = {q[j] : j \in 1..(i - 1)} \cup {q[i]}
    <3>1. 1..i = 1..(i - 1) \cup {i}
      BY <1>0
    <3> QED
      BY <3>1
  <2>7. CASE q[i] = last
    <3>1. F[i] = s
      BY <2>1, <2>7
    <3>2. q[i] # 0 => q[i] \in {q[j] : j \in 1..(i - 1)}
      <4> SUFFICES ASSUME q[i] # 0
                   PROVE  q[i] \in {q[j] : j \in 1..(i - 1)}
        OBVIOUS
      <4>1. i - 1 # 0 /\ q[i] = q[i - 1] /\ i - 1 \in 1..(i - 1)
        BY <1>0, <2>3, <2>7
      <4> QED
        BY <4>1
    <3>3. Last(<<0>> \o F[i]) = q[i] /\ i # 0
      BY <2>7, <3>1 DEF last
    <3> QED
      BY <2>2, <2>6, <3>1, <3>2, <3>3 DEF Good
  <2>8. CASE q[i] # last
    <3>1. F[i] = Append(s, q[i])
      BY <2>1, <2>8
    <3>2. \A y \in ToSet(s) : y < q[i]
      <4> TAKE y \in ToSet(s)
      <4>1. PICK j \in 1..(i - 1) : y = q[j]
        BY <2>2
      <4>2. y \in Nat /\ y <= last
        BY <1>0, <2>4, <4>1
      <4> QED
        BY <2>5, <2>8, <4>2
    <3>3. F[i] \in Seq(Nat) /\ Increasing(F[i]) /\ ToSet(F[i]) = ToSet(s) \cup {q[i]}
      BY <2>2, <2>5, <3>1, <3>2, IncreasingAppend
    <3>4. q[i] # 0 /\ i # 0
      BY <2>5, <2>8
    <3>5. Last(<<0>> \o F[i]) = q[i]
      <4>1. /\ Append(s, q[i]) # <<>> /\ Len(Append(s, q[i])) = Len(s) + 1
            /\ Append(s, q[i])[Len(s) + 1] = q[i]
        <5>1. s \in Seq(Nat) /\ q[i] \in Nat
          BY <2>2, <2>5
        <5>2. /\ Len(Append(s, q[i])) = Len(s) + 1 /\ Len(s) \in Nat
              /\ Append(s, q[i])[Len(s) + 1] = q[i]
          BY <5>1, AppendProperties, LenProperties
        <5>3. Append(s, q[i]) # <<>>
          BY <5>1, AppendProperties
        <5> QED
          BY <5>2, <5>3
      <4> QED
        BY <3>1, <3>3, <4>1, LastBehindZero
    <3> QED
      BY <2>2, <2>6, <3>3, <3>4, <3>5 DEF Good
  <2> QED
    BY <2>7, <2>8
<1>4. Good(n)
  <2> HIDE DEF Good
  <2> SUFFICES ASSUME Bad # {}
               PROVE  FALSE
    BY <1>0
  <2>1. Bad \in SUBSET Nat
    BY <1>0
  <2>2. PICK i \in Bad : \A k \in Bad : i <= k
    BY <2>1, LeastNatural
  <2>3. i \in 1..n /\ i - 1 \in 0..n
    BY <1>0, <1>2, <2>2
  <2>4. Good(i - 1)
    BY <2>2, <2>3
  <2> QED
    BY <1>3, <2>2, <2>3, <2>4
<1>5. {q[j] : j \in 1..n} = ToSet(q)
  BY <1>0 DEF ToSet
<1> QED
  BY <1>1, <1>4, <1>5

\* Sorted keeps them as well, whatever their order.
LEMMA SortedKeepsOnce ==
  ASSUME NEW q \in Seq(Nat)
  PROVE  Sorted(q) \in Seq(Nat) /\ Increasing(Sorted(q)) /\ ToSet(Sorted(q)) = ToSet(q) \ {0}
<1> DEFINE S == ToSet(q) \ {0}
           n == Cardinality(S)
           nth(i) == CHOOSE f \in S : Cardinality({g \in S : g <= f}) = i
<1>1. S \in SUBSET Nat /\ IsFiniteSet(S) /\ n \in Nat
  <2>0. DOMAIN q = 1..Len(q) /\ Len(q) \in Nat /\ \A i \in DOMAIN q : q[i] \in Nat
    BY LenProperties, ElementOfSeq
  <2>1. IsFiniteSet(DOMAIN q)
    BY <2>0, FS_Interval
  <2>2. ToSet(q) = {q[i] : i \in DOMAIN q} /\ ToSet(q) \in SUBSET Nat
    BY <2>0 DEF ToSet
  <2>3. IsFiniteSet({q[i] : i \in DOMAIN q})
    <3> DEFINE f == [i \in DOMAIN q |-> q[i]]
    <3>1. f \in Surjection(DOMAIN q, {q[i] : i \in DOMAIN q})
      BY DEF Surjection
    <3> QED
      BY <2>1, <3>1, FS_Surjection
  <2> QED
    BY <2>2, <2>3, FS_Subset, FS_CardinalityType
<1> HIDE DEF S
<1>2. Sorted(q) = [i \in 1..n |-> nth(i)]
  BY DEF Sorted, S
<1> DEFINE s == Sorted(q)
<1>3. ASSUME NEW i \in 1..n
      PROVE  s[i] \in S /\ Rank(S, s[i]) = i
  <2>1. \E f \in S : Rank(S, f) = i
    BY <1>1, RankIsOnto
  <2>2. \E f \in S : Cardinality({g \in S : g <= f}) = i
    BY <2>1 DEF Rank
  <2>3. nth(i) \in S /\ Cardinality({g \in S : g <= nth(i)}) = i
    BY <2>2, Zenon
  <2>4. s[i] = nth(i)
    BY <1>2
  <2> HIDE DEF nth
  <2> QED
    BY <2>3, <2>4 DEF Rank
<1> HIDE DEF nth
<1>4. s \in Seq(Nat) /\ DOMAIN s = 1..n
  <2>1. DOMAIN s = 1..n /\ s = [i \in 1..n |-> s[i]]
    BY <1>2
  <2> HIDE DEF s
  <2>2. s \in [1..n -> Nat]
    BY <1>1, <1>3, <2>1
  <2> QED
    BY <1>1, <2>1, <2>2
<1> HIDE DEF s, n
<1>5. ASSUME NEW i \in 1..n, NEW j \in 1..n, i < j
      PROVE  s[i] < s[j]
  <2>1. s[i] \in S /\ s[j] \in S /\ Rank(S, s[i]) = i /\ Rank(S, s[j]) = j
    BY <1>3
  <2>2. s[j] < s[i] => Rank(S, s[j]) < Rank(S, s[i])
    BY <1>1, <2>1, RankGrows
  <2>3. s[i] \in Nat /\ s[j] \in Nat
    BY <1>1, <2>1
  <2> QED
    BY <1>1, <1>5, <2>1, <2>2, <2>3
<1>6. ASSUME NEW x \in S
      PROVE  \E i \in 1..n : x = s[i]
  <2>1. Rank(S, x) \in 1..n
    BY <1>1, RankGrows DEF n
  <2>2. Rank(S, s[Rank(S, x)]) = Rank(S, x) /\ s[Rank(S, x)] \in S
    BY <1>3, <2>1
  <2>3. x = s[Rank(S, x)]
    BY <1>1, <2>1, <2>2, RankIsOnto DEF n
  <2> QED
    BY <2>1, <2>3
<1>7. ToSet(s) = S
  BY <1>3, <1>4, <1>6 DEF ToSet
<1>8. Increasing(s)
  BY <1>4, <1>5 DEF Increasing
<1> QED
  BY <1>4, <1>7, <1>8 DEF S, s

\* The first entries of a list.
LEMMA FirstEntries ==
  ASSUME NEW q \in Seq(Nat), NEW k \in 0..Len(q)
  PROVE  /\ SubSeq(q, 1, k) \in Seq(Nat) /\ Len(SubSeq(q, 1, k)) = k
         /\ \A i \in 1..k : SubSeq(q, 1, k)[i] = q[i]
<1>1. k \in Int /\ Len(q) \in Nat /\ 0 <= k /\ k <= Len(q)
  BY LenProperties
<1>2. \A i \in 1..k : q[i] \in Nat
  BY <1>1, ElementOfSeq
<1>3. /\ SubSeq(q, 1, k) \in Seq(Nat)
      /\ Len(SubSeq(q, 1, k)) = IF 1 <= k THEN k - 1 + 1 ELSE 0
      /\ \A i \in 1..(k - 1 + 1) : SubSeq(q, 1, k)[i] = q[1 + i - 1]
  BY <1>1, <1>2, SubSeqProperties
<1>4. k - 1 + 1 = k /\ \A i \in 1..k : 1 + i - 1 = i
  BY <1>1
<1> QED
  BY <1>1, <1>3, <1>4

\* All of its entries are the list.
LEMMA WholeList ==
  ASSUME NEW q \in Seq(Nat)
  PROVE  SubSeq(q, 1, Len(q)) = q
<1>1. Len(q) \in 0..Len(q)
  BY LenProperties
<1>2. /\ SubSeq(q, 1, Len(q)) \in Seq(Nat) /\ Len(SubSeq(q, 1, Len(q))) = Len(q)
      /\ \A i \in 1..Len(q) : SubSeq(q, 1, Len(q))[i] = q[i]
  BY <1>1, FirstEntries
<1> QED
  BY <1>2, SeqEqual

\* The entries that lie behind a position of the chain are a prefix of a list in order.
LEMMA ReachedIsPrefix ==
  ASSUME NEW q \in Seq(Nat), Nondecreasing(q), NEW p \in Nat
  PROVE  \E n \in 0..Len(q) : /\ Reached(q, p) = SubSeq(q, 1, n)
                              /\ Len(Reached(q, p)) = n
                              /\ \A i \in DOMAIN q : q[i] <= p <=> i <= n
<1> DEFINE I == {i \in 1..Len(q) : q[i] > p}
           ahead == IF I # {} THEN Min(I) ELSE 0
<1>0. DOMAIN q = 1..Len(q) /\ Len(q) \in Nat /\ \A i \in DOMAIN q : q[i] \in Nat
  BY LenProperties, ElementOfSeq
<1>1. Reached(q, p) = IF ahead = 0 THEN q ELSE SubSeq(q, 1, ahead - 1)
  BY Zenon DEF Reached, SelectInSeq
<1>2. CASE I = {}
  <2>1. Reached(q, p) = q
    BY <1>1, <1>2
  <2>2. \A i \in DOMAIN q : q[i] <= p /\ i <= Len(q)
    BY <1>0, <1>2
  <2>3. q = SubSeq(q, 1, Len(q))
    BY WholeList
  <2> DEFINE k == Len(q)
  <2>4. /\ k \in 0..Len(q) /\ Reached(q, p) = SubSeq(q, 1, k) /\ Len(Reached(q, p)) = k
        /\ \A i \in DOMAIN q : q[i] <= p <=> i <= k
    BY <1>0, <2>1, <2>2, <2>3
  <2> HIDE DEF k
  <2> QED
    BY <2>4
<1>3. CASE I # {}
  <2>1. I \in SUBSET Nat
    BY <1>0
  <2>2. \E i \in I : \A j \in I : i <= j
    BY <1>3, <2>1, LeastNatural
  <2>3. ahead \in I /\ \A j \in I : ahead <= j
    BY <1>3, <2>2 DEF Min
  <2> HIDE DEF ahead
  <2>4. ahead \in 1..Len(q) /\ q[ahead] > p /\ ahead - 1 \in 0..Len(q)
    BY <1>0, <2>3
  <2>5. Reached(q, p) = SubSeq(q, 1, ahead - 1)
    BY <1>1, <2>4
  <2>6. Len(SubSeq(q, 1, ahead - 1)) = ahead - 1
    BY <2>4, FirstEntries
  <2>7. ASSUME NEW i \in DOMAIN q
        PROVE  q[i] <= p <=> i <= ahead - 1
    <3>1. CASE i < ahead
      <4>1. i \notin I
        BY <1>0, <2>3, <3>1
      <4> QED
        BY <1>0, <2>4, <3>1, <4>1
    <3>2. CASE i >= ahead
      <4>1. q[ahead] <= q[i]
        BY <1>0, <2>4, <3>2 DEF Nondecreasing
      <4> QED
        BY <1>0, <2>4, <3>2, <4>1
    <3> QED
      BY <1>0, <2>4, <3>1, <3>2
  <2> DEFINE k == ahead - 1
  <2>8. k \in 0..Len(q) /\ Len(Reached(q, p)) = k /\ \A i \in DOMAIN q : q[i] <= p <=> i <= k
    BY <2>4, <2>5, <2>6, <2>7
  <2>9. Reached(q, p) = SubSeq(q, 1, k)
    BY <2>5
  <2> HIDE DEF I, k
  <2> QED
    BY <2>8, <2>9
<1> QED
  BY <1>2, <1>3

\* A prefix of a list in order is in order.
LEMMA PrefixInOrder ==
  ASSUME NEW q \in Seq(Nat), Nondecreasing(q), NEW n \in 0..Len(q)
  PROVE  /\ SubSeq(q, 1, n) \in Seq(Nat) /\ Nondecreasing(SubSeq(q, 1, n))
         /\ ToSet(SubSeq(q, 1, n)) = {q[i] : i \in 1..n}
<1> DEFINE r == SubSeq(q, 1, n)
<1>0. DOMAIN q = 1..Len(q) /\ Len(q) \in Nat
  BY LenProperties
<1>1. r \in Seq(Nat) /\ DOMAIN r = 1..n /\ \A i \in 1..n : r[i] = q[i]
  BY FirstEntries, LenProperties
<1> HIDE DEF r
<1>2. Nondecreasing(r)
  BY <1>0, <1>1 DEF Nondecreasing
<1>3. ToSet(r) = {q[i] : i \in 1..n}
  BY <1>1 DEF ToSet
<1> QED
  BY <1>1, <1>2, <1>3 DEF r

\* A list in order that stops short of an entry folds into the forks before it, and the
\* entry is the fork that follows them.
LEMMA FoldedPrefix ==
  ASSUME NEW q \in Seq(Nat), Nondecreasing(q), NEW n \in 0..(Len(q) - 1), q[n + 1] # 0,
         n # 0 => q[n] < q[n + 1]
  PROVE  LET all == Folded(q)
             k   == Len(Folded(SubSeq(q, 1, n)))
         IN  /\ k \in 0..(Len(all) - 1)
             /\ Folded(SubSeq(q, 1, n)) = SubSeq(all, 1, k)
             /\ all[k + 1] = q[n + 1]
<1> DEFINE all == Folded(q)
           r == Folded(SubSeq(q, 1, n))
           x == q[n + 1]
<1>0. DOMAIN q = 1..Len(q) /\ Len(q) \in Nat /\ n \in 0..Len(q) /\ \A i \in 1..Len(q) : q[i] \in Nat
  BY LenProperties, ElementOfSeq
<1>1. all \in Seq(Nat) /\ Increasing(all) /\ ToSet(all) = {q[i] : i \in 1..Len(q)} \ {0}
  BY <1>0, FoldedKeepsOnce DEF ToSet
<1>2. r \in Seq(Nat) /\ Increasing(r) /\ ToSet(r) = {q[i] : i \in 1..n} \ {0}
  BY <1>0, PrefixInOrder, FoldedKeepsOnce
<1> HIDE DEF all, r
<1>3. ToSet(r) \subseteq ToSet(all) /\ x \in ToSet(all) /\ x \in Nat
  <2>1. 1..n \subseteq 1..Len(q) /\ n + 1 \in 1..Len(q)
    BY <1>0
  <2> QED
    BY <1>0, <1>1, <1>2, <2>1
<1>4. \A y \in ToSet(r) : y \in Nat /\ y < x
  <2> TAKE y \in ToSet(r)
  <2>1. PICK i \in 1..n : y = q[i]
    BY <1>2
  <2>2. q[i] <= q[n] /\ n # 0 /\ n \in 1..Len(q) /\ i \in 1..Len(q)
    <3>1. n # 0 /\ n \in 1..Len(q) /\ i \in 1..Len(q) /\ i <= n
      BY <1>0, <2>1
    <3> QED
      BY <1>0, <3>1 DEF Nondecreasing
  <2> QED
    BY <1>0, <1>3, <2>1, <2>2
<1>5. \A y \in ToSet(all) : y \in Nat /\ (y \in ToSet(r) \/ x <= y)
  <2> TAKE y \in ToSet(all)
  <2>1. PICK i \in 1..Len(q) : y = q[i] /\ y # 0
    BY <1>1
  <2>2. CASE i <= n
    <3>1. i \in 1..n
      BY <2>2
    <3> QED
      BY <1>0, <1>2, <2>1, <3>1
  <2>3. CASE n < i
    <3>1. n + 1 \in 1..Len(q) /\ n + 1 <= i /\ i \in 1..Len(q)
      BY <1>0, <2>3
    <3>2. q[n + 1] <= q[i]
      BY <1>0, <3>1 DEF Nondecreasing
    <3> QED
      BY <2>1, <3>2
  <2> QED
    BY <1>0, <2>2, <2>3
<1>6. \A u \in ToSet(r), y \in ToSet(all) : y < u => y \in ToSet(r)
  <2> TAKE u \in ToSet(r), y \in ToSet(all)
  <2>1. u \in Nat /\ y \in Nat /\ u < x /\ (y \in ToSet(r) \/ x <= y)
    BY <1>4, <1>5
  <2> QED
    BY <1>3, <2>1
<1>7. /\ Len(r) <= Len(all) /\ r = SubSeq(all, 1, Len(r))
      /\ \A i \in DOMAIN all : all[i] \in ToSet(r) <=> i <= Len(r)
  BY <1>1, <1>2, <1>3, <1>6, IncreasingPrefix
<1>8. DOMAIN all = 1..Len(all) /\ Len(all) \in Nat /\ Len(r) \in Nat
  BY <1>1, <1>2, LenProperties
<1>9. PICK m \in DOMAIN all : all[m] = x
  BY <1>3 DEF ToSet
<1>10. x \notin ToSet(r)
  BY <1>3, <1>4
<1>11. m > Len(r) /\ Len(r) + 1 \in DOMAIN all
  BY <1>7, <1>8, <1>9, <1>10
<1>12. all[Len(r) + 1] \in ToSet(all) /\ all[Len(r) + 1] \notin ToSet(r)
  BY <1>7, <1>8, <1>11 DEF ToSet
<1>13. x <= all[Len(r) + 1] /\ all[Len(r) + 1] \in Nat
  BY <1>5, <1>12
<1>14. Len(r) + 1 = m
  <2>1. Len(r) + 1 < m => all[Len(r) + 1] < x
    BY <1>1, <1>9, <1>11 DEF Increasing
  <2> QED
    BY <1>3, <1>8, <1>9, <1>11, <1>13, <2>1
<1>15. Len(r) \in 0..(Len(all) - 1) /\ all[Len(r) + 1] = x
  BY <1>8, <1>9, <1>11, <1>14
<1> QED
  BY <1>7, <1>15 DEF all, r

\* One list behind another one, in order.
LEMMA ConcatInOrder ==
  ASSUME NEW q \in Seq(Nat), NEW r \in Seq(Nat), \A x \in ToSet(q), y \in ToSet(r) : x < y
  PROVE  /\ q \o r \in Seq(Nat) /\ Len(q \o r) = Len(q) + Len(r)
         /\ ToSet(q \o r) = ToSet(q) \cup ToSet(r)
         /\ Nondecreasing(q) /\ Nondecreasing(r) => Nondecreasing(q \o r)
         /\ Increasing(q) /\ Increasing(r) => Increasing(q \o r)
<1> DEFINE c == q \o r
           n == Len(q)
           m == Len(r)
<1>1. /\ n \in Nat /\ DOMAIN q = 1..n /\ (\A i \in 1..n : q[i] \in Nat)
      /\ m \in Nat /\ DOMAIN r = 1..m /\ (\A i \in 1..m : r[i] \in Nat)
  BY LenProperties, ElementOfSeq
<1>2. /\ c \in Seq(Nat) /\ Len(c) = n + m /\ DOMAIN c = 1..(n + m)
      /\ \A i \in 1..(n + m) : c[i] = IF i <= n THEN q[i] ELSE r[i - n]
  BY ConcatProperties, LenProperties
<1> HIDE DEF c, n, m
<1>3. ASSUME NEW i \in 1..(n + m)
      PROVE  \/ i \in 1..n /\ c[i] = q[i]
             \/ i > n /\ i - n \in 1..m /\ c[i] = r[i - n]
  BY <1>1, <1>2
<1>4. ASSUME NEW i \in 1..n, NEW j \in 1..m
      PROVE  q[i] < r[j]
  BY <1>1 DEF ToSet
<1>5. ToSet(c) = ToSet(q) \cup ToSet(r)
  <2>1. ASSUME NEW x \in ToSet(c)
        PROVE  x \in ToSet(q) \cup ToSet(r)
    <3>1. PICK i \in 1..(n + m) : x = c[i]
      BY <1>2 DEF ToSet
    <3> QED
      BY <1>1, <1>3, <3>1 DEF ToSet
  <2>2. ASSUME NEW x \in ToSet(q)
        PROVE  x \in ToSet(c)
    <3>1. PICK i \in 1..n : x = q[i]
      BY <1>1 DEF ToSet
    <3>2. i \in 1..(n + m) /\ c[i] = q[i]
      BY <1>1, <1>2
    <3> QED
      BY <1>2, <3>1, <3>2 DEF ToSet
  <2>3. ASSUME NEW x \in ToSet(r)
        PROVE  x \in ToSet(c)
    <3>1. PICK i \in 1..m : x = r[i]
      BY <1>1 DEF ToSet
    <3>2. i + n \in 1..(n + m) /\ c[i + n] = r[i]
      <4> DEFINE k == i + n
      <4>1. k \in 1..(n + m) /\ ~(k \in 1..n) /\ k - n = i
        BY <1>1
      <4> HIDE DEF k
      <4>2. c[k] = r[k - n]
        BY <1>3, <4>1
      <4> QED
        BY <4>1, <4>2 DEF k
    <3> QED
      BY <1>2, <3>1, <3>2 DEF ToSet
  <2>4. \A x : x \in ToSet(c) <=> x \in ToSet(q) \cup ToSet(r)
    BY <2>1, <2>2, <2>3
  <2> QED
    BY <2>4
<1>6. ASSUME Nondecreasing(q), Nondecreasing(r), NEW i \in 1..(n + m), NEW j \in 1..(n + m), i <= j
      PROVE  c[i] <= c[j]
  <2>1. CASE i \in 1..n /\ j \in 1..n
    <3>1. c[i] = q[i] /\ c[j] = q[j]
      BY <1>1, <1>3, <2>1
    <3> QED
      BY <1>1, <1>6, <2>1, <3>1 DEF Nondecreasing
  <2>2. CASE i \in 1..n /\ j - n \in 1..m
    <3>1. c[i] = q[i]
      BY <1>1, <1>3, <2>2
    <3>2. c[j] = r[j - n]
      BY <1>1, <1>3, <2>2
    <3>3. q[i] < r[j - n]
      BY <1>4, <2>2
    <3> QED
      BY <1>1, <2>2, <3>1, <3>2, <3>3
  <2>3. CASE i - n \in 1..m /\ j - n \in 1..m
    <3>1. c[i] = r[i - n] /\ c[j] = r[j - n] /\ i - n <= j - n
      BY <1>1, <1>2, <1>6, <2>3
    <3> QED
      BY <1>1, <1>6, <2>3, <3>1 DEF Nondecreasing
  <2> QED
    BY <1>1, <1>6, <2>1, <2>2, <2>3
<1>7. ASSUME Increasing(q), Increasing(r), NEW i \in 1..(n + m), NEW j \in 1..(n + m), i < j
      PROVE  c[i] < c[j]
  <2>1. CASE i \in 1..n /\ j \in 1..n
    <3>1. c[i] = q[i] /\ c[j] = q[j]
      BY <1>1, <1>3, <2>1
    <3> QED
      BY <1>1, <1>7, <2>1, <3>1 DEF Increasing
  <2>2. CASE i \in 1..n /\ j - n \in 1..m
    BY <1>1, <1>2, <1>4, <2>2
  <2>3. CASE i - n \in 1..m /\ j - n \in 1..m
    <3>1. c[i] = r[i - n] /\ c[j] = r[j - n] /\ i - n < j - n
      BY <1>1, <1>2, <1>7, <2>3
    <3> QED
      BY <1>1, <1>7, <2>3, <3>1 DEF Increasing
  <2> QED
    BY <1>1, <1>7, <2>1, <2>2, <2>3
<1> QED
  BY <1>2, <1>5, <1>6, <1>7 DEF c, n, m, Nondecreasing, Increasing

\* The filter, which keeps the block forks and the time forks apart, has the same forks in
\* the same order as a fork id that folds the whole list.
LEMMA FilterHoldsList ==
  ASSUME NEW q \in Seq(Nat), Nondecreasing(q), NEW r \in Seq(Nat), Nondecreasing(r),
         \A x \in ToSet(q), y \in ToSet(r) : x < y
  PROVE  /\ Sorted(q) \o Sorted(r) = Folded(q \o r)
         /\ Len(Folded(q \o r)) = Len(Sorted(q)) + Len(Sorted(r))
<1>1. /\ Sorted(q) \in Seq(Nat) /\ Increasing(Sorted(q)) /\ ToSet(Sorted(q)) = ToSet(q) \ {0}
      /\ Sorted(r) \in Seq(Nat) /\ Increasing(Sorted(r)) /\ ToSet(Sorted(r)) = ToSet(r) \ {0}
  BY SortedKeepsOnce
<1>2. \A x \in ToSet(Sorted(q)), y \in ToSet(Sorted(r)) : x < y
  BY <1>1
<1>3. /\ Sorted(q) \o Sorted(r) \in Seq(Nat) /\ Increasing(Sorted(q) \o Sorted(r))
      /\ Len(Sorted(q) \o Sorted(r)) = Len(Sorted(q)) + Len(Sorted(r))
      /\ ToSet(Sorted(q) \o Sorted(r)) = (ToSet(q) \cup ToSet(r)) \ {0}
  BY <1>1, <1>2, ConcatInOrder
<1>4. q \o r \in Seq(Nat) /\ Nondecreasing(q \o r) /\ ToSet(q \o r) = ToSet(q) \cup ToSet(r)
  BY ConcatInOrder
<1>5. /\ Folded(q \o r) \in Seq(Nat) /\ Increasing(Folded(q \o r))
      /\ ToSet(Folded(q \o r)) = ToSet(q \o r) \ {0}
  BY <1>4, FoldedKeepsOnce
<1> QED
  BY <1>3, <1>4, <1>5, SameIncreasing

\* The list of bsc_mainnet is in order: the forks by block number, all behind the fixed
\* head, and those by timestamp.
LEMMA ListInOrder ==
  LET block == bsc_mainnet.block
      time  == bsc_mainnet.time
  IN  /\ block \in Seq(Nat) /\ Nondecreasing(block) /\ \A x \in ToSet(block) : x <= 34140700
      /\ time \in Seq(Nat) /\ Nondecreasing(time)
      /\ \A x \in ToSet(time) : x > 1705996799 /\ x <= 1742436600
<1> DEFINE zeros == [i \in 1..11 |-> 0]
           mined == <<5184000, 13082000, 18907621, 21962149, 22107423, 23846001, 27281024,
                      29020050, 30720096, 31302048, 31302048, 31302048, 34140700>>
           time == <<1705996800, 1705996800, 1713419340, 1713419340, 1718863500,
                     1718863500, 1727316120, 1727317200, 1742436600, 1742436600>>
<1>1. bsc_mainnet.block = zeros \o mined /\ bsc_mainnet.time = time
  BY SMT DEF bsc_mainnet
<1>2. zeros \in Seq(Nat) /\ Len(zeros) = 11 /\ DOMAIN zeros = 1..11 /\ \A i \in 1..11 : zeros[i] = 0
  BY SMT
<1>3. mined \in Seq(Nat) /\ Len(mined) = 13 /\ DOMAIN mined = 1..13
  BY SMT
<1>4. \A i \in 1..13 : mined[i] > 0 /\ mined[i] <= 34140700
  BY SMT
<1>5. \A i, j \in 1..13 : i <= j => mined[i] <= mined[j]
  BY SMT
<1>6. time \in Seq(Nat) /\ Len(time) = 10 /\ DOMAIN time = 1..10
  BY SMT
<1>7. \A i \in 1..10 : time[i] > 1705996799 /\ time[i] <= 1742436600
  BY SMT
<1>8. \A i, j \in 1..10 : i <= j => time[i] <= time[j]
  BY SMT
<1> HIDE DEF zeros, mined, time
<1>9. /\ \A x \in ToSet(zeros) : x = 0
      /\ \A x \in ToSet(mined) : x > 0 /\ x <= 34140700
      /\ \A x \in ToSet(time) : x > 1705996799 /\ x <= 1742436600
  <2>1. \A x \in ToSet(zeros) : \E i \in 1..11 : x = zeros[i]
    BY <1>2, SMT DEF ToSet
  <2>2. \A x \in ToSet(mined) : \E i \in 1..13 : x = mined[i]
    BY <1>3, SMT DEF ToSet
  <2>3. \A x \in ToSet(time) : \E i \in 1..10 : x = time[i]
    BY <1>6, SMT DEF ToSet
  <2>4. \A x \in ToSet(zeros) : x = 0
    BY <1>2, <2>1, SMT
  <2>5. \A x \in ToSet(mined) : x > 0 /\ x <= 34140700
    BY <1>4, <2>2, SMT
  <2>6. \A x \in ToSet(time) : x > 1705996799 /\ x <= 1742436600
    BY <1>7, <2>3, SMT
  <2> QED
    BY <2>4, <2>5, <2>6, SMT
<1>10. Nondecreasing(zeros) /\ Nondecreasing(mined) /\ Nondecreasing(time)
  BY <1>2, <1>3, <1>5, <1>6, <1>8, SMT DEF Nondecreasing
<1>11. \A x \in ToSet(zeros), y \in ToSet(mined) : x < y
  BY <1>9, SMT
<1>12. /\ zeros \o mined \in Seq(Nat) /\ Nondecreasing(zeros \o mined)
       /\ ToSet(zeros \o mined) = ToSet(zeros) \cup ToSet(mined)
  BY <1>2, <1>3, <1>10, <1>11, ConcatInOrder, SMT
<1>13. \A x \in ToSet(zeros \o mined) : x <= 34140700
  BY <1>9, <1>12, SMT
<1> QED
  BY <1>1, <1>6, <1>9, <1>10, <1>12, <1>13, SMT

\* The schedule of an end that knows of the later fork.
ExtendedSchedule == [bsc_mainnet EXCEPT !.time = Append(@, LaterFork)]

\* A position of the chain that has not come to the later fork, or does not know of it.
Familiar(s, h) == s = bsc_mainnet \/ h.timestamp < LaterFork

\* Either schedule is in order, and the extended one has the later fork behind the rest.
LEMMA SchedulesInOrder ==
  ASSUME NEW s \in {bsc_mainnet, ExtendedSchedule}
  PROVE  /\ s.block = bsc_mainnet.block
         /\ s.time = IF s = bsc_mainnet THEN bsc_mainnet.time ELSE Append(bsc_mainnet.time, LaterFork)
         /\ s.time \in Seq(Nat) /\ Nondecreasing(s.time)
         /\ \A x \in ToSet(s.block), y \in ToSet(s.time) : x < y
         /\ \A y \in ToSet(s.time) : y # 0
<1> DEFINE block == bsc_mainnet.block
           time == bsc_mainnet.time
           later == Append(time, LaterFork)
<1>1. /\ block \in Seq(Nat) /\ \A x \in ToSet(block) : x \in Nat /\ x <= 34140700
      /\ time \in Seq(Nat) /\ Nondecreasing(time)
      /\ \A x \in ToSet(time) : x \in Nat /\ x > 1705996799 /\ x < LaterFork
      /\ LaterFork \in Nat
  <2>1. \A q \in Seq(Nat) : \A x \in ToSet(q) : x \in Nat
    BY ElementOfSeq, LenProperties DEF ToSet
  <2> QED
    BY <2>1, ListInOrder, HandshakeAssumption
<1>2. ExtendedSchedule.block = block /\ ExtendedSchedule.time = later
  BY DEF ExtendedSchedule, bsc_mainnet
<1>3. time # <<>> /\ 1 \in DOMAIN time
  BY DEF bsc_mainnet
<1>4. LaterFork > 1705996799
  <2>1. time[1] \in ToSet(time)
    BY <1>3 DEF ToSet
  <2> HIDE DEF time
  <2> QED
    BY <1>1, <2>1, SMT
<1> HIDE DEF block, time
<1>5. /\ <<LaterFork>> \in Seq(Nat) /\ Nondecreasing(<<LaterFork>>) /\ ToSet(<<LaterFork>>) = {LaterFork}
      /\ later = time \o <<LaterFork>>
  <2>1. <<LaterFork>> \in Seq(Nat) /\ DOMAIN <<LaterFork>> = {1} /\ <<LaterFork>>[1] = LaterFork
    BY <1>1
  <2>2. later = time \o <<LaterFork>>
    BY <1>1, AppendIsConcat
  <2> QED
    BY <1>1, <2>1, <2>2 DEF Nondecreasing, ToSet
<1>6. later \in Seq(Nat) /\ Nondecreasing(later) /\ ToSet(later) = ToSet(time) \cup {LaterFork}
  <2>1. \A x \in ToSet(time), y \in ToSet(<<LaterFork>>) : x < y
    <3>1. \A x \in ToSet(time) : x < LaterFork
      BY <1>1
    <3>2. ToSet(<<LaterFork>>) = {LaterFork}
      BY <1>5
    <3> SUFFICES ASSUME NEW x \in ToSet(time), NEW y \in {LaterFork}
                 PROVE  x < y
      BY <3>2
    <3>3. y = LaterFork
      OBVIOUS
    <3> QED
      BY <3>1, <3>3
  <2>2. time \in Seq(Nat) /\ Nondecreasing(time)
    BY <1>1
  <2> HIDE DEF later
  <2> QED
    BY <1>5, <2>1, <2>2, ConcatInOrder
<1>7. s # bsc_mainnet => s.block = block /\ s.time = later
  BY <1>2
<1>8. s = bsc_mainnet => s.block = block /\ s.time = time
  BY DEF block, time
<1> HIDE DEF later
<1>9. /\ \A x \in ToSet(block), y \in ToSet(time) : x < y
      /\ \A x \in ToSet(block), y \in ToSet(later) : x < y
      /\ (\A y \in ToSet(time) : y # 0) /\ \A y \in ToSet(later) : y # 0
  BY <1>1, <1>4, <1>6
<1>10. CASE s = bsc_mainnet
  <2>1. s.block = block /\ s.time = time
    BY <1>8, <1>10
  <2> QED
    BY <1>1, <1>9, <1>10, <2>1, SMT DEF block, time
<1>11. CASE s # bsc_mainnet
  <2>1. s.block = block /\ s.time = later
    BY <1>7, <1>11
  <2> QED
    BY <1>6, <1>9, <1>11, <2>1, SMT DEF block, time, later
<1> QED
  BY <1>10, <1>11

\* The forks of a schedule, each once.
AllForks(s) == Folded(s.block \o s.time)

\* The filter of a schedule holds its forks, and has at most those of the list behind it
\* unless its head has come to the later fork.
LEMMA FilterOfSchedule ==
  ASSUME NEW s \in {bsc_mainnet, ExtendedSchedule}, NEW h, h.number \in Nat, h.timestamp \in Nat
  PROVE  LET all    == Sorted(s.block) \o Sorted(s.time)
             passed == Len(Reached(Sorted(s.block), h.number)) + Len(Reached(Sorted(s.time), h.timestamp))
         IN  /\ all = AllForks(s) /\ AllForks(s) \in Seq(Nat)
             /\ AllForks(bsc_mainnet) \in Seq(Nat)
             /\ AllForks(s) = IF s = bsc_mainnet THEN AllForks(bsc_mainnet)
                              ELSE Append(AllForks(bsc_mainnet), LaterFork)
             /\ passed \in 0..Len(all)
             /\ Familiar(s, h) => passed <= Len(AllForks(bsc_mainnet))
             /\ h = head /\ s = bsc_mainnet => passed = Len(all)
<1> DEFINE q == s.block
           r == s.time
           m == bsc_mainnet.time
           bs == Sorted(q)
           ts == Sorted(r)
           ms == Sorted(m)
           all == bs \o ts
           main == AllForks(bsc_mainnet)
           rb == Len(Reached(bs, h.number))
           rt == Len(Reached(ts, h.timestamp))
<1>1. /\ q = bsc_mainnet.block /\ q \in Seq(Nat) /\ Nondecreasing(q)
      /\ r \in Seq(Nat) /\ Nondecreasing(r)
      /\ \A x \in ToSet(q), y \in ToSet(r) : x < y
  BY SchedulesInOrder, ListInOrder
<1>2. /\ m \in Seq(Nat) /\ Nondecreasing(m) /\ \A x \in ToSet(q), y \in ToSet(m) : x < y
  BY SchedulesInOrder, ListInOrder
<1>3. all = AllForks(s) /\ Len(all) = Len(bs) + Len(ts)
  BY <1>1, FilterHoldsList DEF AllForks
<1>4. bs \o ms = main /\ Len(main) = Len(bs) + Len(ms)
  BY <1>1, <1>2, FilterHoldsList DEF AllForks
<1>5. /\ bs \in Seq(Nat) /\ Increasing(bs) /\ ToSet(bs) = ToSet(q) \ {0}
      /\ ts \in Seq(Nat) /\ Increasing(ts) /\ ToSet(ts) = ToSet(r) \ {0}
      /\ ms \in Seq(Nat) /\ Increasing(ms) /\ ToSet(ms) = ToSet(m) \ {0}
  BY <1>1, <1>2, SortedKeepsOnce
<1>6. \A c \in Seq(Nat) : Increasing(c) => Nondecreasing(c)
  <2> SUFFICES ASSUME NEW c \in Seq(Nat), Increasing(c), NEW i \in DOMAIN c, NEW j \in DOMAIN c, i <= j
               PROVE  c[i] <= c[j]
    BY DEF Nondecreasing
  <2>1. i \in Nat /\ j \in Nat /\ c[i] \in Nat /\ c[j] \in Nat
    BY LenProperties, ElementOfSeq
  <2> QED
    BY <2>1 DEF Increasing
<1>7. s # bsc_mainnet => r = Append(m, LaterFork)
  BY SchedulesInOrder
<1>8. s = bsc_mainnet => r = m
  OBVIOUS
<1>9. \A x \in ToSet(m) : x \in Nat /\ x < LaterFork /\ LaterFork \in Nat
  <2>1. \A c \in Seq(Nat) : \A x \in ToSet(c) : x \in Nat
    BY ElementOfSeq, LenProperties DEF ToSet
  <2> QED
    BY <1>2, <2>1, HandshakeAssumption
<1>10. /\ rb \in 0..Len(bs) /\ rt \in 0..Len(ts)
       /\ \A i \in DOMAIN bs : bs[i] <= h.number <=> i <= rb
       /\ \A i \in DOMAIN ts : ts[i] <= h.timestamp <=> i <= rt
  <2>1. Nondecreasing(bs) /\ Nondecreasing(ts)
    BY <1>5, <1>6
  <2>2. rb \in 0..Len(bs) /\ \A i \in DOMAIN bs : bs[i] <= h.number <=> i <= rb
    <3> HIDE DEF bs
    <3>1. PICK n \in 0..Len(bs) : /\ Len(Reached(bs, h.number)) = n
                                  /\ \A i \in DOMAIN bs : bs[i] <= h.number <=> i <= n
      BY <1>5, <2>1, ReachedIsPrefix
    <3> QED
      BY <3>1
  <2>3. rt \in 0..Len(ts) /\ \A i \in DOMAIN ts : ts[i] <= h.timestamp <=> i <= rt
    <3> HIDE DEF ts
    <3>1. PICK n \in 0..Len(ts) : /\ Len(Reached(ts, h.timestamp)) = n
                                  /\ \A i \in DOMAIN ts : ts[i] <= h.timestamp <=> i <= n
      BY <1>5, <2>1, ReachedIsPrefix
    <3> QED
      BY <3>1
  <2> QED
    BY <2>2, <2>3
<1> HIDE DEF q, r, m, bs, ts, ms, all, main, rb, rt
<1>11. /\ Len(bs) \in Nat /\ Len(ts) \in Nat /\ Len(ms) \in Nat
       /\ DOMAIN bs = 1..Len(bs) /\ DOMAIN ts = 1..Len(ts) /\ DOMAIN ms = 1..Len(ms)
  BY <1>5, LenProperties
<1>12. all \in Seq(Nat) /\ main \in Seq(Nat)
  BY <1>5, <1>4, ConcatProperties DEF all
<1>13. LaterFork \in Nat
  BY HandshakeAssumption
<1>14. CASE s = bsc_mainnet
  <2>1. r = m /\ ts = ms /\ all = main
    BY <1>4, <1>8, <1>14 DEF all, ts, ms
  <2>2. rb + rt \in 0..Len(all) /\ rb + rt <= Len(main)
    BY <1>3, <1>4, <1>10, <1>11, <2>1
  <2>3. ASSUME h = head
        PROVE  rb + rt = Len(all)
    <3>1. /\ \A x \in ToSet(q) : x <= 34140700
          /\ \A x \in ToSet(m) : x <= 1742436600
      BY <1>1, ListInOrder DEF q, m
    <3>2. h.number = 40000000 /\ h.timestamp = 1742436600
      BY <2>3 DEF head
    <3>3. \A i \in 1..Len(bs) : bs[i] \in Nat /\ bs[i] <= h.number
      <4>1. \A i \in 1..Len(bs) : bs[i] \in ToSet(q) /\ bs[i] \in Nat
        <5>1. \A i \in 1..Len(bs) : bs[i] \in ToSet(bs)
          BY <1>11 DEF ToSet
        <5>2. \A i \in 1..Len(bs) : bs[i] \in Nat
          BY <1>5, ElementOfSeq
        <5> QED
          BY <1>5, <5>1, <5>2
      <4> QED
        BY <3>1, <3>2, <4>1
    <3>4. \A i \in 1..Len(ts) : ts[i] \in Nat /\ ts[i] <= h.timestamp
      <4>1. \A i \in 1..Len(ts) : ts[i] \in ToSet(m) /\ ts[i] \in Nat
        <5>1. \A i \in 1..Len(ts) : ts[i] \in ToSet(ts)
          BY <1>11 DEF ToSet
        <5>2. \A i \in 1..Len(ts) : ts[i] \in Nat
          BY <1>5, ElementOfSeq
        <5> QED
          BY <1>5, <2>1, <5>1, <5>2
      <4> QED
        BY <3>1, <3>2, <4>1
    <3>5. rb = Len(bs)
      <4>1. Len(bs) # 0 => Len(bs) <= rb
        BY <1>10, <1>11, <3>3
      <4>2. rb \in 0..Len(bs) /\ Len(bs) \in Nat
        BY <1>10, <1>11
      <4> QED
        BY <4>1, <4>2
    <3>6. rt = Len(ts)
      <4>1. Len(ts) # 0 => Len(ts) <= rt
        BY <1>10, <1>11, <3>4
      <4>2. rt \in 0..Len(ts) /\ Len(ts) \in Nat
        BY <1>10, <1>11
      <4> QED
        BY <4>1, <4>2
    <3> QED
      BY <1>3, <3>5, <3>6
  <2> QED
    BY <1>3, <1>12, <1>14, <2>1, <2>2, <2>3 DEF all, main, bs, ts, rb, rt, q, r
<1>15. CASE s # bsc_mainnet
  <2>1. ts = Append(ms, LaterFork) /\ all = Append(main, LaterFork)
    <3>1. \A y \in ToSet(ms) : y < LaterFork
      BY <1>5, <1>9
    <3>2. /\ Append(ms, LaterFork) \in Seq(Nat) /\ Increasing(Append(ms, LaterFork))
          /\ ToSet(Append(ms, LaterFork)) = ToSet(ms) \cup {LaterFork}
      BY <1>5, <1>13, <3>1, IncreasingAppend
    <3>3. ToSet(r) = ToSet(m) \cup {LaterFork} /\ LaterFork # 0
      <4>1. ToSet(Append(m, LaterFork)) = ToSet(m) \cup {LaterFork}
        <5>1. /\ Len(Append(m, LaterFork)) = Len(m) + 1 /\ Len(m) \in Nat /\ DOMAIN m = 1..Len(m)
              /\ DOMAIN Append(m, LaterFork) = 1..(Len(m) + 1)
              /\ Append(m, LaterFork)[Len(m) + 1] = LaterFork
              /\ \A i \in 1..Len(m) : Append(m, LaterFork)[i] = m[i]
          BY <1>2, <1>13, AppendProperties, LenProperties
        <5>2. 1..(Len(m) + 1) = 1..Len(m) \cup {Len(m) + 1}
          BY <5>1
        <5> QED
          BY <5>1, <5>2 DEF ToSet
      <4>2. LaterFork # 0
        BY <1>15, SchedulesInOrder, <4>1, <1>7 DEF r
      <4> QED
        BY <1>7, <1>15, <4>1, <4>2
    <3>4. ts = Append(ms, LaterFork)
      BY <1>5, <3>2, <3>3, SameIncreasing
    <3>5. bs \o Append(ms, LaterFork) = Append(bs \o ms, LaterFork)
      <4>1. bs \in Seq(Nat) /\ ms \in Seq(Nat) /\ LaterFork \in Nat
        BY <1>5, <1>13
      <4> HIDE DEF bs, ms
      <4> QED
        BY <4>1
    <3> QED
      BY <1>4, <3>4, <3>5 DEF all
  <2>2. Len(ts) = Len(ms) + 1 /\ ts[Len(ts)] = LaterFork /\ Len(ts) \in DOMAIN ts
    BY <1>5, <1>11, <1>13, <2>1, AppendProperties
  <2>3. rb + rt \in 0..Len(all)
    BY <1>3, <1>10, <1>11
  <2>4. ASSUME h.timestamp < LaterFork
        PROVE  rb + rt <= Len(main)
    <3>1. ~(Len(ts) <= rt)
      BY <1>10, <1>13, <2>2, <2>4
    <3> QED
      BY <1>4, <1>10, <1>11, <2>2, <3>1
  <2> QED
    BY <1>3, <1>12, <1>15, <2>1, <2>3, <2>4 DEF all, main, bs, ts, rb, rt, q, r, Familiar
<1> QED
  BY <1>14, <1>15

\* The fork id stops at the first fork the head has not come to, and names it; a head
\* behind all of them names none.
LEMMA ForkIdOfSchedule ==
  ASSUME NEW s \in {bsc_mainnet, ExtendedSchedule}, NEW h, h.number \in Nat, h.timestamp \in Nat
  PROVE  LET all  == AllForks(s)
             id   == fork_id(s, h)
             past == /\ \A x \in ToSet(s.block) : x <= h.number
                     /\ \A x \in ToSet(s.time) : x <= h.timestamp
         IN  /\ past => id.hash = all /\ id.next = 0
             /\ ~past => \E k \in 0..(Len(all) - 1) : id.hash = SubSeq(all, 1, k) /\ id.next = all[k + 1]
<1> DEFINE q == s.block
           r == s.time
           c == q \o r
           all == Folded(c)
           b == Reached(q, h.number)
           t == Reached(r, h.timestamp)
           id == fork_id(s, h)
<1>1. /\ q \in Seq(Nat) /\ Nondecreasing(q)
      /\ r \in Seq(Nat) /\ Nondecreasing(r)
      /\ \A x \in ToSet(q), y \in ToSet(r) : x < y
      /\ \A y \in ToSet(r) : y # 0
  BY SchedulesInOrder, ListInOrder
<1>2. id = IF b # q
             THEN [hash |-> Folded(b), next |-> q[Len(b) + 1]]
           ELSE IF t # r
             THEN [hash |-> Folded(b \o t), next |-> r[Len(t) + 1]]
           ELSE [hash |-> Folded(b \o t), next |-> 0]
  BY DEF fork_id
<1>3. PICK n \in 0..Len(q) : b = SubSeq(q, 1, n) /\ Len(b) = n /\ \A i \in DOMAIN q : q[i] <= h.number <=> i <= n
  BY <1>1, ReachedIsPrefix
<1>4. PICK m \in 0..Len(r) : t = SubSeq(r, 1, m) /\ Len(t) = m /\ \A i \in DOMAIN r : r[i] <= h.timestamp <=> i <= m
  BY <1>1, ReachedIsPrefix
<1> HIDE DEF q, r, b, t, id
<1>5. /\ Len(q) \in Nat /\ DOMAIN q = 1..Len(q) /\ (\A i \in 1..Len(q) : q[i] \in Nat /\ q[i] \in ToSet(q))
      /\ Len(r) \in Nat /\ DOMAIN r = 1..Len(r) /\ \A i \in 1..Len(r) : r[i] \in Nat /\ r[i] \in ToSet(r)
  BY <1>1, LenProperties, ElementOfSeq DEF ToSet
<1>6. /\ c \in Seq(Nat) /\ Nondecreasing(c) /\ Len(c) = Len(q) + Len(r)
      /\ \A i \in 1..(Len(q) + Len(r)) : c[i] = IF i <= Len(q) THEN q[i] ELSE r[i - Len(q)]
  BY <1>1, ConcatInOrder, ConcatProperties
<1> HIDE DEF c
<1>7. Len(q) \in Nat /\ Len(r) \in Nat /\ Len(c) = Len(q) + Len(r)
  BY <1>5, <1>6
<1>8. /\ \A i \in 1..Len(q) : c[i] = q[i]
      /\ \A i \in 1..Len(r) : c[Len(q) + i] = r[i]
  <2>1. ASSUME NEW i \in 1..Len(q)
        PROVE  c[i] = q[i]
    <3>1. i \in 1..(Len(q) + Len(r)) /\ i <= Len(q)
      BY <1>7
    <3> QED
      BY <1>6, <3>1
  <2>2. ASSUME NEW i \in 1..Len(r)
        PROVE  c[Len(q) + i] = r[i]
    <3>1. Len(q) + i \in 1..(Len(q) + Len(r)) /\ ~(Len(q) + i <= Len(q)) /\ (Len(q) + i) - Len(q) = i
      BY <1>7
    <3> QED
      BY <1>6, <3>1
  <2> QED
    BY <2>1, <2>2
<1>9. /\ n # Len(q) => n + 1 \in 1..Len(q) /\ n \in 0..(Len(c) - 1) /\ n \in 0..Len(c)
      /\ m # Len(r) => m + 1 \in 1..Len(r)
  BY <1>7
<1>10. n = Len(q) => b = q
  <2>1. SubSeq(q, 1, Len(q)) = q
    BY <1>1, WholeList
  <2> QED
    BY <1>3, <2>1
<1>11. m = Len(r) => t = r
  <2>1. SubSeq(r, 1, Len(r)) = r
    BY <1>1, WholeList
  <2> QED
    BY <1>4, <2>1
<1> DEFINE past == /\ \A x \in ToSet(q) : x <= h.number
                   /\ \A x \in ToSet(r) : x <= h.timestamp
           Stops == \E k \in 0..(Len(all) - 1) : id.hash = SubSeq(all, 1, k) /\ id.next = all[k + 1]
<1>12. past <=> n = Len(q) /\ m = Len(r)
  <2>1. (\A x \in ToSet(q) : x <= h.number) <=> n = Len(q)
    <3>1. n = Len(q) => \A i \in 1..Len(q) : q[i] <= h.number
      <4>1. \A i \in 1..Len(q) : i \in DOMAIN q /\ i <= Len(q)
        BY <1>5
      <4> QED
        BY <1>3, <4>1
    <3>2. n # Len(q) => n + 1 \in 1..Len(q) /\ ~(q[n + 1] <= h.number)
      <4>1. ~(n + 1 <= n)
        BY <1>7
      <4> QED
        BY <1>3, <1>5, <1>9, <4>1
    <3>3. \A x \in ToSet(q) : \E i \in 1..Len(q) : x = q[i]
      BY <1>5 DEF ToSet
    <3> QED
      BY <1>5, <3>1, <3>2, <3>3
  <2>2. (\A x \in ToSet(r) : x <= h.timestamp) <=> m = Len(r)
    <3>1. m = Len(r) => \A i \in 1..Len(r) : r[i] <= h.timestamp
      <4>1. \A i \in 1..Len(r) : i \in DOMAIN r /\ i <= Len(r)
        BY <1>5
      <4> QED
        BY <1>4, <4>1
    <3>2. m # Len(r) => m + 1 \in 1..Len(r) /\ ~(r[m + 1] <= h.timestamp)
      <4>1. ~(m + 1 <= m)
        BY <1>7
      <4> QED
        BY <1>4, <1>5, <1>9, <4>1
    <3>3. \A x \in ToSet(r) : \E i \in 1..Len(r) : x = r[i]
      BY <1>5 DEF ToSet
    <3> QED
      BY <1>5, <3>1, <3>2, <3>3
  <2> QED
    BY <2>1, <2>2
<1>13. ASSUME NEW k \in 0..(Len(c) - 1), c[k + 1] # 0, k # 0 => c[k] < c[k + 1],
              id.hash = Folded(SubSeq(c, 1, k)), id.next = c[k + 1]
       PROVE  Stops
  <2> DEFINE j == Len(Folded(SubSeq(c, 1, k)))
  <2>1. /\ j \in 0..(Len(all) - 1) /\ Folded(SubSeq(c, 1, k)) = SubSeq(all, 1, j)
        /\ all[j + 1] = c[k + 1]
    BY <1>6, <1>13, FoldedPrefix
  <2> HIDE DEF j, all
  <2> QED
    BY <1>13, <2>1
<1>14. CASE n = Len(q) /\ m = Len(r)
  <2>1. id = [hash |-> Folded(q \o r), next |-> 0]
    BY <1>2, <1>10, <1>11, <1>14
  <2>2. id.hash = all /\ id.next = 0
    BY <2>1 DEF c
  <2> QED
    BY <1>12, <1>14, <2>2 DEF q, r, c, id, AllForks
<1>15. CASE n # Len(q)
  <2>1. n + 1 \in 1..Len(q) /\ n \in 0..(Len(c) - 1) /\ n \in 0..Len(c)
    BY <1>9, <1>15
  <2>2. b # q /\ id.hash = Folded(b) /\ id.next = q[n + 1]
    BY <1>2, <1>3, <1>15
  <2>3. b = SubSeq(c, 1, n)
    <3>1. b \in Seq(Nat) /\ \A i \in 1..n : b[i] = q[i]
      BY <1>1, <1>3, FirstEntries
    <3>2. SubSeq(c, 1, n) \in Seq(Nat) /\ Len(SubSeq(c, 1, n)) = n /\ \A i \in 1..n : SubSeq(c, 1, n)[i] = c[i]
      BY <1>6, <2>1, FirstEntries
    <3>3. \A i \in 1..n : c[i] = q[i]
      BY <1>7, <1>8, <2>1
    <3> QED
      BY <1>3, <3>1, <3>2, <3>3, SeqEqual
  <2>4. n # 0 => n \in 1..Len(q) /\ c[n] = q[n]
    BY <1>7, <1>8, <2>1
  <2>5. c[n + 1] = q[n + 1]
    BY <1>8, <2>1
  <2>6. q[n + 1] > h.number /\ q[n + 1] \in Nat
    <3>1. ~(n + 1 <= n)
      BY <1>7
    <3>2. ~(q[n + 1] <= h.number) /\ q[n + 1] \in Nat
      BY <1>3, <1>5, <2>1, <3>1
    <3> QED
      BY <3>2
  <2>7. n # 0 => q[n] <= h.number /\ q[n] \in Nat
    <3>1. n # 0 => n \in DOMAIN q
      BY <1>5, <2>4
    <3>2. n <= n
      OBVIOUS
    <3> QED
      BY <1>3, <1>5, <2>4, <3>1, <3>2
  <2>8. c[n + 1] # 0 /\ (n # 0 => c[n] < c[n + 1])
    BY <2>4, <2>5, <2>6, <2>7
  <2>9. Stops
    BY <1>13, <2>1, <2>2, <2>3, <2>5, <2>8
  <2> QED
    BY <1>12, <1>15, <2>9 DEF q, r, c, id, AllForks
<1>16. CASE n = Len(q) /\ m # Len(r)
  <2> DEFINE k == n + m
  <2>1. m + 1 \in 1..Len(r) /\ k \in 0..(Len(c) - 1) /\ k \in 0..Len(c) /\ k \in Nat
    BY <1>7, <1>9, <1>16
  <2>2. t # r /\ b = q /\ id.hash = Folded(q \o t) /\ id.next = r[m + 1]
    BY <1>2, <1>4, <1>10, <1>16
  <2>3. q \o t = SubSeq(c, 1, k)
    <3>1. t \in Seq(Nat) /\ Len(t) = m /\ \A i \in 1..m : t[i] = r[i]
      BY <1>1, <1>4, FirstEntries
    <3>2. /\ q \o t \in Seq(Nat) /\ Len(q \o t) = Len(q) + m
          /\ \A i \in 1..(Len(q) + m) : (q \o t)[i] = IF i <= Len(q) THEN q[i] ELSE t[i - Len(q)]
      BY <1>1, <3>1, ConcatProperties
    <3>3. SubSeq(c, 1, k) \in Seq(Nat) /\ Len(SubSeq(c, 1, k)) = k /\ \A i \in 1..k : SubSeq(c, 1, k)[i] = c[i]
      <4> HIDE DEF k
      <4>1. c \in Seq(Nat)
        BY <1>6
      <4> QED
        BY <2>1, <4>1, FirstEntries
    <3>4. \A i \in 1..k : c[i] = (q \o t)[i]
      <4> TAKE i \in 1..k
      <4>1. i \in 1..(Len(q) + m)
        BY <1>16
      <4>2. CASE i <= Len(q)
        <5>1. i \in 1..Len(q)
          BY <1>7, <4>1, <4>2
        <5> QED
          BY <1>8, <3>2, <4>1, <4>2, <5>1
      <4>3. CASE ~(i <= Len(q))
        <5> DEFINE j == i - Len(q)
        <5>1. j \in 1..m /\ j \in 1..Len(r) /\ Len(q) + j = i
          BY <1>7, <4>1, <4>3
        <5>2. (q \o t)[i] = t[j]
          BY <3>2, <4>1, <4>3
        <5> HIDE DEF j
        <5>3. c[Len(q) + j] = r[j] /\ t[j] = r[j]
          BY <1>8, <3>1, <5>1
        <5> QED
          BY <5>1, <5>2, <5>3
      <4> QED
        BY <4>2, <4>3
    <3>5. Len(q \o t) = k
      BY <1>16, <3>2
    <3> HIDE DEF k
    <3> QED
      BY <3>2, <3>3, <3>4, <3>5, SeqEqual
  <2>4. c[k + 1] = r[m + 1]
    <3>1. k + 1 = Len(q) + (m + 1)
      BY <1>7, <1>16
    <3> QED
      BY <1>8, <2>1, <3>1
  <2>5. r[m + 1] > h.timestamp /\ r[m + 1] \in Nat /\ r[m + 1] # 0
    <3>1. ~(m + 1 <= m)
      BY <1>7
    <3>2. ~(r[m + 1] <= h.timestamp) /\ r[m + 1] \in Nat /\ r[m + 1] # 0
      BY <1>1, <1>4, <1>5, <2>1, <3>1
    <3> QED
      BY <3>2
  <2>6. k # 0 => c[k] < r[m + 1]
    <3>1. CASE m # 0
      <4>1. m \in 1..Len(r) /\ k = Len(q) + m
        BY <1>7, <1>16, <3>1
      <4>2. c[k] = r[m]
        BY <1>8, <4>1
      <4>3. m \in DOMAIN r /\ m <= m
        BY <1>5, <4>1
      <4>4. r[m] <= h.timestamp /\ r[m] \in Nat
        BY <1>4, <1>5, <4>1, <4>3
      <4>5. r[m] < r[m + 1]
        BY <2>5, <4>4
      <4> HIDE DEF k
      <4> QED
        BY <4>2, <4>5
    <3>2. CASE m = 0 /\ k # 0
      <4>1. Len(q) \in 1..Len(q) /\ k = Len(q)
        BY <1>7, <1>16, <3>2
      <4>2. c[k] = q[Len(q)]
        BY <1>8, <4>1
      <4> QED
        BY <1>1, <1>5, <2>1, <4>1, <4>2
    <3> QED
      BY <3>1, <3>2
  <2> HIDE DEF k
  <2>7. Stops
    BY <1>13, <2>1, <2>2, <2>3, <2>4, <2>5, <2>6
  <2> QED
    BY <1>12, <1>16, <2>7 DEF q, r, c, id, AllForks
<1> QED
  BY <1>14, <1>15, <1>16

\* A prefix of the forks of the list is the same prefix of the extended schedule's.
LEMMA SamePrefix ==
  ASSUME NEW q \in Seq(Nat), NEW x \in Nat, NEW k \in 0..Len(q)
  PROVE  SubSeq(Append(q, x), 1, k) = SubSeq(q, 1, k) /\ SubSeq(q, 1, Len(q)) = q
<1> DEFINE r == Append(q, x)
<1>1. /\ Len(q) \in Nat /\ r \in Seq(Nat) /\ Len(r) = Len(q) + 1
      /\ \A i \in 1..Len(q) : r[i] = q[i]
  BY AppendProperties
<1> HIDE DEF r
<1>2. /\ SubSeq(q, 1, k) \in Seq(Nat) /\ Len(SubSeq(q, 1, k)) = k /\ \A i \in 1..k : SubSeq(q, 1, k)[i] = q[i]
      /\ SubSeq(r, 1, k) \in Seq(Nat) /\ Len(SubSeq(r, 1, k)) = k /\ \A i \in 1..k : SubSeq(r, 1, k)[i] = r[i]
  <2>1. k \in 0..Len(r)
    BY <1>1
  <2> QED
    BY <1>1, <2>1, FirstEntries
<1>3. SubSeq(r, 1, k) = SubSeq(q, 1, k)
  BY <1>1, <1>2, SeqEqual
<1>4. SubSeq(q, 1, Len(q)) = q
  BY WholeList
<1> QED
  BY <1>3, <1>4 DEF r

\* The fixed head lies behind every fork of the list.
LEMMA HeadIsPast ==
  /\ head.number \in Nat /\ head.timestamp \in Nat /\ head.timestamp < LaterFork
  /\ \A x \in ToSet(bsc_mainnet.block) : x <= head.number
  /\ \A x \in ToSet(bsc_mainnet.time) : x <= head.timestamp
<1>1. /\ head.number = 40000000 /\ head.timestamp = 1742436600
      /\ head.number \in Nat /\ head.timestamp \in Nat
  BY DEF head
<1>2. \A q \in Seq(Nat) : \A x \in ToSet(q) : x \in Nat
  BY ElementOfSeq, LenProperties DEF ToSet
<1>3. 1742436600 \in ToSet(bsc_mainnet.time)
  <2>1. 10 \in DOMAIN bsc_mainnet.time /\ bsc_mainnet.time[10] = 1742436600
    BY DEF bsc_mainnet
  <2> QED
    BY <2>1 DEF ToSet
<1>4. 1742436600 < LaterFork
  BY <1>3, HandshakeAssumption
<1> QED
  BY <1>1, <1>2, <1>4, ListInOrder

\* A v3-node accepts the fork id of any head that has not come to the later fork.
LEMMA NodeWelcomes ==
  ASSUME NEW s \in {bsc_mainnet, ExtendedSchedule}, NEW h, h.number \in Nat, h.timestamp \in Nat,
         Familiar(s, h)
  PROVE  Accepts(bsc_mainnet, head, fork_id(s, h))
<1> DEFINE main == AllForks(bsc_mainnet)
           all == AllForks(s)
           id == fork_id(s, h)
           past == /\ \A x \in ToSet(s.block) : x <= h.number
                   /\ \A x \in ToSet(s.time) : x <= h.timestamp
           held == Sorted(bsc_mainnet.block) \o Sorted(bsc_mainnet.time)
           passed == Len(Reached(Sorted(bsc_mainnet.block), head.number))
                       + Len(Reached(Sorted(bsc_mainnet.time), head.timestamp))
<1>1. held = main /\ main \in Seq(Nat) /\ passed = Len(main)
  BY HeadIsPast, FilterOfSchedule
<1>2. /\ all \in Seq(Nat) /\ all = IF s = bsc_mainnet THEN main ELSE Append(main, LaterFork)
  BY FilterOfSchedule
<1>3. /\ past => id.hash = all /\ id.next = 0
      /\ ~past => \E k \in 0..(Len(all) - 1) : id.hash = SubSeq(all, 1, k) /\ id.next = all[k + 1]
  BY ForkIdOfSchedule
<1>4. s # bsc_mainnet => ~past
  <2> SUFFICES ASSUME s # bsc_mainnet, past
               PROVE  FALSE
    OBVIOUS
  <2>1. s.time = Append(bsc_mainnet.time, LaterFork) /\ bsc_mainnet.time \in Seq(Nat) /\ LaterFork \in Nat
    <3>1. s.time = Append(bsc_mainnet.time, LaterFork)
      BY SchedulesInOrder
    <3>2. bsc_mainnet.time \in Seq(Nat)
      BY ListInOrder, SMT
    <3> QED
      BY <3>1, <3>2, HandshakeAssumption
  <2>2. LaterFork \in ToSet(s.time)
    <3>1. /\ Append(bsc_mainnet.time, LaterFork)[Len(bsc_mainnet.time) + 1] = LaterFork
          /\ Len(bsc_mainnet.time) + 1 \in DOMAIN Append(bsc_mainnet.time, LaterFork)
      BY <2>1, AppendProperties, LenProperties
    <3> QED
      BY <2>1, <3>1 DEF ToSet
  <2> QED
    BY <2>1, <2>2 DEF Familiar
<1>5. Len(main) \in Nat /\ LaterFork \in Nat
  BY <1>1, LenProperties, HandshakeAssumption
<1>6. Accepts(bsc_mainnet, head, id) <=>
        \/ /\ id.hash = SubSeq(main, 1, Len(main))
           /\ id.next = 0 \/ ~Passed(head, id.next)
        \/ \E n \in 0..(Len(main) - 1) : id.hash = SubSeq(main, 1, n) /\ id.next = main[n + 1]
        \/ \E n \in (Len(main) + 1)..Len(main) : id.hash = SubSeq(main, 1, n)
  BY <1>1 DEF Accepts
<1> HIDE DEF main, all, id, past, held, passed
<1>7. CASE s = bsc_mainnet
  <2>1. all = main /\ SubSeq(main, 1, Len(main)) = main
    BY <1>1, <1>2, <1>5, <1>7, SamePrefix
  <2> QED
    BY <1>3, <1>6, <2>1 DEF id
<1>8. CASE s # bsc_mainnet
  <2>1. all = Append(main, LaterFork) /\ Len(all) = Len(main) + 1 /\ all[Len(main) + 1] = LaterFork
    BY <1>1, <1>2, <1>5, <1>8, AppendProperties
  <2>2. PICK k \in 0..(Len(all) - 1) : id.hash = SubSeq(all, 1, k) /\ id.next = all[k + 1]
    BY <1>3, <1>4, <1>8
  <2>3. k \in 0..Len(main) /\ id.hash = SubSeq(main, 1, k)
    BY <1>1, <1>5, <2>1, <2>2, SamePrefix
  <2>4. CASE k = Len(main)
    <3>1. id.next = LaterFork
      BY <2>1, <2>2, <2>4
    <3>2. ~Passed(head, LaterFork)
      <4>1. LaterFork > OldestTime
        BY <1>5, HeadIsPast DEF OldestTime, head
      <4> QED
        BY <1>5, <4>1, HeadIsPast DEF Passed
    <3> QED
      BY <1>6, <2>3, <2>4, <3>1, <3>2 DEF id
  <2>5. CASE k # Len(main)
    <3>1. k \in 0..(Len(main) - 1) /\ k + 1 \in 1..Len(main)
      BY <1>5, <2>3, <2>5
    <3>2. all[k + 1] = main[k + 1]
      BY <1>1, <1>5, <2>1, <3>1, AppendProperties
    <3> QED
      BY <1>6, <2>2, <2>3, <3>1, <3>2 DEF id
  <2> QED
    BY <2>4, <2>5
<1> QED
  BY <1>7, <1>8

\* And the fork id of a v3-node is accepted by any such head.
LEMMA NodeIsWelcome ==
  ASSUME NEW s \in {bsc_mainnet, ExtendedSchedule}, NEW h, h.number \in Nat, h.timestamp \in Nat,
         Familiar(s, h)
  PROVE  Accepts(s, h, fork_id(bsc_mainnet, head))
<1> DEFINE main == AllForks(bsc_mainnet)
           all == AllForks(s)
           id == fork_id(bsc_mainnet, head)
           held == Sorted(s.block) \o Sorted(s.time)
           passed == Len(Reached(Sorted(s.block), h.number))
                       + Len(Reached(Sorted(s.time), h.timestamp))
<1>1. id.hash = main /\ id.next = 0
  BY HeadIsPast, ForkIdOfSchedule
<1>2. /\ held = all /\ all \in Seq(Nat) /\ main \in Seq(Nat)
      /\ all = IF s = bsc_mainnet THEN main ELSE Append(main, LaterFork)
      /\ passed \in 0..Len(all) /\ passed <= Len(main)
  BY FilterOfSchedule
<1>3. Len(main) \in Nat /\ LaterFork \in Nat
  BY <1>2, LenProperties, HandshakeAssumption
<1>4. Accepts(s, h, id) <=>
        \/ /\ id.hash = SubSeq(all, 1, passed)
           /\ id.next = 0 \/ ~Passed(h, id.next)
        \/ \E n \in 0..(passed - 1) : id.hash = SubSeq(all, 1, n) /\ id.next = all[n + 1]
        \/ \E n \in (passed + 1)..Len(all) : id.hash = SubSeq(all, 1, n)
  BY <1>2 DEF Accepts
<1> HIDE DEF main, all, id, held, passed
<1>5. SubSeq(all, 1, Len(main)) = main /\ Len(main) <= Len(all)
  <2>1. SubSeq(main, 1, Len(main)) = main /\ SubSeq(Append(main, LaterFork), 1, Len(main)) = SubSeq(main, 1, Len(main))
    BY <1>2, <1>3, SamePrefix
  <2>2. Len(Append(main, LaterFork)) = Len(main) + 1
    BY <1>2, <1>3, AppendProperties
  <2> QED
    BY <1>2, <1>3, <2>1, <2>2
<1>6. CASE passed = Len(main)
  BY <1>1, <1>4, <1>5, <1>6 DEF id
<1>7. CASE passed < Len(main)
  <2>1. Len(main) \in (passed + 1)..Len(all)
    BY <1>2, <1>3, <1>5, <1>7, LenProperties
  <2> QED
    BY <1>1, <1>4, <1>5, <2>1 DEF id
<1> QED
  BY <1>2, <1>3, <1>6, <1>7

\* A head that has come to the later fork is accepted by no filter of the list.
LEMMA ForeignerIsRefused ==
  ASSUME NEW h \in Heads, h.timestamp >= LaterFork, NEW g, g.number \in Nat, g.timestamp \in Nat
  PROVE  ~Accepts(bsc_mainnet, g, fork_id(ExtendedSchedule, h))
<1> DEFINE s == ExtendedSchedule
           main == AllForks(bsc_mainnet)
           all == AllForks(s)
           id == fork_id(s, h)
           held == Sorted(bsc_mainnet.block) \o Sorted(bsc_mainnet.time)
           passed == Len(Reached(Sorted(bsc_mainnet.block), g.number))
                       + Len(Reached(Sorted(bsc_mainnet.time), g.timestamp))
<1>1. h.number \in Nat /\ h.timestamp \in Nat /\ LaterFork \in Nat
  BY HandshakeAssumption
<1>2. s # bsc_mainnet
  <2>1. Len(s.time) = Len(bsc_mainnet.time) + 1 /\ Len(bsc_mainnet.time) \in Nat
    <3>1. s.time = Append(bsc_mainnet.time, LaterFork)
      BY DEF ExtendedSchedule, bsc_mainnet
    <3> QED
      BY <1>1, <3>1, ListInOrder, AppendProperties, LenProperties
  <2> QED
    BY <2>1
<1>3. id.hash = all
  <2>1. \A x \in ToSet(s.block) : x <= h.number
    BY SchedulesInOrder, HandshakeAssumption
  <2>2. \A x \in ToSet(s.time) : x <= h.timestamp
    <3>1. s.time = Append(bsc_mainnet.time, LaterFork)
      BY <1>2, SchedulesInOrder
    <3>2. \A q \in Seq(Nat) : \A x \in ToSet(q) : x \in Nat
      BY ElementOfSeq, LenProperties DEF ToSet
    <3>3. \A x \in ToSet(Append(bsc_mainnet.time, LaterFork)) : x \in ToSet(bsc_mainnet.time) \/ x = LaterFork
      <4> DEFINE q == bsc_mainnet.time
      <4>0. q \in Seq(Nat)
        BY ListInOrder
      <4> HIDE DEF q
      <4>1. /\ Len(q) \in Nat /\ DOMAIN q = 1..Len(q) /\ DOMAIN Append(q, LaterFork) = 1..(Len(q) + 1)
            /\ Append(q, LaterFork)[Len(q) + 1] = LaterFork
            /\ \A i \in 1..Len(q) : Append(q, LaterFork)[i] = q[i]
        BY <1>1, <4>0, AppendProperties, LenProperties
      <4>2. 1..(Len(q) + 1) = 1..Len(q) \cup {Len(q) + 1}
        BY <4>1
      <4>3. \A x \in ToSet(Append(q, LaterFork)) : x \in ToSet(q) \/ x = LaterFork
        BY <4>1, <4>2 DEF ToSet
      <4> QED
        BY <4>3 DEF q
    <3>4. \A x \in ToSet(bsc_mainnet.time) : x \in Nat /\ x < LaterFork
      BY <3>2, ListInOrder, HandshakeAssumption
    <3> QED
      BY <1>1, <3>1, <3>3, <3>4
  <2> QED
    BY <1>1, <2>1, <2>2, ForkIdOfSchedule
<1>4. all = Append(main, LaterFork) /\ main \in Seq(Nat)
  BY <1>1, <1>2, FilterOfSchedule
<1>5. held = main /\ passed \in 0..Len(main)
  BY FilterOfSchedule
<1>6. Len(main) \in Nat /\ Len(all) = Len(main) + 1
  BY <1>1, <1>4, AppendProperties, LenProperties
<1>7. Accepts(bsc_mainnet, g, id) => \E n \in 0..Len(main) : id.hash = SubSeq(main, 1, n)
  <2>1. Accepts(bsc_mainnet, g, id) =>
          \/ id.hash = SubSeq(main, 1, passed)
          \/ \E n \in 0..(passed - 1) : id.hash = SubSeq(main, 1, n)
          \/ \E n \in (passed + 1)..Len(main) : id.hash = SubSeq(main, 1, n)
    BY <1>5 DEF Accepts
  <2> HIDE DEF main, id, passed, held
  <2>2. 0..(passed - 1) \subseteq 0..Len(main) /\ (passed + 1)..Len(main) \subseteq 0..Len(main)
    BY <1>5, <1>6
  <2> QED
    BY <1>5, <2>1, <2>2
<1> HIDE DEF main, all, id, passed, held
<1>8. \A n \in 0..Len(main) : all # SubSeq(main, 1, n)
  <2> TAKE n \in 0..Len(main)
  <2>1. Len(SubSeq(main, 1, n)) = n
    BY <1>4, <1>6, SubSeqProperties
  <2> QED
    BY <1>6, <2>1
<1> QED
  BY <1>3, <1>7, <1>8 DEF id

-----------------------------------------------------------------------------
(* The two ends, on their forks *)

\* What was settled before the handshake: an end knows the forks of the list, and a geth
\* perhaps the later one; a v3-node is at the fixed head.
Settings ==
  /\ schedule \in [Ends -> {bsc_mainnet, ExtendedSchedule}]
  /\ at \in [Ends -> Heads \cup {head}]
  /\ \A e \in Nodes : schedule[e] = bsc_mainnet /\ at[e] = head

\* It never changes.
LEMMA SettingsStand == Spec => []Settings
<1>1. Init => Settings
  <2> SUFFICES ASSUME Init
               PROVE  Settings
    OBVIOUS
  <2>1. \A e \in Ends : Known(e) \subseteq {bsc_mainnet, ExtendedSchedule}
    BY DEF Known, ExtendedSchedule
  <2>2. schedule \in [Ends -> UNION {Known(e) : e \in Ends}] /\ \A e \in Ends : schedule[e] \in Known(e)
    BY DEF Init
  <2>3. schedule \in [Ends -> {bsc_mainnet, ExtendedSchedule}]
    BY <2>1, <2>2
  <2>4. \A e \in Nodes : schedule[e] = bsc_mainnet
    BY <2>2, HandshakeAssumption DEF Known
  <2>5. at \in [Ends -> Heads \cup {head}] /\ \A e \in Nodes : at[e] = head
    BY DEF Init
  <2> QED
    BY <2>3, <2>4, <2>5 DEF Settings
<1>2. Settings /\ [Next]_vars => Settings'
  <2> SUFFICES ASSUME Settings, [Next]_vars
               PROVE  Settings'
    OBVIOUS
  <2>1. UNCHANGED settings
    BY DEF Next, vars, SendStatus, RecvStatus, SendUpgrade, Flush, GethSendsUpgrade,
           RecvUpgrade, RecvNothing, Timeout, Cut
  <2> QED
    BY <2>1 DEF Settings, settings
<1> QED
  BY <1>1, <1>2, PTL DEF Spec

\* The forks of two ends differ by the later fork at most: one is foreign to the other if
\* it has come to the later fork and the other does not know of it.
LEMMA ForeignMeansLater ==
  ASSUME Settings, NEW e \in Ends
  PROVE  /\ Foreign(e) => /\ schedule[e] = ExtendedSchedule /\ schedule[Other(e)] = bsc_mainnet
                          /\ at[e] \in Heads /\ at[e].timestamp >= LaterFork
         /\ ~Foreign(e) /\ schedule[Other(e)] = bsc_mainnet => Familiar(schedule[e], at[e])
<1> DEFINE q == bsc_mainnet.time
           r == ExtendedSchedule.time
<1>1. /\ schedule[e] \in {bsc_mainnet, ExtendedSchedule} /\ at[e] \in Heads \cup {head}
      /\ schedule[Other(e)] \in {bsc_mainnet, ExtendedSchedule}
  BY TwoEnds DEF Settings
<1>2. /\ at[e].timestamp \in Nat /\ LaterFork \in Nat /\ ~(head.timestamp >= LaterFork)
      /\ head.timestamp \in Nat
  BY <1>1, HandshakeAssumption, HeadIsPast
<1>3. ToSet(r) = ToSet(q) \cup {LaterFork} /\ LaterFork \notin ToSet(q)
  <2>1. q \in Seq(Nat) /\ r = Append(q, LaterFork)
    <3>1. r = Append(q, LaterFork)
      BY DEF ExtendedSchedule, bsc_mainnet
    <3> QED
      BY <3>1, ListInOrder
  <2>2. LaterFork \notin ToSet(q)
    BY HandshakeAssumption
  <2> HIDE DEF q, r
  <2>3. /\ Len(q) \in Nat /\ DOMAIN q = 1..Len(q) /\ DOMAIN r = 1..(Len(q) + 1)
        /\ r[Len(q) + 1] = LaterFork /\ \A i \in 1..Len(q) : r[i] = q[i]
    BY <1>2, <2>1, AppendProperties, LenProperties
  <2>4. 1..(Len(q) + 1) = 1..Len(q) \cup {Len(q) + 1}
    BY <2>3
  <2> QED
    BY <2>2, <2>3, <2>4 DEF ToSet
<1>4. Foreign(e) <=> \E f \in ToSet(schedule[e].time) \ ToSet(schedule[Other(e)].time) : at[e].timestamp >= f
  BY DEF Foreign
<1>5. bsc_mainnet.time = q /\ ExtendedSchedule.time = r
  OBVIOUS
<1> HIDE DEF q, r
<1>6. ASSUME Foreign(e)
      PROVE  /\ schedule[e] = ExtendedSchedule /\ schedule[Other(e)] = bsc_mainnet
             /\ at[e] \in Heads /\ at[e].timestamp >= LaterFork
  <2>1. PICK f \in ToSet(schedule[e].time) \ ToSet(schedule[Other(e)].time) : at[e].timestamp >= f
    BY <1>4, <1>6
  <2>2. schedule[e] = ExtendedSchedule /\ schedule[Other(e)] = bsc_mainnet /\ f = LaterFork
    BY <1>1, <1>3, <1>5, <2>1
  <2>3. at[e] # head
    BY <1>2, <2>1, <2>2
  <2> QED
    BY <1>1, <2>1, <2>2, <2>3
<1>7. ASSUME ~Foreign(e), schedule[Other(e)] = bsc_mainnet
      PROVE  Familiar(schedule[e], at[e])
  <2>1. CASE schedule[e] = bsc_mainnet
    BY <2>1 DEF Familiar
  <2>2. CASE schedule[e] = ExtendedSchedule
    <3>1. LaterFork \in ToSet(schedule[e].time) \ ToSet(schedule[Other(e)].time)
      BY <1>3, <1>5, <1>7, <2>2
    <3>2. ~(at[e].timestamp >= LaterFork)
      BY <1>4, <1>7, <3>1
    <3> QED
      BY <1>2, <3>2 DEF Familiar
  <2> QED
    BY <1>1, <2>1, <2>2
<1> QED
  BY <1>6, <1>7

\* The status of a foreigner is not welcome.
LEMMA ForeignerUnwelcome ==
  ASSUME Settings, NEW e \in Ends, Foreign(e)
  PROVE  ~Welcome(Other(e), Status(e))
<1>1. /\ schedule[e] = ExtendedSchedule /\ schedule[Other(e)] = bsc_mainnet
      /\ at[e] \in Heads /\ at[e].timestamp >= LaterFork
  BY ForeignMeansLater
<1>2. at[Other(e)].number \in Nat /\ at[Other(e)].timestamp \in Nat
  <2>1. at[Other(e)] \in Heads \cup {head}
    BY TwoEnds DEF Settings
  <2> QED
    BY <2>1, HandshakeAssumption, HeadIsPast
<1>3. ~Accepts(bsc_mainnet, at[Other(e)], fork_id(ExtendedSchedule, at[e]))
  BY <1>1, <1>2, ForeignerIsRefused
<1> QED
  BY <1>1, <1>3 DEF Welcome, Status

\* A v3-node and a geth that are not foreign to each other welcome each other.
LEMMA CompatibleWelcome ==
  ASSUME Settings, NEW n \in Nodes, \A e \in Ends : ~Foreign(e)
  PROVE  \A e \in Ends : Welcome(e, Status(Other(e)))
<1> DEFINE o == Other(n)
<1>1. n \in Ends /\ o \in Ends /\ Other(o) = n /\ \A x \in Ends : x = n \/ x = o
  BY HandshakeAssumption, TwoEnds
<1>2. schedule[n] = bsc_mainnet /\ at[n] = head
  BY DEF Settings
<1>3. schedule[o] \in {bsc_mainnet, ExtendedSchedule} /\ at[o].number \in Nat /\ at[o].timestamp \in Nat
  <2>1. schedule[o] \in {bsc_mainnet, ExtendedSchedule} /\ at[o] \in Heads \cup {head}
    BY <1>1 DEF Settings
  <2> QED
    BY <2>1, HandshakeAssumption, HeadIsPast
<1>4. Familiar(schedule[o], at[o])
  BY <1>1, <1>2, ForeignMeansLater
<1>5. Welcome(n, Status(o))
  <2>1. Accepts(bsc_mainnet, head, fork_id(schedule[o], at[o]))
    BY <1>3, <1>4, NodeWelcomes
  <2> QED
    BY <1>2, <2>1 DEF Welcome, Status
<1>6. Welcome(o, Status(n))
  <2>1. Accepts(schedule[o], at[o], fork_id(bsc_mainnet, head))
    BY <1>3, <1>4, NodeIsWelcome
  <2> QED
    BY <1>2, <2>1 DEF Welcome, Status
<1> QED
  BY <1>1, <1>5, <1>6

-----------------------------------------------------------------------------
(* The theorems *)

\* The handshake's variables keep their types: no end has more than its own upgrade
\* message unflushed or more than two messages to read, every upgrade message on its
\* way is one of the frames the two programs write, none of which makes decode panic
\* (upgrade.rs:31), and a handshake is over exactly when it has returned.
THEOREM HandshakeTypeCorrect == Spec => []TypeOK
<1>1. ASSUME Inv PROVE TypeOK
  <2>1. ASSUME NEW e \in Ends
        PROVE  /\ Len(sink[e]) <= 1 /\ Len(wire[e]) <= 2
               /\ \A i \in DOMAIN wire[e] : wire[e][i].kind = "upgrade" => wire[e][i].frame \in Frames
    <3>1. Len(sink[e]) <= 1
      BY <1>1, AtMostTwo
    <3>2. Len(wire[e]) <= 2
      <4>1. Other(e) \in Ends /\ Other(Other(e)) = e
        BY TwoEnds
      <4>2. \A a, b \in Nat : a + b <= 2 => a <= 2
        OBVIOUS
      <4> QED
        BY <1>1, <4>1, <4>2, AtMostTwo
    <3>3. \A i \in DOMAIN wire[e] : wire[e][i] \in Sendable(e)
      BY <1>1, ElementOfSeq, LenProperties DEF Inv, Messages
    <3> QED
      BY <3>1, <3>2, <3>3, MessageKinds
  <2> QED
    BY <1>1, <2>1 DEF TypeOK, Inv, Types
<1> QED
  BY <1>1, Invariance, PTL

\* Above eth/66 an end that holds the connection for established has accepted the other
\* end and been accepted by it, whatever is flushed when, whoever runs out of time and
\* whenever the connection is cut.
THEOREM MutualEstablishment == Spec => []EstablishedIsMutual
<1>1. ASSUME Inv PROVE EstablishedIsMutual
  BY <1>1, TwoEnds DEF Inv, Mutual, Committed, EstablishedIsMutual
<1> QED
  BY <1>1, Invariance, PTL

\* Unless both ends run v3-node, an end refuses the other one for its status alone, and
\* a connection that nobody cut lasts until both are through or the timer of one fires.
THEOREM RefusalIsByStatus ==
  ASSUME ~(Ends \subseteq Nodes)
  PROVE  Spec => []RefusesOnlyByStatus
<1>1. ASSUME Inv, Order PROVE RefusesOnlyByStatus
  <2> SUFFICES ASSUME \A e \in Ends : Welcome(e, Status(Other(e))) /\ result[e] # "timeout",
                      ~broken
               PROVE  \A e \in Ends : result[e] \in {"none", "ok"}
    BY DEF RefusesOnlyByStatus
  <2>1. \A x \in Ends : result[x] # "refused"
    BY <1>1, FramesAgree DEF Order, Judged
  <2>2. \A x \in Ends : result[x] # "no_response"
    BY <1>1, <2>1 DEF Order, Blame
  <2> QED
    BY <1>1, <2>1, <2>2 DEF Inv, Types
<1> QED
  BY <1>1, Orderliness, PTL

\* Two v3-nodes never establish a connection above eth/66: neither reads what the other
\* one's encode writes.  The divergence HandshakeSelf exhibits is there for any forks.
THEOREM NodesNeverMeet ==
  Spec => [](\A e \in Ends : e \in Nodes /\ Other(e) \in Nodes /\ version > 66 => result[e] # "ok")
<1> DEFINE Apart == \A e \in Ends : e \in Nodes /\ Other(e) \in Nodes /\ version > 66 => result[e] # "ok"
<1>1. ASSUME Inv, Order PROVE Apart
  <2> SUFFICES ASSUME NEW e \in Ends, e \in Nodes, Other(e) \in Nodes, version > 66, result[e] = "ok"
               PROVE  FALSE
    OBVIOUS
  <2>1. PICK m \in Upgrades(Other(e)) : Verdict(e, m) = "ok"
    BY <1>1 DEF Order, Judged
  <2>2. m = Upgrade(Encode(FALSE))
    BY DEF Upgrades
  <2> QED
    BY <2>1, <2>2, OwnFrameIsMalformed, VerdictOfFrame
<1> HIDE DEF Apart
<1>2. Spec => []Apart
  BY <1>1, Orderliness, PTL
<1> QED
  BY <1>2 DEF Apart

\* Above eth/66 no connection is established across a fork: an end that has come to a
\* fork the other one does not know announces a fork id that is in no filter of the list,
\* wherever the other one is.
THEOREM NoForeigner == Spec => []NoForeignerEstablished
<1>1. ASSUME Inv, Settings PROVE NoForeignerEstablished
  <2> SUFFICES ASSUME NEW e \in Ends, result[e] = "ok", version > 66
               PROVE  ~Foreign(e) /\ ~Foreign(Other(e))
    BY DEF NoForeignerEstablished
  <2>1. Welcome(e, Status(Other(e))) /\ Welcome(Other(e), Status(e))
    BY <1>1, TwoEnds DEF Inv, Mutual, Committed
  <2> QED
    BY <1>1, <2>1, TwoEnds, ForeignerUnwelcome
<1> QED
  BY <1>1, Invariance, SettingsStand, PTL

\* A v3-node and a geth on the chain's forks do not refuse each other, wherever on the
\* chain the geth is: in each position the fork id that either announces is one the other
\* end's filter accepts, so that only a cut or a timer ends the connection.
THEOREM OnlyForeignersRefused ==
  ASSUME Nodes # {}, ~(Ends \subseteq Nodes)
  PROVE  Spec => []RefusesOnlyForeigners
<1>1. ASSUME Settings, RefusesOnlyByStatus PROVE RefusesOnlyForeigners
  <2> SUFFICES ASSUME \A e \in Ends : ~Foreign(e) /\ result[e] # "timeout",
                      ~broken
               PROVE  \A e \in Ends : result[e] \in {"none", "ok"}
    BY DEF RefusesOnlyForeigners
  <2>1. PICK n \in Nodes : TRUE
    OBVIOUS
  <2>2. \A e \in Ends : Welcome(e, Status(Other(e)))
    BY <1>1, <2>1, CompatibleWelcome
  <2> QED
    BY <1>1, <2>2 DEF RefusesOnlyByStatus
<1>2. Spec => []RefusesOnlyByStatus
  BY RefusalIsByStatus
<1> QED
  BY <1>1, <1>2, SettingsStand, PTL
=============================================================================
