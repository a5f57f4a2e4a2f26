------------------------- MODULE DispatchOrderProofs -------------------------
(***************************************************************************)
(* Theorems about the order in which fetch_receipts asks the peers, for    *)
(* any map, any order of its keys and any position of rr_index.            *)
(***************************************************************************)
EXTENDS DispatchOrder, PeerManagerProofs

-----------------------------------------------------------------------------
(* Positions modulo the size of the map *)

\* The remainder may be taken before adding.
LEMMA ModPlus ==
  ASSUME NEW n \in Nat \ {0}, NEW x \in Nat, NEW y \in Nat
  PROVE  ((x % n) + y) % n = (x + y) % n
<1> DEFINE r == ((x % n) + y) % n
           k == x \div n
           j == ((x % n) + y) \div n
<1>1. x % n \in Nat /\ k \in Int /\ x = n * k + (x % n)
  OBVIOUS
<1>2. (x % n) + y \in Nat
  BY <1>1
<1>3. r \in 0..(n - 1) /\ j \in Int /\ (x % n) + y = n * j + r
  BY <1>2
<1> HIDE DEF r, k, j
<1>4. x + y = n * k + n * j + r
  BY <1>1, <1>3
<1>5. n * k + n * j = n * (k + j) /\ k + j \in Int
  BY <1>1, <1>3
<1> DEFINE m == k + j
<1>6. x + y = n * m + r /\ m \in Int
  BY <1>3, <1>4, <1>5
<1> HIDE DEF m
<1>7. x + y \in Int
  OBVIOUS
<1>8. (x + y) % n = r
  BY <1>3, <1>6, <1>7, ModUnique
<1> QED
  BY <1>8 DEF r

\* From any start, as many attempts as there are positions reach each of them.
LEMMA PositionsCover ==
  ASSUME NEW n \in Nat \ {0}, NEW x \in Nat, NEW r \in 0..(n - 1)
  PROVE  \E a \in 0..(n - 1) : (x + a) % n = r
<1> DEFINE y == x % n
           a == IF r >= y THEN r - y ELSE r - y + n
<1>1. y \in 0..(n - 1)
  OBVIOUS
<1> HIDE DEF y
<1>2. a \in 0..(n - 1)
  BY <1>1
<1>3. (y + a) % n = r
  <2>1. CASE r >= y
    <3>1. y + a = n * 0 + r
      BY <1>1, <2>1
    <3> QED
      BY <1>1, <1>2, <3>1, ModUnique
  <2>2. CASE r < y
    <3>1. y + a = n * 1 + r
      BY <1>1, <2>2
    <3> QED
      BY <1>1, <1>2, <3>1, ModUnique
  <2> QED
    BY <1>1, <2>1, <2>2
<1>4. (y + a) % n = (x + a) % n
  <2> HIDE DEF a
  <2>1. a \in Nat
    BY <1>2
  <2> QED
    BY <2>1, ModPlus DEF y
<1> QED
  BY <1>2, <1>3, <1>4

\* A full round of attempts meets every peer of the map.
LEMMA CandidatesCover ==
  ASSUME TypeOK, OrderOK, NEW p \in Connected
  PROVE  \E a \in 0..(Len(order) - 1) : Candidate(a) = p
<1>1. order \in Seq(Peers) /\ rr_index \in Nat /\ p \in Peers
  BY DEF TypeOK, Connected
<1>2. PICK i \in 1..Len(order) : order[i] = p
  BY <1>1, LenProperties DEF OrderOK
<1>3. Len(order) \in Nat \ {0} /\ i - 1 \in 0..(Len(order) - 1)
  BY <1>1, <1>2
<1>4. PICK a \in 0..(Len(order) - 1) : (rr_index + a) % Len(order) = i - 1
  BY <1>1, <1>3, PositionsCover
<1>5. Candidate(a) = order[i]
  BY <1>2, <1>4 DEF Candidate, Position
<1> QED
  BY <1>2, <1>5

-----------------------------------------------------------------------------
(* The steps of the manager, as far as the order of the peers is concerned *)

\* do_fetch_receipts is in its loop.
Looping == pc = "asking" \/ (pc = "waiting" /\ call[cur].op = "any")

dispatchState == <<peers, order, rr_index>>
loopState == <<pc, cur, attempt, last_err>>

\* The steps that touch the turns or the fetch loop; the others leave both alone, or end the loop.
LEMMA DispatchSteps ==
  ASSUME Base, [Next]_vars
  PROVE  \/ UNCHANGED dispatchState /\ UNCHANGED loopState
         \/ UNCHANGED dispatchState /\ pc' \in {"select", "stopped"}
         \/ RecvEvent
         \/ ServeFrom(Head(cmd_rx)) /\ pc = "select"
         \/ ServeAny(Head(cmd_rx)) /\ pc = "select"
         \/ TryNext \/ TryFails \/ AnySucceeds \/ AnyFails \/ Exhausted \/ Evict
<1>1. CASE Subscribe \/ CallerStep \/ Environment \/ ReadFeed \/ UNCHANGED vars
  BY <1>1
  DEF Subscribe, CallerStep, StartCall, SendCommand, SendFails, ReplyDropped, DropHandles, Environment,
      Outside, ReadFeed, vars, managerVars, mapVars, fetchVars, dispatchState, loopState
<1>2. CASE FromAnswered \/ ReplyAny \/ Stop
  BY <1>2 DEF FromAnswered, ReplyAny, Stop, TakeAnswer, FetchDone, mapVars, dispatchState
<1>3. CASE RecvCommand
  BY <1>3
  DEF RecvCommand, handle_command, ServeList, ServeNoPeers, ServeFromFails, AnswerAtOnce, mapVars,
      fetchVars, dispatchState, loopState
<1> QED
  BY <1>1, <1>2, <1>3 DEF Next, ManagerStep, FetchStep

\* A step that is not in the map, the cursor or the loop leaves the candidates.
LEMMA CandidateFrame ==
  ASSUME UNCHANGED dispatchState, NEW a
  PROVE  Candidate(a)' = Candidate(a) /\ Connected' = Connected
BY DEF dispatchState, Candidate, Position, Connected

-----------------------------------------------------------------------------
(* Fallback *)

\* While the loop runs the map stays as it was, and the peers of earlier attempts have
\* been visited, that of the present one too once it is asked.
Fallback ==
  /\ Looping => /\ snapshot = Connected
                /\ \A a \in 0..(attempt - 1) : Candidate(a) \in visited
  /\ Looping /\ pc = "waiting" => Candidate(attempt) \in visited
  /\ FallbackExhaustive

\* Every step keeps what the fallback is known to have tried.
LEMMA FallbackStep ==
  ASSUME Base, Fallback, [DispatchNext]_dispatchVars
  PROVE  Fallback'
<1>0. attempt \in Nat /\ order \in Seq(Peers) /\ rr_index \in Nat /\ [Next]_vars
  BY DEF Base, TypeOK, DispatchNext, dispatchVars
<1> DEFINE Kept == snapshot' = snapshot /\ visited \subseteq visited'
<1>1. pc' # "select" /\ ~Beginning => Kept
  BY DEF DispatchNext, WatchFetch, dispatchVars, history
<1>2. CASE UNCHANGED dispatchState /\ UNCHANGED loopState
  <2>1. Looping => Looping' = Looping
    <3>1. pc \in {"asking", "waiting"} => call'[cur] = call[cur]
      BY <1>0, <1>2, CallKept DEF loopState
    <3> QED
      BY <1>2, <3>1 DEF Looping, loopState
  <2>2. Looping' => Looping
    <3>1. pc \in {"asking", "waiting"} => call'[cur] = call[cur]
      BY <1>0, <1>2, CallKept DEF loopState
    <3> QED
      BY <1>2, <3>1 DEF Looping, loopState
  <2>3. pc # "select" => Kept
    BY <1>1, <1>2 DEF Beginning, loopState
  <2>4. \A a : Candidate(a)' = Candidate(a) /\ Connected' = Connected
    BY <1>2, CandidateFrame
  <2>5. Looping' => /\ snapshot' = Connected'
                    /\ \A a \in 0..(attempt' - 1) : Candidate(a)' \in visited'
                    /\ pc' = "waiting" => Candidate(attempt)' \in visited'
    BY <1>2, <2>2, <2>3, <2>4 DEF Fallback, Looping, loopState, Candidate, Position
  <2>6. FallbackExhaustive'
    BY <1>2, <2>3 DEF Fallback, FallbackExhaustive, loopState
  <2> QED
    BY <2>5, <2>6 DEF Fallback, Candidate, Position
<1>3. CASE pc' \in {"select", "stopped"}
  BY <1>3 DEF Fallback, Looping, FallbackExhaustive
<1>4. CASE RecvEvent
  BY <1>3, <1>4 DEF RecvEvent, fetchVars
<1>5. CASE ServeFrom(Head(cmd_rx))
  <2>1. pc' = "waiting" /\ call'[cur'].op = "from"
    BY <1>5 DEF ServeFrom, callVars
  <2> QED
    BY <2>1 DEF Fallback, Looping, FallbackExhaustive
<1>6. CASE ServeAny(Head(cmd_rx)) /\ pc = "select"
  <2>1. Beginning /\ pc' = "asking" /\ attempt' = 0 /\ Connected' = Connected
    BY <1>6 DEF ServeAny, Beginning, mapVars, Connected
  <2>2. snapshot' = Connected
    BY <2>1 DEF DispatchNext, WatchFetch, dispatchVars, vars, managerVars, fetchVars, Beginning
  <2> QED
    BY <2>1, <2>2 DEF Fallback, Looping, FallbackExhaustive
<1>7. CASE TryNext \/ TryFails
  <2>1. /\ pc = "asking" /\ UNCHANGED dispatchState /\ pc' \in {"asking", "waiting"}
        /\ pc' = "waiting" => attempt' = attempt
        /\ pc' = "asking" => attempt' = attempt + 1
    BY <1>7 DEF TryNext, TryFails, mapVars, dispatchState
  <2>2. Kept
    BY <1>1, <2>1 DEF Beginning
  <2>3. Candidate(attempt) \in visited'
    <3>1. pc' # pc \/ attempt' # attempt
      BY <1>0, <2>1
    <3>2. visited' = visited \cup {p \in Peers : Visiting(p)}
      BY <2>1, <3>1 DEF DispatchNext, WatchFetch, dispatchVars, vars, managerVars, fetchVars, Beginning
    <3>3. Visiting(Candidate(attempt)) /\ Candidate(attempt) \in Peers
      BY <1>7, <2>1, CurrentCandidate DEF Visiting, TryNext, TryFails
    <3> QED
      BY <3>2, <3>3
  <2>4. \A a : Candidate(a)' = Candidate(a) /\ Connected' = Connected
    BY <2>1, CandidateFrame
  <2>5. \A a \in 0..(attempt - 1) : Candidate(a)' \in visited'
    BY <2>1, <2>2, <2>4 DEF Fallback, Looping
  <2>6. \A a \in 0..(attempt' - 1) : Candidate(a)' \in visited'
    <3>1. CASE pc' = "waiting"
      BY <2>1, <2>5, <3>1
    <3>2. CASE pc' = "asking"
      <4>1. \A a \in 0..(attempt' - 1) : a \in 0..(attempt - 1) \/ a = attempt
        BY <1>0, <2>1, <3>2
      <4> QED
        BY <2>3, <2>4, <2>5, <4>1
    <3> QED
      BY <2>1, <3>1, <3>2
  <2>7. snapshot' = Connected'
    BY <2>1, <2>2, <2>4 DEF Fallback, Looping
  <2>8. pc' = "waiting" => Candidate(attempt)' \in visited'
    BY <2>1, <2>3, <2>4 DEF Candidate, Position, dispatchState
  <2> QED
    BY <2>1, <2>6, <2>7, <2>8 DEF Fallback, Looping, FallbackExhaustive
<1>8. CASE AnySucceeds
  <2>1. pc' = "evicting" /\ last_err'.kind = "ok"
    BY <1>8 DEF AnySucceeds, Result
  <2> QED
    BY <2>1 DEF Fallback, Looping, FallbackExhaustive
<1>9. CASE AnyFails
  <2>1. /\ pc = "waiting" /\ Looping /\ UNCHANGED dispatchState /\ pc' = "asking"
        /\ attempt' = attempt + 1
    BY <1>9 DEF AnyFails, TakeAnswer, mapVars, dispatchState, Looping
  <2>2. Kept
    BY <1>1, <2>1 DEF Beginning
  <2>3. \A a : Candidate(a)' = Candidate(a) /\ Connected' = Connected
    BY <2>1, CandidateFrame
  <2>4. \A a \in 0..(attempt' - 1) : a \in 0..(attempt - 1) \/ a = attempt
    BY <1>0, <2>1
  <2>5. \A a \in 0..(attempt' - 1) : Candidate(a)' \in visited'
    BY <2>1, <2>2, <2>3, <2>4 DEF Fallback
  <2>6. snapshot' = Connected'
    BY <2>1, <2>2, <2>3 DEF Fallback
  <2> QED
    BY <2>1, <2>5, <2>6 DEF Fallback, Looping, FallbackExhaustive
<1>10. CASE Exhausted
  <2>1. pc = "asking" /\ pc' = "evicting" /\ attempt = Len(order)
    BY <1>10 DEF Exhausted
  <2>2. Kept
    BY <1>1, <2>1 DEF Beginning
  <2>3. Connected \subseteq visited
    BY <2>1, CandidatesCover DEF Fallback, Looping, Base
  <2>4. snapshot' \subseteq visited'
    BY <2>1, <2>2, <2>3 DEF Fallback, Looping
  <2> QED
    BY <2>1, <2>4 DEF Fallback, Looping, FallbackExhaustive
<1>11. CASE Evict
  <2>1. pc = "evicting" /\ pc' = "evicting" /\ last_err' = last_err
    BY <1>11 DEF Evict
  <2>2. Kept
    BY <1>1, <2>1 DEF Beginning
  <2> QED
    BY <2>1, <2>2 DEF Fallback, Looping, FallbackExhaustive
<1> QED
  BY <1>0, <1>2, <1>3, <1>4, <1>5, <1>6, <1>7, <1>8, <1>9, <1>10, <1>11, DispatchSteps

\* A dispatch that is watched is one of the manager.
LEMMA WatchedManager == DispatchSpec => Spec
<1>1. DispatchInit => Init
  BY DEF DispatchInit
<1>2. [DispatchNext]_dispatchVars => [Next]_vars
  BY DEF DispatchNext, dispatchVars
<1> QED
  BY <1>1, <1>2, PTL DEF DispatchSpec, Spec

\* fetch_receipts gives up only when every peer that was connected when it began has
\* been asked or found dead: the round covers the whole map from wherever rr_index
\* stands, and nothing changes the map under the loop (manager.rs:304).
THEOREM FallbackIsExhaustive == DispatchSpec => []FallbackExhaustive
<1>1. DispatchInit => Fallback
  BY DEF DispatchInit, Init, Fallback, Looping, FallbackExhaustive
<1>2. Base /\ Fallback /\ [DispatchNext]_dispatchVars => Fallback'
  BY FallbackStep
<1>3. Fallback => FallbackExhaustive
  BY DEF Fallback
<1> QED
  BY <1>1, <1>2, <1>3, WatchedManager, BaseInvariant, PTL DEF DispatchSpec

-----------------------------------------------------------------------------
(* Turns *)

\* A full turn of the cursor is none.
LEMMA ModWrap ==
  ASSUME NEW n \in Nat \ {0}, NEW x \in Nat
  PROVE  (x + n) % n = x % n
<1> DEFINE r == x % n
           k == x \div n
<1>1. r \in 0..(n - 1) /\ k \in Int /\ x = n * k + r
  OBVIOUS
<1> HIDE DEF r, k
<1>2. x + n = n * (k + 1) + r /\ k + 1 \in Int /\ x + n \in Nat
  BY <1>1
<1>3. (x + n) % n = r
  BY <1>1, <1>2, ModUnique
<1> QED
  BY <1>3 DEF r

\* a attempts before b, the cursor meets Debtor, and at b Server.
Between(a, b) == a < b /\ Candidate(a) = Debtor /\ Candidate(b) = Server

\* Neither the scan of the current request has passed a, nor is it there with a question.
Ahead(a) == /\ Looping => attempt <= a
            /\ Looping /\ pc = "waiting" => attempt < a

\* While the map is as it was when Server last served, and Debtor has not been visited
\* since, the cursor reaches Debtor first.
Turns ==
  owed /\ changed = "no" =>
    \E a, b \in 0..(Len(order) - 1) : Between(a, b) /\ Ahead(a)

\* What the history says after a step that leaves Debtor waiting for its turn.
LEMMA OwedStep ==
  ASSUME [DispatchNext]_dispatchVars, ~Serving(Server), owed', changed' = "no"
  PROVE  /\ owed /\ changed = "no" /\ Connected' = Connected
         /\ Visiting(Debtor) => UNCHANGED fetchVars
<1>1. CASE DispatchNext
  <2>1. /\ owed' = (owed /\ ~Visiting(Debtor) /\ {Server, Debtor} \subseteq Connected')
        /\ changed' = IF Connected' \ Connected # {} THEN "arrivals"
                      ELSE IF Connected' # Connected /\ changed = "no" THEN "departures"
                      ELSE changed
    BY <1>1 DEF DispatchNext, WatchTurns
  <2> QED
    BY <2>1
<1>2. CASE UNCHANGED dispatchVars
  BY <1>2 DEF dispatchVars, vars, managerVars, mapVars, history, Connected
<1> QED
  BY <1>1, <1>2

\* A step outside the loop that leaves the candidates alone, or one of the loop that
\* moves on from attempt, keeps the two positions.
LEMMA TurnsFrame ==
  ASSUME Turns, owed /\ changed = "no", UNCHANGED dispatchState,
         \A a \in 0..(Len(order) - 1) : Candidate(a) = Debtor /\ Ahead(a) => Ahead(a)'
  PROVE  Turns'
<1>1. PICK a, b \in 0..(Len(order) - 1) : Between(a, b) /\ Ahead(a)
  BY DEF Turns
<1>2. a \in 0..(Len(order') - 1) /\ b \in 0..(Len(order') - 1)
  BY DEF dispatchState
<1>3. Between(a, b)'
  BY <1>1 DEF Between, Candidate, Position, dispatchState
<1>4. Ahead(a)'
  BY <1>1 DEF Between
<1> QED
  BY <1>2, <1>3, <1>4 DEF Turns

\* The cursor moves to the peer after the one that has answered.
LEMMA TurnsAfterService ==
  ASSUME Base, Fallback, Turns, AnySucceeds, [DispatchNext]_dispatchVars, owed', changed' = "no"
  PROVE  Turns'
<1> DEFINE n == Len(order)
<1>0. /\ n \in Nat \ {0} /\ rr_index \in Nat /\ attempt \in 0..(n - 1) /\ order \in Seq(Peers)
  BY DEF Base, TypeOK, Control, AnySucceeds, TakeAnswer
<1>1. /\ pc = "waiting" /\ pc' = "evicting" /\ Looping /\ Asked = Candidate(attempt)
      /\ order' = order /\ Connected' = Connected
      /\ rr_index' = (Position(attempt) + 1) % n
  BY DEF AnySucceeds, TakeAnswer, mapVars, Looping, Asked, Connected
<1>2. \A a : Ahead(a)'
  BY <1>1 DEF Ahead, Looping
<1>3. ASSUME NEW a \in Nat
      PROVE  Candidate(a)' = order[((rr_index + (attempt + 1 + a)) % n) + 1]
  <2>1. Position(attempt) = (rr_index + attempt) % n /\ Position(attempt) \in Nat
    BY <1>0 DEF Position
  <2>2. Position(attempt) + 1 \in Nat /\ rr_index + attempt \in Nat
    BY <1>0, <2>1
  <2>3. (Position(attempt) + (1 + a)) % n = (rr_index + attempt + (1 + a)) % n
    <3>1. 1 + a \in Nat
      OBVIOUS
    <3>2. (((rr_index + attempt) % n) + (1 + a)) % n = (rr_index + attempt + (1 + a)) % n
      BY <1>0, <2>2, <3>1, ModPlus
    <3> QED
      BY <2>1, <3>2
  <2>4. (((Position(attempt) + 1) % n) + a) % n = (Position(attempt) + 1 + a) % n
    BY <1>0, <2>2, ModPlus
  <2>5. /\ Position(attempt) + 1 + a = Position(attempt) + (1 + a)
        /\ rr_index + attempt + (1 + a) = rr_index + (attempt + 1 + a)
    BY <1>0, <2>1
  <2>6. (rr_index' + a) % n = (rr_index + (attempt + 1 + a)) % n
    BY <1>1, <2>3, <2>4, <2>5
  <2> QED
    BY <1>1, <2>6 DEF Candidate, Position
<1>4. CASE Serving(Server)
  <2>1. Candidate(attempt) = Server /\ Debtor \in Connected
    BY <1>1, <1>4 DEF Serving, DispatchNext, WatchTurns, dispatchVars, vars, managerVars, fetchVars
  <2>2. PICK c \in 0..(n - 1) : Candidate(c) = Debtor
    BY <2>1, CandidatesCover DEF Base
  <2>3. (rr_index + c) % n \in 0..(n - 1) /\ rr_index + (attempt + 1) \in Nat
    BY <1>0
  <2>4. PICK a \in 0..(n - 1) : (rr_index + (attempt + 1) + a) % n = (rr_index + c) % n
    BY <1>0, <2>3, PositionsCover
  <2>5. rr_index + (attempt + 1 + a) = rr_index + (attempt + 1) + a
    BY <1>0
  <2>6. Candidate(a)' = Debtor
    BY <1>3, <2>2, <2>4, <2>5 DEF Candidate, Position
  <2>7. PICK b \in 0..(n - 1) : b = n - 1
    BY <1>0
  <2>8. (rr_index + (attempt + 1 + b)) % n = (rr_index + attempt) % n
    <3>1. rr_index + (attempt + 1 + b) = (rr_index + attempt) + n /\ rr_index + attempt \in Nat
      BY <1>0, <2>7
    <3> QED
      BY <1>0, <3>1, ModWrap
  <2>9. Candidate(b)' = Server
    BY <1>3, <2>1, <2>8 DEF Candidate, Position
  <2>10. a # b
    BY <2>6, <2>9, WatchAssumption
  <2>11. a < b
    BY <1>0, <2>7, <2>10
  <2> QED
    BY <1>1, <1>2, <2>6, <2>9, <2>11 DEF Turns, Between
<1>5. CASE ~Serving(Server)
  <2>1. PICK a, b \in 0..(n - 1) : Between(a, b) /\ Ahead(a)
    BY <1>5, OwedStep DEF Turns
  <2>2. attempt < a
    BY <1>1, <2>1 DEF Ahead
  <2>3. PICK i, j \in 0..(n - 1) : attempt + 1 + i = a /\ attempt + 1 + j = b
    <3>1. a - attempt - 1 \in 0..(n - 1) /\ b - attempt - 1 \in 0..(n - 1)
      BY <1>0, <2>1, <2>2 DEF Between
    <3>2. attempt + 1 + (a - attempt - 1) = a /\ attempt + 1 + (b - attempt - 1) = b
      BY <1>0
    <3> QED
      BY <3>1, <3>2
  <2>4. i < j
    BY <1>0, <2>1, <2>3 DEF Between
  <2>5. Candidate(i)' = Debtor /\ Candidate(j)' = Server
    BY <1>3, <2>1, <2>3 DEF Between, Candidate, Position
  <2> QED
    BY <1>1, <1>2, <2>3, <2>4, <2>5 DEF Turns, Between
<1> QED
  BY <1>4, <1>5

\* Every step keeps the round-robin turns.
LEMMA TurnsStep ==
  ASSUME Base, Fallback, Turns, [DispatchNext]_dispatchVars
  PROVE  Turns'
<1> SUFFICES ASSUME owed', changed' = "no"
             PROVE  Turns'
  BY DEF Turns
<1>0. attempt \in Nat /\ order \in Seq(Peers) /\ rr_index \in Nat /\ [Next]_vars
  BY DEF Base, TypeOK, DispatchNext, dispatchVars
<1>1. CASE AnySucceeds
  BY <1>1, TurnsAfterService
<1>2. CASE ~AnySucceeds
  <2>1. ~Serving(Server)
    <3>1. SUFFICES ASSUME Serving(Server) PROVE FALSE
      OBVIOUS
    <3>2. pc = "waiting" /\ pc' = "evicting"
      BY <3>1 DEF Serving
    <3> QED
      BY <1>0, <1>2, <3>2, DispatchSteps
      DEF loopState, RecvEvent, fetchVars, ServeFrom, ServeAny, TryNext, TryFails, AnyFails, Exhausted,
          Evict
  <2>2. /\ owed /\ changed = "no" /\ Connected' = Connected
        /\ Visiting(Debtor) => UNCHANGED fetchVars
    BY <2>1, OwedStep
  <2>3. CASE UNCHANGED dispatchState /\ UNCHANGED loopState
    <3>1. pc \in {"asking", "waiting"} => call'[cur] = call[cur]
      BY <1>0, <2>3, CallKept DEF loopState
    <3>2. Looping' => Looping
      BY <2>3, <3>1 DEF Looping, loopState
    <3>3. \A a : Ahead(a) => Ahead(a)'
      BY <2>3, <3>2 DEF Ahead, loopState
    <3> QED
      BY <2>2, <2>3, <3>3, TurnsFrame
  <2>4. CASE UNCHANGED dispatchState /\ pc' \in {"select", "stopped"}
    <3>1. \A a : Ahead(a)'
      BY <2>4 DEF Ahead, Looping
    <3> QED
      BY <2>2, <2>4, <3>1, TurnsFrame
  <2>5. CASE RecvEvent
    <3>1. pc' = "select" /\ rr_index' = rr_index
      BY <2>5 DEF RecvEvent, fetchVars
    <3>2. order' = order
      <4>1. /\ events # <<>> /\ handle_network_event(Head(events))
            /\ Head(events).peer \in Peers /\ Head(events).session \in Nat
        BY <2>5, HeadEvent DEF RecvEvent, Event, Base
      <4>2. CASE Head(events).kind = "established"
        <5>1. on_peer_connected(Head(events).peer, Head(events).session)
          BY <4>1, <4>2 DEF handle_network_event, from_session
        <5>2. peers' = [peers EXCEPT ![Head(events).peer] = Head(events).session]
          BY <5>1 DEF on_peer_connected
        <5>3. Head(events).session # NoSession
          BY <4>1, <4>2, HeadEvent DEF Base
        <5>4. Head(events).peer \in Connected'
          BY <4>1, <5>2, <5>3 DEF Connected, Base, TypeOK
        <5> QED
          BY <2>2, <5>1, <5>4 DEF on_peer_connected
      <4>3. CASE Head(events).kind # "established"
        <5>1. UNCHANGED mapVars \/ on_peer_removed(Head(events).peer)
          BY <4>1, <4>3 DEF handle_network_event
        <5>2. on_peer_removed(Head(events).peer) => FALSE
          BY <2>2, <4>1, RemovedEffect DEF on_peer_removed, Base
        <5> QED
          BY <5>1, <5>2 DEF mapVars
      <4> QED
        BY <4>2, <4>3
    <3>3. \A a, b : Between(a, b) => Between(a, b)'
      BY <3>1, <3>2 DEF Between, Candidate, Position
    <3>4. \A a : Ahead(a)'
      BY <3>1 DEF Ahead, Looping
    <3> QED
      BY <2>2, <3>2, <3>3, <3>4 DEF Turns
  <2>6. CASE ServeFrom(Head(cmd_rx)) /\ pc = "select"
    <3>1. UNCHANGED dispatchState /\ pc' = "waiting" /\ call'[cur'].op = "from"
      BY <2>6 DEF ServeFrom, callVars, mapVars, dispatchState
    <3>2. \A a : Ahead(a)'
      BY <3>1 DEF Ahead, Looping
    <3> QED
      BY <2>2, <3>1, <3>2, TurnsFrame
  <2>7. CASE ServeAny(Head(cmd_rx)) /\ pc = "select"
    <3>1. /\ order' = order /\ rr_index' = rr_index % Len(order) /\ attempt' = 0 /\ pc' = "asking"
          /\ Connected # {}
      BY <2>7 DEF ServeAny, mapVars
    <3>2. Len(order) \in Nat \ {0}
      BY <1>0, <3>1, OrderNotEmpty DEF Base
    <3>3. ASSUME NEW a \in Nat
          PROVE  Candidate(a)' = Candidate(a)
      BY <1>0, <3>1, <3>2, ModPlus DEF Candidate, Position
    <3>4. \A a \in Nat : Ahead(a)'
      BY <3>1 DEF Ahead
    <3>5. PICK a, b \in 0..(Len(order) - 1) : Between(a, b)
      BY <2>2 DEF Turns
    <3>6. a \in Nat /\ b \in Nat
      BY <3>2, <3>5
    <3>7. Between(a, b)'
      BY <3>3, <3>5, <3>6 DEF Between
    <3> QED
      BY <3>1, <3>4, <3>5, <3>6, <3>7 DEF Turns
  <2>8. CASE TryNext \/ TryFails
    <3>1. /\ pc = "asking" /\ Looping /\ UNCHANGED dispatchState /\ pc' \in {"asking", "waiting"}
          /\ pc' = "waiting" => attempt' = attempt
          /\ pc' = "asking" => attempt' = attempt + 1
      BY <2>8 DEF TryNext, TryFails, mapVars, dispatchState, Looping
    <3>2. pc' # pc \/ attempt' # attempt
      BY <1>0, <3>1
    <3>3. Candidate(attempt) # Debtor
      BY <2>2, <3>1, <3>2 DEF Visiting, fetchVars
    <3>4. ASSUME NEW a \in 0..(Len(order) - 1), Candidate(a) = Debtor, Ahead(a)
          PROVE  Ahead(a)'
      <4>1. attempt < a
        BY <1>0, <3>1, <3>3, <3>4 DEF Ahead
      <4> QED
        BY <1>0, <3>1, <4>1 DEF Ahead
    <3> QED
      BY <2>2, <3>1, <3>4, TurnsFrame
  <2>9. CASE AnyFails
    <3>1. pc = "waiting" /\ Looping /\ UNCHANGED dispatchState /\ pc' = "asking" /\ attempt' = attempt + 1
      BY <2>9 DEF AnyFails, TakeAnswer, mapVars, dispatchState, Looping
    <3>2. \A a \in 0..(Len(order) - 1) : Ahead(a) => Ahead(a)'
      BY <1>0, <3>1 DEF Ahead
    <3> QED
      BY <2>2, <3>1, <3>2, TurnsFrame
  <2>10. CASE Exhausted
    <3>1. UNCHANGED dispatchState /\ pc' = "evicting"
      BY <2>10 DEF Exhausted, mapVars, dispatchState
    <3>2. \A a : Ahead(a)'
      BY <3>1 DEF Ahead, Looping
    <3> QED
      BY <2>2, <3>1, <3>2, TurnsFrame
  <2>11. CASE Evict
    <3>1. PICK p \in Peers : p \in Connected /\ peers' = [peers EXCEPT ![p] = NoSession]
      BY <2>11 DEF Evict, on_peer_removed, Connected
    <3> QED
      BY <1>0, <2>2, <3>1 DEF Connected, Base, TypeOK
  <2> QED
    BY <1>0, <1>2, <2>3, <2>4, <2>5, <2>6, <2>7, <2>8, <2>9, <2>10, <2>11, DispatchSteps
<1> QED
  BY <1>1, <1>2

\* When Server serves again with no change of the map in between, Debtor is not owed a
\* visit: the cursor stands behind the last peer that answered (manager.rs:318).
LEMMA ServedInTurn ==
  ASSUME Base, Turns, [DispatchNext]_dispatchVars, Serving(Server), changed = "no"
  PROVE  ~owed
<1>0. pc = "waiting" /\ pc' = "evicting" /\ [Next]_vars
  BY DEF Serving, DispatchNext, dispatchVars
<1>1. AnySucceeds
  BY <1>0, DispatchSteps
  DEF loopState, RecvEvent, fetchVars, ServeFrom, ServeAny, TryNext, TryFails, AnyFails, Exhausted, Evict
<1>2. Looping /\ Candidate(attempt) = Server /\ attempt \in Nat /\ attempt < Len(order)
      /\ Len(order) \in Nat
  BY <1>1 DEF AnySucceeds, TakeAnswer, Serving, Asked, Looping, Base, TypeOK, Control
<1>3. SUFFICES ASSUME owed PROVE FALSE
  OBVIOUS
<1>4. PICK a, b \in 0..(Len(order) - 1) : Between(a, b) /\ Ahead(a)
  BY <1>3 DEF Turns
<1>5. attempt < a /\ a < b /\ Candidate(b) = Server
  BY <1>0, <1>2, <1>4 DEF Ahead, Between
<1>6. b = attempt
  BY <1>2, <1>4, <1>5, CandidatesDistinct DEF Base
<1> QED
  BY <1>2, <1>4, <1>5, <1>6

\* As long as no peer joins or leaves the map, no peer serves twice while another that
\* was connected all along waits for its first visit: rr_index goes on from the peer
\* that answered (manager.rs:318), failures included.  Departures break it (RoundRobin).
THEOREM TurnsAreTaken == DispatchSpec => RoundRobinWhileStable
<1>1. DispatchInit => Fallback /\ Turns
  BY DEF DispatchInit, Init, Fallback, Looping, FallbackExhaustive, Turns
<1>2. Base /\ Fallback /\ Turns /\ [DispatchNext]_dispatchVars => Fallback' /\ Turns'
  BY FallbackStep, TurnsStep
<1>3. Base /\ Turns /\ [DispatchNext]_dispatchVars
        => [Serving(Server) /\ changed = "no" => ~owed]_dispatchVars
  BY ServedInTurn
<1> QED
  BY <1>1, <1>2, <1>3, WatchedManager, BaseInvariant, PTL DEF DispatchSpec, RoundRobinWhileStable

=============================================================================
