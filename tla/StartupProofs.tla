--------------------------- MODULE StartupProofs ---------------------------
(***************************************************************************)
(* The shape of the file after any failures, proved for any number of      *)
(* processes and of faults.                                                *)
(***************************************************************************)
EXTENDS Startup, TLAPS

N == Len(MIGRATIONS)
Name(i) == MIGRATIONS[i].creates

\* The statements create different objects.
LEMMA Statements ==
  /\ N = 5
  /\ \A i, j \in 1..5 : Name(i) = Name(j) => i = j
<1>1. /\ N = 5
      /\ Name(1) = "swaps"
      /\ Name(2) = "idx_swaps_pool_block"
      /\ Name(3) = "liquidity_changes"
      /\ Name(4) = "idx_lc_pool_block"
      /\ Name(5) = "idx_lc_pool_owner_ticks"
  BY DEF N, Name, MIGRATIONS, Table, Index
<1>2. \A i \in 1..5 : i = 1 \/ i = 2 \/ i = 3 \/ i = 4 \/ i = 5
  OBVIOUS
<1> QED
  BY <1>1, <1>2

\* Each statement adds its object to what the earlier ones create, and only then.
LEMMA CreatedNext ==
  ASSUME NEW k \in 0..N, NEW n \in 1..N
  PROVE  /\ Created(n) = Created(n - 1) \cup {Name(n)}
         /\ Name(n) \in Created(k) <=> n <= k
         /\ Created(k) \subseteq Objects
<1>1. N \in Nat
  BY Statements
<1>2. \A m \in 0..N : Created(m) = {Name(i) : i \in 1..m}
  BY DEF Created, Name
<1>3. 1..n = 1..(n - 1) \cup {n} /\ n - 1 \in 0..N /\ 1..k \subseteq 1..N
  BY <1>1
<1>4. Created(n) = Created(n - 1) \cup {Name(n)}
  BY <1>1, <1>2, <1>3
<1>5. Name(n) \in Created(k) <=> n <= k
  BY <1>1, <1>2, <1>3, Statements
<1>6. Created(k) \subseteq Objects
  BY <1>1, <1>2, <1>3 DEF Objects, N
<1> QED
  BY <1>4, <1>5, <1>6

\* A process that migrates has executed what comes before its statement, and one that
\* is past its migrations everything.
Inv ==
  /\ TypeOK
  /\ SchemaIsPrefix
  /\ FullSchemaBeforeNetwork

\* The invariant holds initially.
LEMMA InvInit == Init => Inv
<1> SUFFICES ASSUME Init PROVE Inv
  OBVIOUS
<1>1. Created(0) = {} /\ 0 \in 0..Len(MIGRATIONS) /\ 1 \in 1..(Len(MIGRATIONS) + 1)
  BY Statements DEF Created, N
<1> QED
  BY <1>1, StartupAssumption
  DEF Init, Inv, TypeOK, SchemaIsPrefix, FullSchemaBeforeNetwork

\* The schema only grows, and never beyond what MIGRATIONS creates.
LEMMA ExecuteStep ==
  ASSUME Inv, NEW p \in Procs, execute_batch(p)
  PROVE  /\ schema \subseteq schema'
         /\ \E k \in 0..N : schema' = Created(k)
         /\ Created(next[p]) \subseteq schema'
<1> DEFINE n == next[p]
<1>1. /\ n \in 1..N /\ pc[p] = "migrating" /\ N \in Nat
      /\ schema' = schema \cup {Name(n)}
  BY Statements DEF Inv, TypeOK, execute_batch, N, Name
<1>2. PICK k \in 0..N : schema = Created(k)
  BY DEF Inv, SchemaIsPrefix, N
<1>3. Created(n - 1) \subseteq Created(k)
  BY <1>1, <1>2 DEF Inv, SchemaIsPrefix
<1> HIDE DEF n
<1>4. n - 1 <= k
  <2>1. CASE n = 1
    BY <1>2, <2>1, Statements
  <2>2. CASE n # 1
    <3>1. n - 1 \in 1..N /\ n - 1 \in 0..N
      BY <1>1, <2>2
    <3>2. Name(n - 1) \in Created(n - 1)
      BY <3>1, CreatedNext
    <3> QED
      BY <1>2, <1>3, <3>1, <3>2, CreatedNext
  <2> QED
    BY <2>1, <2>2
<1>5. Created(n) \subseteq schema'
  BY <1>1, <1>2, <1>3, CreatedNext
<1>6. \E m \in 0..N : schema' = Created(m)
  <2>1. CASE n <= k
    BY <1>1, <1>2, <2>1, CreatedNext
  <2>2. CASE n = k + 1
    BY <1>1, <1>2, <2>2, CreatedNext
  <2> QED
    BY <1>1, <1>2, <1>4, <2>1, <2>2
<1> QED
  BY <1>1, <1>5, <1>6 DEF n

\* Every step keeps the invariant.
LEMMA InvStep ==
  ASSUME Inv, [Next]_startupVars
  PROVE  Inv'
<1> USE DEF Inv
<1>0. N \in Nat /\ N = Len(MIGRATIONS)
  BY Statements DEF N
<1>1. ASSUME NEW p \in Procs, load_pools(p) \/ Open(p)
      PROVE  Inv'
  <2>1. Created(0) = {}
    BY DEF Created
  <2> QED
    BY <1>0, <1>1, <2>1
    DEF load_pools, Open, Goto, TypeOK, SchemaIsPrefix, FullSchemaBeforeNetwork
<1>2. ASSUME NEW p \in Procs, execute_batch(p)
      PROVE  Inv'
  <2>1. /\ schema \subseteq schema' /\ Created(next[p]) \subseteq schema'
        /\ \E k \in 0..N : schema' = Created(k)
    BY <1>2, ExecuteStep
  <2>2. /\ pc' = pc /\ next' = [next EXCEPT ![p] = @ + 1] /\ faults' = faults
        /\ next[p] \in 1..N
    BY <1>0, <1>2 DEF execute_batch, TypeOK
  <2>3. schema' \subseteq Objects
    BY <2>1, <2>2, CreatedNext
  <2>4. TypeOK'
    BY <1>0, <2>2, <2>3 DEF TypeOK
  <2>5. SchemaIsPrefix'
    <3>1. ASSUME NEW q \in Procs, pc'[q] = "migrating"
          PROVE  Created(next'[q] - 1) \subseteq schema'
      <4>1. CASE q = p
        <5>1. next'[q] - 1 = next[p]
          BY <1>0, <2>2, <4>1 DEF TypeOK
        <5> QED
          BY <2>1, <5>1
      <4>2. CASE q # p
        BY <2>1, <2>2, <3>1, <4>2 DEF SchemaIsPrefix, TypeOK
      <4> QED
        BY <4>1, <4>2
    <3> QED
      BY <1>0, <2>1, <3>1 DEF SchemaIsPrefix
  <2>6. FullSchemaBeforeNetwork'
    BY <2>1, <2>2, <2>3 DEF FullSchemaBeforeNetwork
  <2> QED
    BY <2>4, <2>5, <2>6
<1>3. ASSUME NEW p \in Procs, Migrated(p)
      PROVE  Inv'
  <2>1. next[p] - 1 = N /\ schema' = schema /\ pc[p] = "migrating"
    BY <1>0, <1>3 DEF Migrated, TypeOK
  <2>2. schema = Objects
    BY <1>0, <2>1 DEF TypeOK, SchemaIsPrefix, Objects
  <2> QED
    BY <1>3, <2>2 DEF Migrated, Goto, TypeOK, SchemaIsPrefix, FullSchemaBeforeNetwork
<1>4. ASSUME NEW p \in Procs, start_network(p) \/ Runs(p)
      PROVE  Inv'
  BY <1>4 DEF start_network, Runs, Goto, TypeOK, SchemaIsPrefix, FullSchemaBeforeNetwork
<1>5. ASSUME NEW p \in Procs, StatementFails(p) \/ Dies(p)
      PROVE  Inv'
  <2>1. faults' \in 0..MaxFaults
    BY <1>5, StartupAssumption DEF StatementFails, Dies, Fault, TypeOK
  <2> QED
    BY <1>5, <2>1
    DEF StatementFails, Dies, Goto, TypeOK, SchemaIsPrefix, FullSchemaBeforeNetwork
<1>6. CASE UNCHANGED startupVars
  BY <1>6 DEF startupVars, TypeOK, SchemaIsPrefix, FullSchemaBeforeNetwork
<1> QED
  BY <1>1, <1>2, <1>3, <1>4, <1>5, <1>6 DEF Next

\* The invariant in every reachable state.
LEMMA InvAlways == Spec => []Inv
BY InvInit, InvStep, PTL DEF Spec

\* No statement is executed that MIGRATIONS does not hold, and none of them is passed over:
\* run_migrations counts from its first statement to one past its last (schema.rs:159).
THEOREM StartupTypeCorrect == Spec => []TypeOK
BY InvAlways, PTL DEF Inv

\* Whatever failed and whoever migrates at the same time, the file holds what a first
\* part of MIGRATIONS creates, and every process finds what its next statement needs.
THEOREM PartialSchemaKnown == Spec => []SchemaIsPrefix
BY InvAlways, PTL DEF Inv

\* main() starts the network on the full schema only.
THEOREM NetworkAfterSchema == Spec => []FullSchemaBeforeNetwork
BY InvAlways, PTL DEF Inv
=============================================================================
