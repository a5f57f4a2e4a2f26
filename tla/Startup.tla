------------------------------ MODULE Startup ------------------------------
(***************************************************************************)
(* Starting the program: main() (src/main.rs) loads the pools, opens the   *)
(* SQLite file, runs the migrations of src/db/schema.rs statement by       *)
(* statement, and only then starts the network.  run_migrations opens no transaction: each     *)
(* statement commits by itself, so a crash, or an error of a later one,    *)
(* leaves the earlier ones behind.  Several processes may be started on    *)
(* the same file, and started again after they ended.                      *)
(***************************************************************************)
EXTENDS Naturals, Sequences

CONSTANTS
  Procs,     \* processes that are run on the file
  MaxFaults  \* bound: how often a step fails or a process is killed

ASSUME StartupAssumption == MaxFaults \in Nat

VARIABLES
  schema,  \* the tables and indices in the file
  pc,      \* pc[p]: where main() of p is
  next,    \* next[p]: the statement run_migrations executes next
  faults

startupVars == <<schema, pc, next, faults>>

Table(name) == [creates |-> name, on |-> name]
Index(name, table) == [creates |-> name, on |-> table]

\* Mutant: an index before its table.
MisorderedMIGRATIONS ==
  << Index("idx_swaps_pool_block", "swaps"),
     Table("swaps"),
     Table("liquidity_changes"),
     Index("idx_lc_pool_block", "liquidity_changes"),
     Index("idx_lc_pool_owner_ticks", "liquidity_changes") >>

MIGRATIONS ==
  << Table("swaps"),
     Index("idx_swaps_pool_block", "swaps"),
     Table("liquidity_changes"),
     Index("idx_lc_pool_block", "liquidity_changes"),
     Index("idx_lc_pool_owner_ticks", "liquidity_changes") >>

\* What the first k statements create.
Created(k) == {MIGRATIONS[i].creates : i \in 1..k}
Objects == Created(Len(MIGRATIONS))

TypeOK ==
  /\ schema \subseteq Objects
  /\ pc \in [Procs -> {"down", "opening", "migrating", "connecting", "networked", "running"}]
  /\ next \in [Procs -> 1..(Len(MIGRATIONS) + 1)]
  /\ faults \in 0..MaxFaults

Init ==
  /\ schema = {}
  /\ pc = [p \in Procs |-> "down"]
  /\ next = [p \in Procs |-> 1]
  /\ faults = 0

Goto(p, l) == pc' = [pc EXCEPT ![p] = l]

\* The file of the pools was read and parsed.
load_pools(p) ==
  /\ pc[p] = "down"
  /\ Goto(p, "opening")
  /\ UNCHANGED <<schema, next, faults>>

\* Mutant: the statements are counted from 0.
OpenFromZero(p) ==
  /\ pc[p] = "opening"
  /\ Goto(p, "migrating")
  /\ next' = [next EXCEPT ![p] = 0]
  /\ UNCHANGED <<schema, faults>>

\* Connection::open succeeded, and run_migrations is called.
Open(p) ==
  /\ pc[p] = "opening"
  /\ Goto(p, "migrating")
  /\ next' = [next EXCEPT ![p] = 1]
  /\ UNCHANGED <<schema, faults>>

\* Mutant: CREATE without IF NOT EXISTS.
ExecutesOnce(stmt) == stmt.creates \notin schema

\* CREATE .. IF NOT EXISTS does nothing when the object is there; an index needs its table.
Executes(stmt) ==
  stmt.creates \in schema \/ stmt.on \in {stmt.creates} \cup schema

execute_batch(p) ==
  /\ pc[p] = "migrating"
  /\ next[p] <= Len(MIGRATIONS)
  /\ Executes(MIGRATIONS[next[p]])
  /\ schema' = schema \cup {MIGRATIONS[next[p]].creates}
  /\ next' = [next EXCEPT ![p] = @ + 1]
  /\ UNCHANGED <<pc, faults>>

Fault == faults < MaxFaults /\ faults' = faults + 1

\* Mutant: an error of a statement is ignored, the loop goes on.
StatementSkipped(p) ==
  /\ pc[p] = "migrating"
  /\ next[p] <= Len(MIGRATIONS)
  /\ Fault
  /\ next' = [next EXCEPT ![p] = @ + 1]
  /\ UNCHANGED <<schema, pc>>

\* The file is busy, full or unreadable: the error ends main() through its question marks.
StatementFails(p) ==
  /\ pc[p] = "migrating"
  /\ next[p] <= Len(MIGRATIONS)
  /\ Fault
  /\ Goto(p, "down")
  /\ UNCHANGED <<schema, next>>

Migrated(p) ==
  /\ pc[p] = "migrating"
  /\ next[p] > Len(MIGRATIONS)
  /\ Goto(p, "connecting")
  /\ UNCHANGED <<schema, next, faults>>

\* The NetworkManager was built and spawned: sessions may open from here on.
start_network(p) ==
  /\ pc[p] = "connecting"
  /\ Goto(p, "networked")
  /\ UNCHANGED <<schema, next, faults>>

\* The PeerManager subscribes and is spawned, and node.start() is awaited for good.
Runs(p) ==
  /\ pc[p] = "networked"
  /\ Goto(p, "running")
  /\ UNCHANGED <<schema, next, faults>>

\* A step fails (load_pools is unwrapped, the others end main() with an error), or the
\* process is killed.
Dies(p) ==
  /\ pc[p] # "down"
  /\ Fault
  /\ Goto(p, "down")
  /\ UNCHANGED <<schema, next>>

Next ==
  \E p \in Procs :
    \/ load_pools(p)
    \/ Open(p)
    \/ execute_batch(p)
    \/ StatementFails(p)
    \/ Migrated(p)
    \/ start_network(p)
    \/ Runs(p)
    \/ Dies(p)

Spec == Init /\ [][Next]_startupVars

\* A process that ended is started again, and one that runs goes on.
Fairness ==
  \A p \in Procs :
    WF_startupVars(load_pools(p) \/ Open(p) \/ execute_batch(p) \/ Migrated(p) \/ start_network(p) \/ Runs(p))

FairSpec == Spec /\ Fairness

-----------------------------------------------------------------------------
(* Correctness *)

\* Whatever failed, and whoever else was migrating, the file holds what some first
\* part of MIGRATIONS creates, and no process expects a table that is not there:
\* the partial migration that run_migrations warns of (schema.rs:155) has a known shape.
SchemaIsPrefix ==
  /\ \E k \in 0..Len(MIGRATIONS) : schema = Created(k)
  /\ \A p \in Procs : pc[p] = "migrating" => Created(next[p] - 1) \subseteq schema

\* The network is started, and events can be stored, only on the full schema.
FullSchemaBeforeNetwork ==
  \A p \in Procs : pc[p] \in {"connecting", "networked", "running"} => schema = Objects

\* Starting again after any failures gets the program running (schema.rs:150: the
\* statements are safe to repeat): a partial migration is no dead end.
StartsInTheEnd == \A p \in Procs : <>[](pc[p] = "running")
=============================================================================
