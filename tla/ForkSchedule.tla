---------------------------- MODULE ForkSchedule ----------------------------
(***************************************************************************)
(* The hard forks of src/network/chainspec.rs and what reth makes of them  *)
(* (EIP-2124 and EIP-6122, external): the fork id a node announces and the *)
(* filter it holds the fork id of a peer against.  A fork hash stands for  *)
(* the forks that were folded into the checksum, in order.                 *)
(***************************************************************************)
EXTENDS Naturals, Sequences, FiniteSets, SequencesExt

\* Mutant: two entries of the list change places.
MisorderedForks ==
  [block |-> [i \in 1..11 |-> 0] \o
     <<5184000, 13082000, 18907621, 21962149, 22107423, 23846001, 27281024,
       29020050, 30720096, 31302048, 31302048, 31302048, 34140700>>,
   time |-> <<1705996800, 1705996800, 1713419340, 1713419340, 1718863500,
              1718863500, 1727317200, 1727316120, 1742436600, 1742436600>>]

\* BscHardfork::bsc_mainnet, in the order of the list: Frontier to Niels at the
\* genesis, MirrorSync to HertzFix by block number, Shanghai to Prague by timestamp.
bsc_mainnet ==
  [block |-> [i \in 1..11 |-> 0] \o
     <<5184000, 13082000, 18907621, 21962149, 22107423, 23846001, 27281024,
       29020050, 30720096, 31302048, 31302048, 31302048, 34140700>>,
   time |-> <<1705996800, 1705996800, 1713419340, 1713419340, 1718863500,
              1718863500, 1727316120, 1727317200, 1742436600, 1742436600>>]

\* The head the node announces, whatever the chain has come to since.
head == [number |-> 40000000, timestamp |-> 1742436600]

-----------------------------------------------------------------------------
(* reth: ChainSpec::fork_id and ForkFilter::validate *)

\* The entries before the first one that lies ahead of position `at'.
Reached(forks, at) ==
  LET ahead == SelectInSeq(forks, LAMBDA f : f > at)
  IN IF ahead = 0 THEN forks ELSE SubSeq(forks, 1, ahead - 1)

\* Forks in force since the genesis and repeated entries are folded in once.
Folded(forks) ==
  FoldLeft(LAMBDA hash, f : IF f = Last(<<0>> \o hash) THEN hash ELSE Append(hash, f),
           <<>>, forks)

\* The walk over the list stops at the first entry the head has not reached.
fork_id(schedule, h) ==
  LET blocks == Reached(schedule.block, h.number)
      times  == Reached(schedule.time, h.timestamp)
  IN IF blocks # schedule.block
       THEN [hash |-> Folded(blocks), next |-> schedule.block[Len(blocks) + 1]]
     ELSE IF times # schedule.time
       THEN [hash |-> Folded(blocks \o times), next |-> schedule.time[Len(times) + 1]]
     ELSE [hash |-> Folded(blocks \o times), next |-> 0]

\* The filter keeps the forks in a sorted set.
Sorted(forks) ==
  LET S == ToSet(forks) \ {0}
  IN [i \in 1..Cardinality(S) |-> CHOOSE f \in S : Cardinality({g \in S : g <= f}) = i]

\* Above this value an announced fork is a timestamp (TIMESTAMP_BEFORE_ETHEREUM_MAINNET).
OldestTime == 1300000000

Passed(h, at) == IF at > OldestTime THEN h.timestamp >= at ELSE h.number >= at

\* The peer is at our fork and knows none that we passed; or is behind and knows the
\* fork that follows; or is ahead along forks we know.
Accepts(schedule, h, id) ==
  LET all    == Sorted(schedule.block) \o Sorted(schedule.time)
      passed == Len(Reached(Sorted(schedule.block), h.number))
                  + Len(Reached(Sorted(schedule.time), h.timestamp))
  IN \/ /\ id.hash = SubSeq(all, 1, passed)
        /\ id.next = 0 \/ ~Passed(h, id.next)
     \/ \E n \in 0..(passed - 1) : id.hash = SubSeq(all, 1, n) /\ id.next = all[n + 1]
     \/ \E n \in (passed + 1)..Len(all) : id.hash = SubSeq(all, 1, n)
=============================================================================
