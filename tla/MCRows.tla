------------------------------- MODULE MCRows -------------------------------
EXTENDS Rows, TLC

MaxU64 == 2^Wide - 1
MaxU32 == 2^Narrow - 1

\* Positions: the first, and either side of the sign bit of the 32-bit column.
Positions == {"t1", "t2"} \X {0, 2^(Narrow - 1) - 1, MaxU32}

Place(pos, block) == [pool |-> "pool", block |-> block, ts |-> block, tx |-> pos[1], log_idx |-> pos[2]]

Swap(amount, price) ==
  [kind |-> "Swap", sender |-> "a1", recipient |-> "a2", amount0 |-> amount, amount1 |-> -amount,
   sqrt_price |-> price, liquidity |-> price, tick |-> -1]

Change(kind, sender, amount) ==
  [kind |-> kind, owner |-> "a1", sender |-> sender, tick_lower |-> -1, tick_upper |-> 1,
   amount |-> amount, amount0 |-> 0, amount1 |-> amount]

\* Amounts of no, one and several digits; blocks at both ends of u64.
MCLogs ==
  {s @@ Place(pos, 2^(Wide - 1)) : s \in {Swap(-Base, Base * Base)}, pos \in Positions}
  \cup {c @@ Place(pos, MaxU64) : c \in {Change("Mint", {"a2"}, Base + 1), Change("Burn", {}, 1)},
                                  pos \in Positions}
=============================================================================
