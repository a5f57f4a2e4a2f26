-------------------------------- MODULE Rows --------------------------------
(***************************************************************************)
(* The rows of src/db/models.rs and the two tables that keep them, with    *)
(* the constraints of src/db/schema.rs.  A pool's logs are converted to    *)
(* the column types by the constructors: casts between integers of one     *)
(* width, hexadecimal and decimal text.  Widths and the base of the text   *)
(* are scaled down by the constants.                                       *)
(*                                                                         *)
(* No code writes the tables yet (src/db/queries.rs is empty): Deliver is  *)
(* the INSERT of a row as a constructor makes it, for logs that arrive in  *)
(* any order and more than once.                                           *)
(***************************************************************************)
EXTENDS Integers, Sequences, FiniteSets, SequencesExt, FiniteSetsExt

CONSTANTS
  Wide,     \* width of u64 and i64
  Narrow,   \* width of u32 and i32
  Base,     \* base of hexadecimal text (16), and of decimal text (10)
  Logs      \* the logs a pool may emit

Unsigned(w) == 0..(2^w - 1)

\* The logs have the types of the constructors' parameters; an i128, a u128 and a U256
\* are numbers of any size, since only their text is stored.
ASSUME RowsAssumption ==
  /\ Wide \in Nat \ {0}
  /\ Narrow \in Nat \ {0}
  /\ Base \in Nat \ {0, 1}
  /\ \A log \in Logs :
       /\ log.block \in Unsigned(Wide) /\ log.ts \in Unsigned(Wide)
       /\ log.log_idx \in Unsigned(Narrow)
       /\ \/ /\ log.kind = "Swap"
             /\ {log.amount0, log.amount1} \subseteq Int
             /\ {log.sqrt_price, log.liquidity} \subseteq Nat
          \/ /\ log.kind \in {"Mint", "Burn"}
             /\ {log.amount, log.amount0, log.amount1} \subseteq Nat

VARIABLES
  swaps,              \* the rows of the table
  liquidity_changes,  \* the rows of the table
  delivered,          \* the logs delivered so far
  refused             \* the last INSERT violated a constraint

vars == <<swaps, liquidity_changes, delivered, refused>>

-----------------------------------------------------------------------------
(* Conversions *)

\* Mutant: the index goes through an integer of half the width.
CastHalf(v, w) == v % 2^(w \div 2)

\* Mutant: the value is kept as it is.
Uncut(v, w) == v

\* `as` to the signed type of the same width: two's complement.
Cast(v, w) == IF v < 2^(w - 1) THEN v ELSE v - 2^w

\* Digits of a natural number, most significant first and without leading zeros.
Digits[v \in Nat] ==
  IF v < Base THEN <<v>> ELSE Append(Digits[v \div Base], v % Base)

\* u128_to_hex and u256_to_hex: the digits, unpadded.
u128_to_hex(v) == Digits[v]

\* i128_to_str: decimal, behind a sign if negative.
i128_to_str(v) == [minus |-> v < 0, digits |-> Digits[IF v < 0 THEN -v ELSE v]]

\* An address or a hash as text: its bytes in lower-case hexadecimal.
Text(a) == <<"0x", a>>

\* What the columns mean to whoever reads them back.
Uncast(v, w) == v % 2^w
Number(digits) == FoldLeft(LAMBDA n, d : n * Base + d, 0, digits)
FromHex(t) == Number(t)
FromStr(t) == IF t.minus THEN -Number(t.digits) ELSE Number(t.digits)

-----------------------------------------------------------------------------
(* LiquidityChangeKind *)

as_str(kind) == CASE kind = "Mint" -> "mint" [] kind = "Burn" -> "burn"

\* None for any other text.
from_str(s) == CASE s = "mint" -> {"Mint"} [] s = "burn" -> {"Burn"} [] OTHER -> {}

\* Mutant: liquidity is added by burns as well.
AlwaysPlus(kind) == 1

sign(kind) == IF kind = "Mint" THEN 1 ELSE -1

-----------------------------------------------------------------------------
(* The rows, and the tables *)

\* The columns both tables have.
Identity(log) ==
  [pool_address |-> Text(log.pool),
   block_number |-> Cast(log.block, Wide),
   block_timestamp |-> Cast(log.ts, Wide),
   tx_hash |-> Text(log.tx),
   log_index |-> Cast(log.log_idx, Narrow)]

SwapRow(log) ==
  [id |-> Identity(log),
   sender |-> Text(log.sender),
   recipient |-> Text(log.recipient),
   amount0 |-> i128_to_str(log.amount0),
   amount1 |-> i128_to_str(log.amount1),
   sqrt_price_x96 |-> u128_to_hex(log.sqrt_price),
   liquidity |-> u128_to_hex(log.liquidity),
   tick |-> log.tick]

\* sender is a set: at most one for a mint, none (NULL) for a burn.
LiquidityChangeRow(log) ==
  [id |-> Identity(log),
   event_type |-> as_str(log.kind),
   owner |-> Text(log.owner),
   sender |-> {Text(a) : a \in log.sender},
   tick_lower |-> log.tick_lower,
   tick_upper |-> log.tick_upper,
   amount |-> u128_to_hex(log.amount),
   amount0 |-> u128_to_hex(log.amount0),
   amount1 |-> u128_to_hex(log.amount1)]

\* UNIQUE (tx_hash, log_index)
Unique(table, row) ==
  \A r \in table : r.id.tx_hash # row.id.tx_hash \/ r.id.log_index # row.id.log_index

\* CHECK (event_type IN ('mint', 'burn'))
Checked(row) == row.event_type \in {"mint", "burn"}

Init ==
  /\ swaps = {}
  /\ liquidity_changes = {}
  /\ delivered = {}
  /\ refused = FALSE

\* A position of a transaction holds one log, however often it is delivered.
Emitted(log) ==
  \A l \in delivered : l.tx = log.tx /\ l.log_idx = log.log_idx => l = log

InsertSwap(log) ==
  /\ log.kind = "Swap"
  /\ refused' = ~Unique(swaps, SwapRow(log))
  /\ swaps' = IF refused' THEN swaps ELSE swaps \cup {SwapRow(log)}
  /\ UNCHANGED liquidity_changes

InsertLiquidityChange(log) ==
  /\ log.kind # "Swap"
  /\ LET row == LiquidityChangeRow(log)
     IN /\ refused' = ~(Unique(liquidity_changes, row) /\ Checked(row))
        /\ liquidity_changes' =
             IF refused' THEN liquidity_changes ELSE liquidity_changes \cup {row}
  /\ UNCHANGED swaps

Deliver(log) ==
  /\ Emitted(log)
  /\ InsertSwap(log) \/ InsertLiquidityChange(log)
  /\ delivered' = delivered \cup {log}

Next == \E log \in Logs : Deliver(log)

Spec == Init /\ [][Next]_vars

-----------------------------------------------------------------------------
(* Correctness *)

TypeOK ==
  /\ delivered \subseteq Logs
  /\ \A r \in swaps \cup liquidity_changes :
       /\ r.id.block_number \in -(2^(Wide - 1))..(2^(Wide - 1) - 1)
       /\ r.id.block_timestamp \in -(2^(Wide - 1))..(2^(Wide - 1) - 1)
       /\ r.id.log_index \in -(2^(Narrow - 1))..(2^(Narrow - 1) - 1)
  /\ refused \in BOOLEAN

SameIdentity(row, log) ==
  /\ row.id.pool_address = Text(log.pool)
  /\ Uncast(row.id.block_number, Wide) = log.block
  /\ Uncast(row.id.block_timestamp, Wide) = log.ts
  /\ row.id.tx_hash = Text(log.tx)
  /\ Uncast(row.id.log_index, Narrow) = log.log_idx

IsSwap(row, log) ==
  /\ log.kind = "Swap"
  /\ SameIdentity(row, log)
  /\ FromStr(row.amount0) = log.amount0
  /\ FromStr(row.amount1) = log.amount1
  /\ FromHex(row.sqrt_price_x96) = log.sqrt_price
  /\ FromHex(row.liquidity) = log.liquidity

IsLiquidityChange(row, log) ==
  /\ log.kind \in from_str(row.event_type)
  /\ SameIdentity(row, log)
  /\ FromHex(row.amount) = log.amount
  /\ FromHex(row.amount0) = log.amount0
  /\ FromHex(row.amount1) = log.amount1

\* The tables hold every delivered log exactly once, in whatever order and however
\* often the logs came, and a row reads back to the log it was made from: no cast
\* and no text makes two logs of a pool collide under UNIQUE (tx_hash, log_index),
\* and none loses a bit of the largest or of a negative value.
StoredOnce ==
  /\ Cardinality(swaps) + Cardinality(liquidity_changes) = Cardinality(delivered)
  /\ \A log \in delivered :
       \/ \E row \in swaps : IsSwap(row, log)
       \/ \E row \in liquidity_changes : IsLiquidityChange(row, log)

\* Summing sign * amount over the stored rows, as the comment at models.rs:192 has a
\* reader do, gives the liquidity the delivered logs added less what they removed.
NetLiquidity ==
  MapThenSumSet(LAMBDA row : sign(CHOOSE k \in from_str(row.event_type) : TRUE) * FromHex(row.amount),
                liquidity_changes)
  = MapThenSumSet(LAMBDA log : IF log.kind = "Mint" THEN log.amount ELSE -log.amount,
                  {log \in delivered : log.kind # "Swap"})
=============================================================================
