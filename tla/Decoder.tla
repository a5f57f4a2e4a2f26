------------------------------ MODULE Decoder ------------------------------
(***************************************************************************)
(* src/pool/decoder.rs: the call a transaction makes to a pool, read from  *)
(* its calldata.  Calldata is a sequence of bytes; the code counts them    *)
(* from 0, a sequence from 1.  An i128 stays the 16 bytes it is read from. *)
(***************************************************************************)
EXTENDS Naturals, Sequences

SEL_SWAP == <<18, 138, 203, 8>>
SEL_MINT == <<60, 138, 125, 141>>
SEL_BURN == <<163, 65, 35, 167>>
SEL_COLLECT == <<79, 30, 179, 216>>

\* input[from..to] of the code.
Slice(input, from, to) == SubSeq(input, from + 1, to)

Zero128 == [k \in 1..16 |-> 0]

NoCall == [call |-> "none"]
Swap(zero_for_one, amount_specified) ==
  [call |-> "swap", zero_for_one |-> zero_for_one, amount_specified |-> amount_specified]

DecodeSwap(input) ==
  IF Len(input) < 68 THEN Swap(FALSE, Zero128)
  ELSE Swap(Slice(input, 35, 36) # <<0>>, Slice(input, 52, 68))

decode_pool_calldata(input) ==
  IF Len(input) < 4 THEN NoCall ELSE
  LET selector == Slice(input, 0, 4) IN
  CASE selector = SEL_SWAP    -> DecodeSwap(input)
    [] selector = SEL_MINT    -> [call |-> "mint"]
    [] selector = SEL_BURN    -> [call |-> "burn"]
    [] selector = SEL_COLLECT -> [call |-> "collect"]
    [] OTHER                  -> [call |-> "unknown", selector |-> selector]

-----------------------------------------------------------------------------
(* The contract's own encoding of swap(address,bool,int256,uint160,bytes), the *)
(* signature in the decoder's comment: argument i fills the 32 bytes from       *)
(* 4 + 32 * i, a bool in the last of them, an i128 in the last 16.              *)

ArgumentEnd(i) == 4 + 32 * (i + 1)

AbiSwap(input) ==
  Swap(Slice(input, ArgumentEnd(1) - 1, ArgumentEnd(1)) # <<0>>,
       Slice(input, ArgumentEnd(2) - 16, ArgumentEnd(2)))
=============================================================================
