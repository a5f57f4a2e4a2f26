------------------------------- MODULE MCNode -------------------------------
(***************************************************************************)
(* Node for TLC: two peers, two handlers at a time, a few transactions.    *)
(***************************************************************************)
EXTENDS Node

\* A pool whose address has letters, one whose address has none, and a stranger.
Lettered == "0x36..ab"
Digits == "0x36..50"
Stranger == "0x00..ee"

MCCaseless == {Digits}

\* pools.json as it is: lower case throughout.
ShippedPools == {Spelled(Lettered, "lower"), Spelled(Digits, "lower")}

\* The same pools in a file that spells addresses as to_string does.
ChecksummedPools == {to_string(Lettered), to_string(Digits)}

\* A 32-byte word from its last byte and the byte that fills the rest of it.
Word(fill, last) == [k \in 1..31 |-> fill] \o <<last>>

\* swap(recipient, zeroForOne, amountSpecified, ..): the last byte of the recipient's
\* address, the bool, and the amounts 1 and -1.
SwapInputs ==
  {SEL_SWAP \o Word(0, recipient) \o Word(0, zeroForOne) \o amount :
     recipient \in {0, 7}, zeroForOne \in {0, 1}, amount \in {Word(0, 1), Word(255, 255)}}

Inputs == {<<>>, SEL_MINT, SEL_BURN \o <<0>>, SEL_COLLECT, SEL_SWAP, <<1, 2, 3, 4>>}

Tx(to, input) == [to |-> to, input |-> input]
Event(kind, txs) == [kind |-> kind, txs |-> txs]

\* One of each kind; the transactions are a deployment, then calls of three addresses.
LoopEvents ==
  {Event("get", <<>>), Event("hashes", <<>>),
   Event("transactions", <<Tx(NoAddress, <<>>), Tx(Stranger, SEL_MINT), Tx(Digits, SEL_MINT)>>)}

\* Every call of every pool, one to a message.
CallEvents ==
  {Event("transactions", <<Tx(a, i)>>) : a \in {Lettered, Digits}, i \in Inputs \cup SwapInputs}
=============================================================================
