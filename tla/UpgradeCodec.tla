---------------------------- MODULE UpgradeCodec ----------------------------
(***************************************************************************)
(* The UpgradeStatus message of src/network/upgrade.rs, as sequences of    *)
(* bytes: a message id, then an extension with one flag.                   *)
(***************************************************************************)
EXTENDS Naturals, Sequences, SequencesExt

UPGRADE_STATUS_MESSAGE_ID == 11

\* RLP of the derived codec of UpgradeStatusExtension: a list of one boolean.
Extension(disable) == <<193, IF disable THEN 1 ELSE 128>>

\* UpgradeStatus::encode, and into_rlpx.
Encode(disable) == <<UPGRADE_STATUS_MESSAGE_ID>> \o Extension(disable)

Decoded(disable) == [kind |-> "ok", disable |-> disable]
Malformed == [kind |-> "error", disable |-> FALSE]
Panicked == [kind |-> "panic", disable |-> FALSE]

\* The derived decoder reads one extension and leaves what follows it alone.
DecodeExtension(buf) ==
  IF IsPrefix(Extension(FALSE), buf) THEN Decoded(FALSE)
  ELSE IF IsPrefix(Extension(TRUE), buf) THEN Decoded(TRUE)
  ELSE Malformed

\* Mutant: the byte after the id is taken for a part of the extension.
DecodeWithoutSkip(buf) ==
  IF buf # <<>> /\ Head(buf) = UPGRADE_STATUS_MESSAGE_ID
    THEN DecodeExtension(Tail(buf))
    ELSE Malformed

\* UpgradeStatus::decode: the id, one byte that is skipped unseen (in geth's message
\* the header of an outer list), the extension.  advance(1) panics when the message
\* ends with the id.
Decode(buf) ==
  CASE buf = <<>> \/ Head(buf) # UPGRADE_STATUS_MESSAGE_ID -> Malformed
    [] buf = <<UPGRADE_STATUS_MESSAGE_ID>> -> Panicked
    [] OTHER -> DecodeExtension(SubSeq(buf, 3, Len(buf)))
=============================================================================
