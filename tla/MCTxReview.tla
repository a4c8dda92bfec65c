----------------------------- MODULE MCTxReview -----------------------------
(* Transactions for TLC: each is there for a way that the review can take.    *)
EXTENDS TxReviewProperties

External == [script |-> "p2wpkh", lengthByte |-> FALSE, owned |-> FALSE,
             participant |-> FALSE, signed |-> FALSE, rbf |-> FALSE]
Own == [External EXCEPT !.owned = TRUE]
OwnMultisig == [Own EXCEPT !.script = "multisig", !.participant = TRUE, !.signed = TRUE]
TheInputs == {External, Own, [Own EXCEPT !.rbf = TRUE], [Own EXCEPT !.script = "p2tr"],
              OwnMultisig, [OwnMultisig EXCEPT !.participant = FALSE],
              [Own EXCEPT !.lengthByte = TRUE], [Own EXCEPT !.lengthByte = TRUE, !.rbf = TRUE]}

Pays == FALSE
Change == TRUE
Payment == [inputs |-> <<Own>>, outputs |-> <<Pays, Change>>,
            locktime |-> FALSE, readable |-> TRUE]

(* DEMO_PSBT: one P2WPKH input in the form of BIP 174, replaceable.           *)
TheDemo == [Payment EXCEPT !.inputs = <<[Own EXCEPT !.lengthByte = TRUE, !.rbf = TRUE]>>]
CoinControlTx == [Payment EXCEPT !.inputs = <<External, [Own EXCEPT !.script = "p2tr"], Own>>,
                                 !.outputs = <<Pays, Change, Pays>>]
ReplaceableTx == [Payment EXCEPT !.inputs = <<[Own EXCEPT !.rbf = TRUE]>>, !.locktime = TRUE]
MultisigTx == [Payment EXCEPT !.inputs = <<OwnMultisig, [OwnMultisig EXCEPT !.participant = FALSE]>>]
ForeignTx == [Payment EXCEPT !.inputs = <<External>>]
AllChangeTx == [Payment EXCEPT !.outputs = <<Change>>, !.locktime = TRUE]
GarbledTx == [Payment EXCEPT !.inputs = <<>>, !.outputs = <<>>, !.readable = FALSE]
StandardTx == [Payment EXCEPT !.inputs = <<Own, [Own EXCEPT !.lengthByte = TRUE]>>]

TheTxs == {CoinControlTx, ReplaceableTx, MultisigTx, ForeignTx, AllChangeTx, GarbledTx, StandardTx}
=============================================================================
