---------------------------- MODULE MCPsbtSigner ----------------------------
(* Inputs in the form of BIP 174, for TLC.                                    *)
EXTENDS PsbtSigner

External == [script |-> "p2wpkh", lengthByte |-> FALSE, owned |-> FALSE,
             participant |-> FALSE, signed |-> FALSE, rbf |-> FALSE]
Own == [External EXCEPT !.owned = TRUE]

(* Inputs as BIP 174, the demo PSBT and the parser's test have them.          *)
StandardInputs == {External, [Own EXCEPT !.lengthByte = TRUE]}
=============================================================================
