------------------------------ MODULE MCWallet ------------------------------
(* Instances of Wallet for TLC: the .cfg files give model values to mnemonics, *)
(* PINs and device ids, which the code only ever compares for equality.        *)
EXTENDS WalletProperties

(* Bound of WalletFaults.cfg: no firmware hash is provisioned.  Nothing in the *)
(* model reads it; wallet_crash has it.                                        *)
NotProvisioned == keys["FW_HASH"] = None
=============================================================================
