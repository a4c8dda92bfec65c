---------------------------- MODULE MCCompanion ----------------------------
(* Companion with two accounts, two transactions and a history of two entries; a user who    *)
(* visits the history does not change the account.                                            *)
EXTENDS Companion

MCTxs == {"TX1", "TX2"}
MCMenus == {{"SHOW_BALANCE", "SHOW_ADDRESS", "VERIFY_ADDRESS", "ACCOUNT_SELECT"},
            {"SHOW_ADDRESS", "TX_HISTORY"}}
=============================================================================
