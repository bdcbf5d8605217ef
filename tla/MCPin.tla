------------------------------- MODULE MCPin --------------------------------
(* The pins of the account manager and the transaction indexer, with the   *)
(* waits of their callbacks.  The asset pin waits like the account pin and *)
(* the expiry pin like delete_spents.                                      *)
EXTENDS Pin

MCName == {"account", "tx", "delete_spents"}
MCNeeds == {<<"tx", "account", 0>>, <<"tx", "tx", 1>>,
            <<"delete_spents", "account", 0>>, <<"delete_spents", "tx", 0>>}
MCTxName == {"account", "tx"}
MCTxNeeds == {<<"tx", "account", 0>>, <<"tx", "tx", 1>>}
=============================================================================
