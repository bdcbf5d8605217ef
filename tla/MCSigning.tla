----------------------------- MODULE MCSigning ------------------------------
(* Two signatures of three: one signer is local, one is called by others   *)
(* than the generator too.                                                 *)
EXTENDS Signing
=============================================================================
