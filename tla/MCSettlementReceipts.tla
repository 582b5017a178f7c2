------------------------ MODULE MCSettlementReceipts ------------------------
(* Two rounds, a rejection and a promotion. *)
EXTENDS SettlementReceipts
=============================================================================
