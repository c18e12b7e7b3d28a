--------------------------- MODULE MCWalletKeeper ---------------------------
(***************************************************************************)
(* Model values for WalletKeeper.  One tick stands for about two minutes:   *)
(* the order of the code's durations is kept, up to ties (SETTLE_AFTER, a   *)
(* deposit, TOPUP_BACKOFF_BASE, a reclaim phase, ...), their ratios are not.*)
(***************************************************************************)
EXTENDS WalletKeeper

CONSTANTS c1

NoChannels  == {}
OneChannel  == {c1}
Never       == {FALSE}
Always      == {TRUE}
Sometimes   == {TRUE, FALSE}
NoManual    == {}
Deposits    == {"deposit_manual"}
=============================================================================
