----------------------------- MODULE MCBacktest -----------------------------
(* Backtest on a run of two sessions: the constants the .cfg files refer to. *)
EXTENDS Backtest

BothModes == {"next_open", "same_close"}
NextOpen == {"next_open"}
=============================================================================
