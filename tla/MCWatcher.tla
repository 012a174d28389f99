----------------------------- MODULE MCWatcher -----------------------------
(* Watcher for TLC: two sessions of two lines over a channel of one line,  *)
(* so that senders park, with a cancellation or a Stop at any point.       *)
EXTENDS Watcher
=============================================================================
