----------------------------- MODULE MCSettings -----------------------------
(* The settings node alone, against every response frame in every order.     *)
(* One setting on each channel, and a deadline of one tick: it may pass in   *)
(* every state of every sequence.                                            *)
EXTENDS Settings

MCItems   == {"doorUnlock", "seat"}
MCTimeout == 1
=============================================================================
