----------------------------- MODULE MCChannels -----------------------------
(* Channels, with one member that listens to everything and one that answers  *)
(* when it is addressed.                                                      *)
EXTENDS Channels, TLC

CONSTANTS listener, answerer

MCMode        == (listener :> "all") @@ (answerer :> "mentions")
MCAddressings == {{answerer}}
=============================================================================
