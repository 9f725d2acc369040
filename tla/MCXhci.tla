------------------------------- MODULE MCXhci -------------------------------
(* Two ports and as many slots, one key: each port can wait for the other, *)
(* the command ring goes round, and the event ring is small enough to fill *)
(* up and to go round many times.                                          *)
EXTENDS Xhci

MCKinds == {<<"keyboard", "keyboard2">>, <<"unsupported", "keyboard">>}
=============================================================================
