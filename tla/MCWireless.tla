----------------------------- MODULE MCWireless -----------------------------
(* Two networks with a password; a controller and another device, both     *)
(* paired.                                                                 *)
EXTENDS Wireless

CONSTANTS home, cafe, pad, clock

MCDevices == <<pad, clock>>
MCKindOf == (pad :> "Controller") @@ (clock :> "Other")
=============================================================================
