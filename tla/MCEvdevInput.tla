---------------------------- MODULE MCEvdevInput ----------------------------
(* The built-in pad on its path, a keyboard that may come to the other one. *)
EXTENDS EvdevInput, TLC

CONSTANTS pad, board, event0, event1

MCPorts == <<event0, event1>>
MCInitiallyAt == (event0 :> pad) @@ (event1 :> None)
MCGamepadScore == (pad :> 8) @@ (board :> 0)
MCKeyboardScore == (pad :> 0) @@ (board :> 9)
MCKeys == (pad :> {"Up", "A", "Start"}) @@ (board :> {"Up", "A", "X"})
MCCaptureOrder == <<"Up", "A">>
=============================================================================
