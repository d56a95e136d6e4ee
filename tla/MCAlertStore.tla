---------------------------- MODULE MCAlertStore ----------------------------
(* The alert store on a small instance: two alerts, of one event or of two,   *)
(* and a clock that lets a hash expire twice.                                 *)
EXTENDS AlertStore, TLC

CONSTANTS h1, h2, e1, e2

MCHash    == {h1, h2}
MCEvent   == {e1, e2}
MCEventOf == (h1 :> e1) @@ (h2 :> e2)
=============================================================================
