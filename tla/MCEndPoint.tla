----------------------------- MODULE MCEndPoint -----------------------------
(* A button, a sensor, an on/off output and a bulb on one end point.         *)
EXTENDS EndPoint
=============================================================================
