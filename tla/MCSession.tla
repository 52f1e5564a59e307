----------------------------- MODULE MCSession -----------------------------
(* A machine of two parts with two contents each, one slot and a history   *)
(* of two frames: every pattern of changed and unchanged parts, and the    *)
(* dropping of the oldest frame.                                           *)
EXTENDS Session
=============================================================================
