-------------------------- MODULE MCIqrController --------------------------
(***************************************************************************)
(* Two sessions, two objects, two callers, two expiration threads.         *)
(***************************************************************************)
EXTENDS IqrController, TLC

CONSTANTS s1, s2, i1, i2, c1, c2, m1, m2

MCSession == {s1, s2}
MCInstance == {i1, i2}
MCCaller == {c1, c2}
MCMonitor == {m1, m2}
=============================================================================
