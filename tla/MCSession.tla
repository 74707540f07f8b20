----------------------------- MODULE MCSession -----------------------------
(* An instance of Session for TLC: two users, two connections, so that one *)
(* user comes over both and one connection serves both.                    *)
EXTENDS Session
CONSTANTS c1, c2, a, b
=============================================================================
