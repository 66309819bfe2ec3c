---------------------------- MODULE MCRateLimit ---------------------------
(***************************************************************************)
(* Small instances of RateLimitClients.                                    *)
(***************************************************************************)
EXTENDS RateLimitClients

Config(limit, window, burst) == [limit |-> limit, window |-> window, burst |-> burst]

\* Two steps that share their keys, windows of two seconds and of one; the
\* second asks for a window of 0 and its limit wraps to 0.
Shared == {Config(1, 2, 1), Config(2, 0, 2)}
===========================================================================
