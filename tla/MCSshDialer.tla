----------------------------- MODULE MCSshDialer -----------------------------
(* Model of the ssh dialer's session cache for TLC: one upstream address, *)
(* two router goroutines and three physical connections, enough for a     *)
(* session to die, be replaced, and a stale conn to be handshaken late.   *)
EXTENDS SshDialer, TLC

MCCallers == {"p1", "p2"}
MCAddrs == {"a1"}

Symmetry == Permutations(MCCallers)
=============================================================================
