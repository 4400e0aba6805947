----------------------------- MODULE KnownHostsMC -----------------------------
EXTENDS KnownHosts, TLC

(* Connections, hosts and comparable keys are interchangeable.             *)
Symmetric ==
    Permutations(Conn) \cup Permutations(Host) \cup Permutations(Key \ Opaque)

=============================================================================
