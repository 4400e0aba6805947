---------------------------- MODULE ServerFilesMC ----------------------------
(* ServerFiles on a small instance.                                        *)
EXTENDS ServerFiles, TLC

(* Calls, connections and sites are interchangeable.                       *)
Symmetry == Permutations(Call) \cup Permutations(Conn) \cup Permutations(Site)

=============================================================================
