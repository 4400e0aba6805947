-------------------------- MODULE SessionDirectory ---------------------------
(***************************************************************************)
(* What the session registry (transport/manager.rs with connect and        *)
(* disconnect of tools/session_tools.rs) promises about each session, said *)
(* without tasks, locks or reference counts: the life cycle of a session,  *)
(* and that a name belongs to one registered session at a time.            *)
(* SessionRegistry implements it.                                          *)
(***************************************************************************)
CONSTANTS Name, Sid, None

VARIABLES
    phase,      \* [Sid -> Phases]
    name        \* [Sid -> Name \cup {None}]

vars == <<phase, name>>

Phases == {"free", "private", "registered", "withdrawn", "closed"}

Init ==
    /\ phase = [s \in Sid |-> "free"]
    /\ name = [s \in Sid |-> None]

(* Session s goes from phase a to phase b and keeps its name.              *)
Move(s, a, b) ==
    /\ phase[s] = a
    /\ phase' = [phase EXCEPT ![s] = b]
    /\ UNCHANGED name

(* Session s goes from phase a out of existence.                           *)
Vanish(s, a) ==
    /\ phase[s] = a
    /\ phase' = [phase EXCEPT ![s] = "free"]
    /\ name' = [name EXCEPT ![s] = None]

(* A transport was opened for a connect call.                              *)
Open(s, n) ==
    /\ phase[s] = "free"
    /\ phase' = [phase EXCEPT ![s] = "private"]
    /\ name' = [name EXCEPT ![s] = n]

(* The connect failed after that, or found its name taken.                 *)
Discard(s) == Vanish(s, "private")

Register(s) ==
    /\ \A r \in Sid : phase[r] = "registered" => name[r] # name[s]
    /\ Move(s, "private", "registered")

Withdraw(s) == Move(s, "registered", "withdrawn")

Close(s) == Move(s, "withdrawn", "closed")

(* The last call that used the session has let go of it.                   *)
Reclaim(s) == Vanish(s, "closed")

Next == \E s \in Sid :
    \/ \E n \in Name : Open(s, n)
    \/ Discard(s)
    \/ Register(s)
    \/ Withdraw(s)
    \/ Close(s)
    \/ Reclaim(s)

Spec == Init /\ [][Next]_vars

=============================================================================
