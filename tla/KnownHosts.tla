------------------------------ MODULE KnownHosts ------------------------------
(***************************************************************************)
(* Trust on first use (state.rs check_server_key, called by ssh_connect):  *)
(* every connection reads known_hosts for the host it is made to, and the  *)
(* first one appends a line "host:port key".  Connections are made by      *)
(* concurrent tool calls of several processes, which share the file and    *)
(* take no lock on it.                                                     *)
(*                                                                         *)
(* writeln! on a File makes one write for every piece of its format, so a  *)
(* line gets into the file as four fragments.  A write in append mode is   *)
(* atomic, a sequence of writes is not.                                    *)
(***************************************************************************)
EXTENDS Naturals, Sequences, SequencesExt

CONSTANTS
    Conn,       \* connections made
    Host,       \* host:port
    Key,        \* public keys
    Opaque,     \* those that cannot be written in OpenSSH form
    None,       \* no pin, no key
    Garbled,    \* a pin that is no key
    MaxRekeys   \* bound: how often hosts get another key

ASSUME ConstantsAssumption ==
    /\ Opaque \subseteq Key
    /\ None \notin Key \cup Host /\ Garbled \notin Key \cup {None}
    /\ MaxRekeys \in Nat

VARIABLES
    key,        \* the key each host shows at present
    rekeyed,    \* history: the hosts that have been given another key
    rekeys,     \* how often that has happened
    file,       \* known_hosts, a sequence of fragments
    pc,         \* where each connection's check is
    host, seen, \* its host and the key that it was shown
    todo,       \* the fragments it has still to write
    mixed,      \* history: has one been told to learn while another did?
    unread,     \* history: the connections that could not read their host's pin
    broken      \* history: has an open or a write failed, or a process died?

vars == <<key, rekeyed, rekeys, file, pc, host, seen, todo, mixed, unread, broken>>

Space     == [is |-> "space", val |-> None]
NewLine   == [is |-> "newline", val |-> None]
Id(h)     == [is |-> "id", val |-> h]
KeyText(k) == [is |-> "key", val |-> k]
Fragments == {Space, NewLine} \cup {Id(h) : h \in Host} \cup {KeyText(k) : k \in Key}

TypeOK ==
    /\ key \in [Host -> Key] /\ rekeyed \subseteq Host /\ rekeys \in 0..MaxRekeys
    /\ file \in Seq(Fragments)
    /\ pc \in [Conn -> {"new", "check", "learn", "write", "accepted",
                        "unchecked", "refused", "dead"}]
    /\ host \in [Conn -> Host \cup {None}] /\ seen \in [Conn -> Key \cup {None}]
    /\ todo \in [Conn -> Seq(Fragments)]
    /\ mixed \in BOOLEAN /\ broken \in BOOLEAN /\ unread \subseteq Conn
    /\ \A c \in Conn : pc[c] # "write" => todo[c] = <<>>

Init ==
    /\ key \in [Host -> Key]
    /\ rekeyed = {} /\ rekeys = 0
    /\ file = <<>>
    /\ pc = [c \in Conn |-> "new"]
    /\ host = [c \in Conn |-> None] /\ seen = [c \in Conn |-> None]
    /\ todo = [c \in Conn |-> <<>>]
    /\ mixed = FALSE /\ broken = FALSE /\ unread = {}

-----------------------------------------------------------------------------
(* How the file is read.                                                   *)

LineStarts == {i \in DOMAIN file : i = 1 \/ file[i - 1] = NewLine}

(* The line from fragment i on, without its end.                           *)
LineAt(i) ==
    SubSeq(file, i,
           Min({j \in i..Len(file) : file[j] = NewLine} \cup {Len(file) + 1}) - 1)

Trim(l) ==
    LET solid == {i \in DOMAIN l : l[i] # Space} IN
    IF solid = {} THEN <<>> ELSE SubSeq(l, Min(solid), Max(solid))

(* split_once(' ') on a trimmed line gives h and something else.           *)
Names(l, h) == Len(l) >= 2 /\ l[1] = Id(h) /\ l[2] = Space

KeyIn(l) ==
    LET rest == Trim(SubSeq(l, 3, Len(l))) IN
    IF Len(rest) = 1 /\ rest[1].is = "key" THEN rest[1].val ELSE Garbled

(* The pin of a host: what its first line says.                            *)
Pin(h) ==
    LET lines == {i \in LineStarts : Names(Trim(LineAt(i)), h)} IN
    IF lines = {} THEN None ELSE KeyIn(Trim(LineAt(Min(lines))))

-----------------------------------------------------------------------------
Goto(c, l) == pc' = [pc EXCEPT ![c] = l]

(* ssh_connect: the host is reached and shows its key.                     *)
Connect(c, h) ==
    /\ pc[c] = "new"
    /\ host' = [host EXCEPT ![c] = h]
    /\ seen' = [seen EXCEPT ![c] = key[h]]
    /\ Goto(c, "check")
    /\ UNCHANGED <<key, rekeyed, rekeys, file, todo, mixed, unread, broken>>

(* HostKeyPolicy::AcceptAny, the default: the file is not looked at.       *)
AcceptAny(c) ==
    /\ pc[c] = "check"
    /\ Goto(c, "unchecked")
    /\ UNCHANGED <<key, rekeyed, rekeys, file, host, seen, todo, mixed, unread, broken>>

(* The host is learned: its line is to be appended.                        *)
ToLearn(c) ==
    /\ Goto(c, "learn")
    /\ mixed' = (mixed \/ \E d \in Conn : pc[d] \in {"learn", "write"})

(* Faulty variant: a line with the key will do, whoever it is about.       *)
CheckKeyOnly(c) ==
    /\ pc[c] = "check"
    /\ LET pins == {Pin(h) : h \in Host} IN
       \/ seen[c] \in Opaque /\ Goto(c, "refused") /\ UNCHANGED <<mixed, unread>>
       \/ /\ seen[c] \notin Opaque
          /\ \/ seen[c] \in pins /\ Goto(c, "accepted") /\ UNCHANGED <<mixed, unread>>
             \/ /\ seen[c] \notin pins /\ Pin(host[c]) # None
                /\ Goto(c, "refused") /\ UNCHANGED <<mixed, unread>>
             \/ /\ seen[c] \notin pins /\ Pin(host[c]) = None
                /\ ToLearn(c) /\ UNCHANGED unread
             \/ /\ Pin(host[c]) # None
                /\ ToLearn(c) /\ unread' = unread \cup {c}
    /\ UNCHANGED <<key, rekeyed, rekeys, file, host, seen, todo, broken>>

(* HostKeyPolicy::Tofu: a key that cannot be compared or is not the pinned *)
(* one refuses the connection; a host without a pin is learned.  So is a   *)
(* host with one when the file cannot be read: too many files are open, it *)
(* is not this user's, or something in it is not UTF-8.                    *)
Check(c) ==
    /\ pc[c] = "check"
    /\ \/ seen[c] \in Opaque /\ Goto(c, "refused") /\ UNCHANGED <<mixed, unread>>
       \/ /\ seen[c] \notin Opaque
          /\ \/ /\ Pin(host[c]) = seen[c]
                /\ Goto(c, "accepted") /\ UNCHANGED <<mixed, unread>>
             \/ /\ Pin(host[c]) \notin {None, seen[c]}
                /\ Goto(c, "refused") /\ UNCHANGED <<mixed, unread>>
             \/ Pin(host[c]) = None /\ ToLearn(c) /\ UNCHANGED unread
             \/ /\ Pin(host[c]) # None
                /\ ToLearn(c) /\ unread' = unread \cup {c}
    /\ UNCHANGED <<key, rekeyed, rekeys, file, host, seen, todo, broken>>

(* Faulty variant: write! in place of writeln!.                            *)
OpenUnterminated(c) ==
    /\ pc[c] = "learn"
    /\ todo' = [todo EXCEPT ![c] = <<Id(host[c]), Space, KeyText(seen[c])>>]
    /\ Goto(c, "write")
    /\ UNCHANGED <<key, rekeyed, rekeys, file, host, seen, mixed, unread, broken>>

(* The file is opened, or made, to append to.                              *)
Open(c) ==
    /\ pc[c] = "learn"
    /\ todo' = [todo EXCEPT ![c] =
                    <<Id(host[c]), Space, KeyText(seen[c]), NewLine>>]
    /\ Goto(c, "write")
    /\ UNCHANGED <<key, rekeyed, rekeys, file, host, seen, mixed, unread, broken>>

(* Faulty variant: the next fragment is not taken off the list.            *)
WriteStuck(c) ==
    /\ pc[c] = "write"
    /\ file' = Append(file, Head(todo[c]))
    /\ Goto(c, IF Len(todo[c]) = 4 THEN "accepted" ELSE "write")
    /\ UNCHANGED <<key, rekeyed, rekeys, host, seen, todo, mixed, unread, broken>>

(* One write of writeln!; after the last one the key is accepted.          *)
Write(c) ==
    /\ pc[c] = "write"
    /\ file' = Append(file, Head(todo[c]))
    /\ todo' = [todo EXCEPT ![c] = Tail(@)]
    /\ Goto(c, IF Len(todo[c]) = 1 THEN "accepted" ELSE "write")
    /\ UNCHANGED <<key, rekeyed, rekeys, host, seen, mixed, unread, broken>>

(* An open or a write that fails ends the learning; the key is accepted.   *)
LearnFails(c) ==
    /\ pc[c] \in {"learn", "write"}
    /\ todo' = [todo EXCEPT ![c] = <<>>]
    /\ Goto(c, "accepted")
    /\ broken' = TRUE
    /\ UNCHANGED <<key, rekeyed, rekeys, file, host, seen, mixed, unread>>

(* The process is killed while it learns.                                  *)
Crash(c) ==
    /\ pc[c] \in {"learn", "write"}
    /\ todo' = [todo EXCEPT ![c] = <<>>]
    /\ Goto(c, "dead")
    /\ broken' = TRUE
    /\ UNCHANGED <<key, rekeyed, rekeys, file, host, seen, mixed, unread>>

(* A host is installed anew and has another key from now on.               *)
Rekey(h, k) ==
    /\ rekeys < MaxRekeys
    /\ k # key[h]
    /\ key' = [key EXCEPT ![h] = k]
    /\ rekeyed' = rekeyed \cup {h}
    /\ rekeys' = rekeys + 1
    /\ UNCHANGED <<file, pc, host, seen, todo, mixed, unread, broken>>

Next ==
    \/ \E c \in Conn, h \in Host : Connect(c, h)
    \/ \E c \in Conn : AcceptAny(c) \/ Check(c) \/ Open(c) \/ Write(c)
                       \/ LearnFails(c) \/ Crash(c)
    \/ \E h \in Host, k \in Key : Rekey(h, k)

Spec == Init /\ [][Next]_vars

-----------------------------------------------------------------------------
(* As long as hosts are learned one at a time and no learning breaks off:  *)

Orderly == ~mixed /\ ~broken

(* every key accepted by a connection that could read the file is the      *)
(* pinned key of its host, then and for ever, also when others could not   *)
(* read it, so that such connections accept one key of a host              *)
(* (check_server_key).                                                     *)
AcceptedIsPinned ==
    Orderly => \A c \in Conn \ unread :
        pc[c] = "accepted" => Pin(host[c]) = seen[c]

(* A host that has kept its key, one that can be compared, is never        *)
(* refused.                                                                *)
NotRefusedInVain ==
    Orderly => \A c \in Conn :
        pc[c] = "refused" => seen[c] \in Opaque \/ host[c] \in rekeyed

-----------------------------------------------------------------------------
(* What the documentation says and the code does not do.                   *)

(* state.rs:11: the first key seen for a host is recorded: when some key   *)
(* was accepted for a host and nothing has failed, one of those is pinned. *)
FirstKeyRecorded ==
    ~broken => \A c \in Conn : pc[c] = "accepted" =>
        \E d \in Conn : /\ pc[d] = "accepted" /\ host[d] = host[c]
                        /\ Pin(host[c]) = seen[d]

(* state.rs:12: any later mismatch refuses the connection: when nothing    *)
(* goes wrong with the learning, no host has two keys accepted.            *)
MismatchRefused ==
    Orderly => \A c, d \in Conn :
        pc[c] = "accepted" /\ pc[d] = "accepted" /\ host[c] = host[d] => seen[c] = seen[d]

=============================================================================
