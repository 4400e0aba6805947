--------------------------- MODULE BrokerElection ----------------------------
(***************************************************************************)
(* The election of the single owner among ssh-connect processes (broker.rs *)
(* elect and serve_owner, main.rs, server.rs call_tool).                   *)
(*                                                                         *)
(* Every process runs the election once, when it starts.  The owner holds  *)
(* the session registries and serves an endpoint with a well-known name; a *)
(* proxy forwards every tool call to the owner it is attached to.          *)
(*                                                                         *)
(* On Unix the endpoint is a socket.  The path names one socket at a time, *)
(* that of the process that bound it last; the file outlives the process.  *)
(* On Windows it is a named pipe.  Each instance of it takes one client,   *)
(* and the owner makes the next one then; the name is gone with the last   *)
(* open end of an instance.                                                *)
(***************************************************************************)
EXTENDS Naturals, FiniteSets

CONSTANTS
    Instance,       \* processes; a restarted client is another one
    None            \* no socket file, no owner

ASSUME NoneAssumption == None \notin Instance

VARIABLES
    pc,         \* where each process is
    file,       \* whose socket the path names, None if the path is free
    listening,  \* the processes whose listener is open
    link,       \* the owner a process is, or tries to get, attached to
    system,     \* "unix" or "windows"
    busy,       \* Windows: owners that have yet to make the next instance
    conn,       \* Windows: each process's connection to its owner
    raced,      \* history: has there been something that an election cannot
                \* cope with (RaceAtStart, Exit)?
    faulty      \* history: has an accept of, or an attachment to, a live owner
                \* failed, or the file system refused the socket its path?

pipe    == <<busy, conn>>
history == <<raced, faulty>>
vars    == <<pc, file, listening, link, system, pipe, history>>

Electing == {"probe", "handshake", "clear", "bind", "bound", "retry",
             "rehandshake", "create", "open", "greet"}
Settled  == {"owner", "proxy", "local"}

TypeOK ==
    /\ pc \in [Instance -> {"new", "dead"} \cup Electing \cup Settled]
    /\ file \in Instance \cup {None}
    /\ listening \subseteq Instance
    /\ link \in [Instance -> Instance \cup {None}]
    /\ system \in {"unix", "windows"}
    /\ busy \subseteq Instance
    /\ conn \in [Instance -> {"none", "taken", "served", "left"}]
    /\ raced \in BOOLEAN /\ faulty \in BOOLEAN
    /\ \A i \in Instance :
           pc[i] \in {"handshake", "rehandshake", "greet", "proxy"} => link[i] # None

Init ==
    /\ pc = [i \in Instance |-> "new"]
    /\ file = None
    /\ listening = {}
    /\ link = [i \in Instance |-> None]
    /\ system \in {"unix", "windows"}
    /\ busy = {} /\ conn = [i \in Instance |-> "none"]
    /\ raced = FALSE /\ faulty = FALSE

Alive(i) == pc[i] \notin {"new", "dead"}

Goto(i, l) == pc' = [pc EXCEPT ![i] = l]

(* The owners whose accept loop goes on.                                   *)
Serving == listening \cup busy

(* Windows: is there an instance of the pipe?                              *)
PipeExists == Serving # {} \/ \E i \in Instance : conn[i] # "none"

-----------------------------------------------------------------------------
(* elect on Unix                                                           *)

(* What an election cannot cope with: on Unix a start during the election  *)
(* of another process; on Windows one before the pipe of an owner that is  *)
(* gone has disappeared (and an owner that goes meanwhile, see Exit).      *)
RaceAtStart ==
    IF system = "unix"
    THEN \E j \in Instance : pc[j] \in Electing
    ELSE PipeExists /\ Serving = {}

(* Faulty variant: the path is cleared without a look at who serves it.    *)
StartUnprobed(i) ==
    /\ pc[i] = "new"
    /\ raced' = (raced \/ RaceAtStart)
    /\ Goto(i, IF system = "unix" THEN "clear" ELSE "create")
    /\ UNCHANGED <<file, listening, link, system, pipe, faulty>>

Start(i) ==
    /\ pc[i] = "new"
    /\ raced' = (raced \/ RaceAtStart)
    /\ Goto(i, IF system = "unix" THEN "probe" ELSE "create")
    /\ UNCHANGED <<file, listening, link, system, pipe, faulty>>

(* connect() at label a: refused unless the socket at the path has a       *)
(* listener, and the handshake follows at label b.                         *)
Attach(i, a, b) ==
    /\ pc[i] = a
    /\ file \in listening
    /\ link' = [link EXCEPT ![i] = file]
    /\ Goto(i, b)
    /\ UNCHANGED <<file, listening, system, pipe, history>>

Refused(i, a, b) ==
    /\ pc[i] = a
    /\ file \notin listening
    /\ Goto(i, b)
    /\ UNCHANGED <<file, listening, link, system, pipe, history>>

(* The MCP handshake over the connection at label a: answered by the       *)
(* accept loop behind the socket, or by the task it has spawned before it  *)
(* ended, or broken off (and label b is next).                             *)
HandshakeOk(i, a) ==
    /\ pc[i] = a
    /\ link[i] \in listening \/ pc[link[i]] = "owner"
    /\ Goto(i, "proxy")
    /\ UNCHANGED <<file, listening, link, system, pipe, history>>

(* Faulty variant: a process is a proxy although the handshake failed.     *)
HandshakeIgnored(i, a, b) ==
    /\ pc[i] = a
    /\ faulty' = (faulty \/ link[i] \in Serving)
    /\ link' = [link EXCEPT ![i] = None]
    /\ conn' = [conn EXCEPT ![i] = "none"]
    /\ Goto(i, "proxy")
    /\ UNCHANGED <<file, listening, system, busy, raced>>

HandshakeFails(i, a, b) ==
    /\ pc[i] = a
    /\ faulty' = (faulty \/ link[i] \in Serving)
    /\ link' = [link EXCEPT ![i] = None]
    /\ conn' = [conn EXCEPT ![i] = "none"]
    /\ Goto(i, b)
    /\ UNCHANGED <<file, listening, system, busy, raced>>

ProbeAttach(i)    == Attach(i, "probe", "handshake")
ProbeRefused(i)   == Refused(i, "probe", "clear")
ProbeAnswered(i)  == HandshakeOk(i, "handshake")
ProbeBroken(i)    == HandshakeFails(i, "handshake", "clear")

(* remove_file: whatever is at the path goes, a live owner's socket too.   *)
ClearStale(i) ==
    /\ pc[i] = "clear"
    /\ file' = None
    /\ Goto(i, "bind")
    /\ UNCHANGED <<listening, link, system, pipe, history>>

(* Its error is ignored: the file may belong to somebody else.             *)
ClearFails(i) ==
    /\ pc[i] = "clear"
    /\ file # None
    /\ faulty' = TRUE
    /\ Goto(i, "bind")
    /\ UNCHANGED <<file, listening, link, system, pipe, raced>>

(* UnixListener::bind is two system calls, bind ...                        *)
Bind(i) ==
    /\ pc[i] = "bind"
    /\ file = None
    /\ file' = i
    /\ Goto(i, "bound")
    /\ UNCHANGED <<listening, link, system, pipe, history>>

(* Faulty variant: the new owner checks the path once more, like everybody. *)
ListenAndProbe(i) ==
    /\ pc[i] = "bound"
    /\ listening' = listening \cup {i}
    /\ Goto(i, "probe")
    /\ UNCHANGED <<file, link, system, pipe, history>>

(* ... and listen; only then is a connection not refused.  The accept loop *)
(* is spawned right after.                                                 *)
Listen(i) ==
    /\ pc[i] = "bound"
    /\ listening' = listening \cup {i}
    /\ Goto(i, "owner")
    /\ UNCHANGED <<file, link, system, pipe, history>>

(* Any error is taken for a lost race: the path is in use, or the runtime  *)
(* directory is not there or not to be written.                            *)
BindFails(i) ==
    /\ pc[i] = "bind"
    /\ faulty' = (faulty \/ file = None)
    /\ Goto(i, "retry")
    /\ UNCHANGED <<file, listening, link, system, pipe, raced>>

(* Faulty variant: the second attempt is repeated until it succeeds.       *)
RetryForever(i) == Refused(i, "retry", "retry")

RetryAttach(i)    == Attach(i, "retry", "rehandshake")
RetryRefused(i)   == Refused(i, "retry", "local")
RetryAnswered(i)  == HandshakeOk(i, "rehandshake")
RetryBroken(i)    == HandshakeFails(i, "rehandshake", "local")

-----------------------------------------------------------------------------
(* elect on Windows                                                        *)

(* Faulty variant: any instance will do for an owner.                      *)
CreateAny(i) ==
    /\ pc[i] = "create"
    /\ listening' = listening \cup {i}
    /\ Goto(i, "owner")
    /\ UNCHANGED <<file, link, system, pipe, history>>

(* first_pipe_instance: only who makes the first instance is the owner.    *)
CreateFirst(i) ==
    /\ pc[i] = "create"
    /\ ~PipeExists
    /\ listening' = listening \cup {i}
    /\ Goto(i, "owner")
    /\ UNCHANGED <<file, link, system, pipe, history>>

CreateFails(i) ==
    /\ pc[i] = "create"
    /\ PipeExists
    /\ Goto(i, "open")
    /\ UNCHANGED <<file, listening, link, system, pipe, history>>

(* One of the attempts to open the pipe meets a free instance.             *)
OpenPipe(i) ==
    /\ pc[i] = "open"
    /\ \E o \in listening :
           /\ link' = [link EXCEPT ![i] = o]
           /\ listening' = listening \ {o}
           /\ busy' = busy \cup {o}
    /\ conn' = [conn EXCEPT ![i] = "taken"]
    /\ Goto(i, "greet")
    /\ UNCHANGED <<file, system, history>>

(* None of the forty does: the process goes on without a broker, and tries *)
(* no more to become one.                                                  *)
NoPipe(i) ==
    /\ pc[i] = "open"
    /\ listening = {}
    /\ faulty' = (faulty \/ busy # {})
    /\ Goto(i, "local")
    /\ UNCHANGED <<file, listening, link, system, pipe, raced>>

GreetAnswered(i) ==
    /\ pc[i] = "greet"
    /\ conn[i] = "served"
    /\ Goto(i, "proxy")
    /\ UNCHANGED <<file, listening, link, system, pipe, history>>

GreetBroken(i) == HandshakeFails(i, "greet", "local")

(* The clients of which owner o has taken the instance, and made no other. *)
Taken(o) == {j \in Instance : conn[j] = "taken" /\ link[j] = o}

(* The connections of J are in state c now.                                *)
Become(J, c) == conn' = [j \in Instance |-> IF j \in J THEN c ELSE conn[j]]

(* serve_owner makes the next instance, and then a task serves the client. *)
NextInstance(o) ==
    /\ o \in busy
    /\ busy' = busy \ {o}
    /\ listening' = listening \cup {o}
    /\ Become(Taken(o), "served")
    /\ UNCHANGED <<pc, file, link, system, history>>

(* One end of a connection is gone; the other notices and lets go.         *)
PipeCloses(i) ==
    /\ conn[i] = "left"
    /\ conn' = [conn EXCEPT ![i] = "none"]
    /\ UNCHANGED <<pc, file, listening, link, system, busy, history>>

-----------------------------------------------------------------------------
(* What happens to a process afterwards.                                   *)

(* serve_owner: accept, or making the next instance, fails; the loop ends  *)
(* and drops the listener, with a client it has not yet served, and the    *)
(* process goes on as an owner nobody new can reach.                       *)
AcceptFails(i) ==
    /\ pc[i] = "owner"
    /\ i \in Serving
    /\ listening' = listening \ {i} /\ busy' = busy \ {i}
    /\ Become(Taken(i), "left")
    /\ faulty' = TRUE
    /\ UNCHANGED <<pc, file, link, system, raced>>

(* The process exits or is killed; nothing removes the socket file.  On    *)
(* Windows nobody that is at its election takes over from an owner.        *)
Exit(i) ==
    /\ Alive(i)
    /\ Goto(i, "dead")
    /\ listening' = listening \ {i} /\ busy' = busy \ {i}
    /\ raced' = (raced \/ /\ system = "windows" /\ pc[i] = "owner"
                          /\ \E j \in Instance : pc[j] \in Electing)
    /\ Become({j \in Instance : conn[j] # "none" /\ i \in {j, link[j]}}, "left")
    /\ UNCHANGED <<file, link, system, faulty>>

-----------------------------------------------------------------------------
Elect(i) ==
    \/ ProbeAttach(i)
    \/ ProbeRefused(i)
    \/ ProbeAnswered(i)
    \/ ProbeBroken(i)
    \/ ClearStale(i)
    \/ ClearFails(i)
    \/ Bind(i)
    \/ Listen(i)
    \/ BindFails(i)
    \/ RetryAttach(i)
    \/ RetryRefused(i)
    \/ RetryAnswered(i)
    \/ RetryBroken(i)
    \/ CreateFirst(i)
    \/ CreateFails(i)
    \/ OpenPipe(i)
    \/ NoPipe(i)
    \/ GreetAnswered(i)
    \/ GreetBroken(i)

Next ==
    \E i \in Instance :
        \/ Start(i) \/ Elect(i) \/ NextInstance(i) \/ PipeCloses(i)
        \/ AcceptFails(i) \/ Exit(i)

Spec == Init /\ [][Next]_vars

(* A started process runs its election; nobody has to start or to exit.    *)
FairSpec == Spec /\ \A i \in Instance : WF_vars(Elect(i))

-----------------------------------------------------------------------------
(* call_tool: whose session registry a tool call of process i uses.        *)
Registry(i) == IF pc[i] = "proxy" THEN link[i] ELSE i

(* A proxy forwards to a process that was elected owner, never to another  *)
(* proxy or to itself, so a call takes one hop and cannot go round in      *)
(* circles; the owner may have died since (server.rs call_tool).           *)
ForwardsToOwner ==
    \A i \in Instance :
        pc[i] = "proxy" => link[i] # i /\ pc[link[i]] \in {"owner", "dead"}

(* All running processes use one set of sessions: those whose registry is  *)
(* still there have the same one, so that a session opened in one client   *)
(* is usable from another and no two processes compete for a serial port.  *)
Shared ==
    \A i, j \in Instance :
        /\ pc[i] \in Settled /\ Alive(Registry(i))
        /\ pc[j] \in Settled /\ Alive(Registry(j))
        => Registry(i) = Registry(j)

(* So it is as long as nothing fails but by somebody's exit or crash, and  *)
(* processes start one at a time (Unix), or, however many start at once,   *)
(* no owner goes while one is at its election (Windows).                   *)
OneRegistry == ~raced /\ ~faulty => Shared

(* Then a live owner can always be found at the path, or serves the pipe.  *)
OwnerReachable ==
    ~raced /\ ~faulty =>
        \A i \in Instance :
            pc[i] = "owner" => i \in Serving /\ (system = "unix" => file = i)

(* And its socket is never taken off the path while it serves (elect       *)
(* clears stale sockets only).                                             *)
ServingSocketKept ==
    [][~raced /\ ~faulty' /\ file \in listening => file' = file]_vars

(* Every election ends, whoever dies meanwhile.                            *)
ElectionEnds ==
    \A i \in Instance :
        pc[i] \in {"probe", "create"} ~> pc[i] \in Settled \cup {"dead"}

-----------------------------------------------------------------------------
(* What the documentation says and the code does not do.                   *)

(* README.md:154 a newly started instance always elects correctly, :149    *)
(* two clients cannot collide on the same serial port.                     *)
ElectsCorrectly == ~faulty => Shared

(* README.md:154 again, where two simultaneous starts do no harm: an owner *)
(* that goes leaves its place to be taken by the next one.                 *)
PipeElectsCorrectly == system = "windows" => ElectsCorrectly

=============================================================================
