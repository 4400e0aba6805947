--------------------------- MODULE SessionRegistry ---------------------------
(***************************************************************************)
(* The registry of live interactive sessions (transport/manager.rs) and    *)
(* the tool handlers that use it concurrently (tools/session_tools.rs,     *)
(* tools/interactive_tools.rs).                                            *)
(*                                                                         *)
(* A task is one tool call served by the async runtime.  The registry is a *)
(* map behind one mutex; every session sits behind a mutex of its own and  *)
(* is reference counted: it is dropped, and its transport with it, when    *)
(* neither the map nor a task refers to it.  Both mutexes are FIFO: a      *)
(* queue stands for each, its head is the owner and the others wait.       *)
(*                                                                         *)
(* What a device answers is abstracted away: an exchange with it may end   *)
(* in an answer, a timeout or an error, and only the last ends the call.   *)
(***************************************************************************)
EXTENDS Naturals, Sequences, FiniteSets

CONSTANTS
    Task,       \* concurrent tool calls
    Name,       \* session names the clients use
    Sid,        \* session objects, recycled once dropped
    Port,       \* serial ports, opened exclusively
    None,       \* no session, no name, no port, no parent
    MaxSent     \* bound: exchanges of one tool call with its session

ASSUME NoneAssumption == None \notin Task \cup Name \cup Sid \cup Port
ASSUME MaxSentAssumption == MaxSent \in Nat

VARIABLES
    sessions,   \* [Name -> Sid \cup {None}]: the registry map
    mapQ,       \* queue of the registry's mutex
    sessQ,      \* [Sid -> Seq(Task)]: queue of each session's mutex
    status,     \* [Sid -> "free" | "open" | "closed"]: has close() run?
    sname,      \* [Sid -> Name \cup {None}]: the name a session carries
    port,       \* [Sid -> Port \cup {None}]: None for SSH and Telnet
    pc,         \* where each call is
    want,       \* the session name each call was given
    hand,       \* the session each call holds a handle to
    sent,       \* exchanges the call has had with that session
    todo,       \* sessions list() has still to visit
    seen,       \* names list() has collected
    parent      \* the run_on_fleet call that spawned this task

lockVars == <<mapQ, sessQ>>
objVars  == <<status, sname, port>>
taskVars == <<pc, want, hand, sent, todo, seen, parent>>
vars     == <<sessions, lockVars, objVars, taskVars>>

PC == {"idle", "opening", "waking", "insert", "spawned", "get", "held", "use",
       "transfer", "remove", "withdrawn", "close", "closing", "list", "listing",
       "listwait", "join", "joined"}

TypeOK ==
    /\ sessions \in [Name -> Sid \cup {None}]
    /\ mapQ \in Seq(Task)
    /\ sessQ \in [Sid -> Seq(Task)]
    /\ status \in [Sid -> {"free", "open", "closed"}]
    /\ sname \in [Sid -> Name \cup {None}]
    /\ port \in [Sid -> Port \cup {None}]
    /\ pc \in [Task -> PC]
    /\ want \in [Task -> Name \cup {None}]
    /\ hand \in [Task -> Sid \cup {None}]
    /\ sent \in [Task -> 0..MaxSent]
    /\ todo \in [Task -> SUBSET Sid]
    /\ seen \in [Task -> SUBSET Name]
    /\ parent \in [Task -> Task \cup {None}]

Init ==
    /\ sessions = [n \in Name |-> None]
    /\ mapQ = <<>>
    /\ sessQ = [s \in Sid |-> <<>>]
    /\ status = [s \in Sid |-> "free"]
    /\ sname = [s \in Sid |-> None]
    /\ port = [s \in Sid |-> None]
    /\ pc = [t \in Task |-> "idle"]
    /\ want = [t \in Task |-> None]
    /\ hand = [t \in Task |-> None]
    /\ sent = [t \in Task |-> 0]
    /\ todo = [t \in Task |-> {}]
    /\ seen = [t \in Task |-> {}]
    /\ parent = [t \in Task |-> None]

-----------------------------------------------------------------------------
(* Locks and reference counts.                                             *)

Owns(t, q) == q # <<>> /\ Head(q) = t

OwnsMap(t) == Owns(t, mapQ)
OwnsSession(t) == Owns(t, sessQ[hand[t]])

AskMap(t) == mapQ' = Append(mapQ, t)
ReleaseMap == mapQ' = Tail(mapQ)

AskSession(t, s) == sessQ' = [sessQ EXCEPT ![s] = Append(@, t)]
ReleaseSession(s) == sessQ' = [sessQ EXCEPT ![s] = Tail(@)]

Registered == {s \in Sid : \E n \in Name : sessions[n] = s}

(* Some other call still holds a handle to s.                              *)
HeldByOther(t, s) == \E u \in Task \ {t} : hand[u] = s

(* Faulty variant: the session is dropped under its other holders.         *)
DropAlways(t, s) ==
    /\ status' = [status EXCEPT ![s] = "free"]
    /\ sname' = [sname EXCEPT ![s] = None]
    /\ port' = [port EXCEPT ![s] = None]

(* Call t gives up its handle to s.  The last handle drops the session:    *)
(* the transport goes and a serial port is free again.                     *)
DropHandle(t, s) ==
    IF s \in Registered \/ HeldByOther(t, s)
    THEN UNCHANGED objVars
    ELSE /\ status' = [status EXCEPT ![s] = "free"]
         /\ sname' = [sname EXCEPT ![s] = None]
         /\ port' = [port EXCEPT ![s] = None]

(* The call goes on from label l.                                          *)
Goto(t, l) == pc' = [pc EXCEPT ![t] = l]

(* The call is over: a fleet task reports to its JoinSet, any other call   *)
(* answers its client.                                                     *)
Return(t) ==
    /\ pc' = [pc EXCEPT ![t] = IF parent[t] = None THEN "idle" ELSE "joined"]
    /\ want' = [want EXCEPT ![t] = None]
    /\ hand' = [hand EXCEPT ![t] = None]
    /\ sent' = [sent EXCEPT ![t] = 0]

-----------------------------------------------------------------------------
(* connect: the transport is opened and woken outside every lock, and only *)
(* the finished session is offered to the registry.                        *)

CallConnect(t, n) ==
    /\ pc[t] = "idle"
    /\ Goto(t, "opening")
    /\ want' = [want EXCEPT ![t] = n]
    /\ UNCHANGED <<sessions, lockVars, objVars, hand, sent, todo, seen, parent>>

(* A serial port is opened exclusively; p = None is SSH or Telnet.         *)
OpenTransport(t, s, p) ==
    /\ pc[t] = "opening"
    /\ status[s] = "free"
    /\ p # None => \A r \in Sid : port[r] # p
    /\ status' = [status EXCEPT ![s] = "open"]
    /\ sname' = [sname EXCEPT ![s] = want[t]]
    /\ port' = [port EXCEPT ![s] = p]
    /\ hand' = [hand EXCEPT ![t] = s]
    /\ Goto(t, "waking")
    /\ UNCHANGED <<sessions, lockVars, want, sent, todo, seen, parent>>

(* A missing parameter, a refused or timed out connection, a busy port.    *)
OpenFails(t) ==
    /\ pc[t] = "opening"
    /\ Return(t)
    /\ UNCHANGED <<sessions, lockVars, objVars, todo, seen, parent>>

(* No wake was asked for, or the device answered it or let it time out.    *)
Wake(t) ==
    /\ pc[t] = "waking"
    /\ Goto(t, "insert")
    /\ AskMap(t)
    /\ UNCHANGED <<sessions, sessQ, objVars, want, hand, sent, todo, seen,
                   parent>>

(* A broken connection: the session never reaches the registry.            *)
WakeFails(t) ==
    /\ pc[t] = "waking"
    /\ DropHandle(t, hand[t])
    /\ Return(t)
    /\ UNCHANGED <<sessions, lockVars, todo, seen, parent>>

(* Faulty variant: the name is overwritten instead of refused.             *)
InsertOverwriting(t) ==
    /\ pc[t] = "insert" /\ OwnsMap(t)
    /\ sessions' = [sessions EXCEPT ![sname[hand[t]]] = hand[t]]
    /\ ReleaseMap
    /\ Return(t)
    /\ UNCHANGED <<sessQ, objVars, todo, seen, parent>>

InsertOk(t) ==
    /\ pc[t] = "insert" /\ OwnsMap(t)
    /\ sessions[sname[hand[t]]] = None
    /\ sessions' = [sessions EXCEPT ![sname[hand[t]]] = hand[t]]
    /\ ReleaseMap
    /\ Return(t)
    /\ UNCHANGED <<sessQ, objVars, todo, seen, parent>>

(* Faulty variant: a connect waits for its name to become free.            *)
InsertRetrying(t) ==
    /\ pc[t] = "insert" /\ OwnsMap(t)
    /\ sessions[sname[hand[t]]] # None
    /\ mapQ' = Append(Tail(mapQ), t)
    /\ UNCHANGED <<sessions, sessQ, objVars, taskVars>>

(* SessionExists: the newly opened session is dropped without close().     *)
InsertExists(t) ==
    /\ pc[t] = "insert" /\ OwnsMap(t)
    /\ sessions[sname[hand[t]]] # None
    /\ ReleaseMap
    /\ DropHandle(t, hand[t])
    /\ Return(t)
    /\ UNCHANGED <<sessions, sessQ, todo, seen, parent>>

-----------------------------------------------------------------------------
(* Calls on one session: run_command(s), enable, login, expect_send and the *)
(* SFTP transfers.  get() hands out a handle under the map's lock; the     *)
(* session's lock is asked for afterwards.                                 *)

CallUse(t, n) ==
    /\ pc[t] = "idle"
    /\ Goto(t, "get")
    /\ AskMap(t)
    /\ want' = [want EXCEPT ![t] = n]
    /\ UNCHANGED <<sessions, sessQ, objVars, hand, sent, todo, seen, parent>>

GetOk(t) ==
    /\ pc[t] = "get" /\ OwnsMap(t)
    /\ sessions[want[t]] # None
    /\ hand' = [hand EXCEPT ![t] = sessions[want[t]]]
    /\ Goto(t, "held")
    /\ ReleaseMap
    /\ UNCHANGED <<sessions, sessQ, objVars, want, sent, todo, seen, parent>>

GetMissing(t) ==
    /\ pc[t] = "get" /\ OwnsMap(t)
    /\ sessions[want[t]] = None
    /\ ReleaseMap
    /\ Return(t)
    /\ UNCHANGED <<sessions, sessQ, objVars, todo, seen, parent>>

LockForUse(t) ==
    /\ pc[t] = "held"
    /\ AskSession(t, hand[t])
    /\ Goto(t, "use")
    /\ UNCHANGED <<sessions, mapQ, objVars, want, hand, sent, todo, seen,
                   parent>>

(* close() ends SSH and Telnet transports; a serial port stays usable for  *)
(* whoever still holds the session.                                        *)
Usable(s) == status[s] = "open" \/ port[s] # None

(* One command of the call is written and its output read (or timed out).  *)
Exchange(t) ==
    /\ pc[t] = "use" /\ OwnsSession(t)
    /\ Usable(hand[t])
    /\ sent[t] < MaxSent
    /\ sent' = [sent EXCEPT ![t] = @ + 1]
    /\ UNCHANGED <<sessions, lockVars, objVars, pc, want, hand, todo, seen,
                   parent>>

(* upload_config, download_config: an SFTP transfer, of SSH sessions only, *)
(* which no timeout bounds.                                                *)
BeginTransfer(t) ==
    /\ pc[t] = "use" /\ OwnsSession(t)
    /\ sent[t] = 0
    /\ status[hand[t]] = "open"
    /\ port[hand[t]] = None
    /\ Goto(t, "transfer")
    /\ UNCHANGED <<sessions, lockVars, objVars, want, hand, sent, todo, seen,
                   parent>>

EndTransfer(t) ==
    /\ pc[t] = "transfer" /\ OwnsSession(t)
    /\ ReleaseSession(hand[t])
    /\ DropHandle(t, hand[t])
    /\ Return(t)
    /\ UNCHANGED <<sessions, mapQ, todo, seen, parent>>

(* The last command was answered, or a transport error ended the call.     *)
FinishUse(t) ==
    /\ pc[t] = "use" /\ OwnsSession(t)
    /\ ReleaseSession(hand[t])
    /\ DropHandle(t, hand[t])
    /\ Return(t)
    /\ UNCHANGED <<sessions, mapQ, todo, seen, parent>>

-----------------------------------------------------------------------------
(* disconnect: out of the map first, then lock, close and let go.          *)

CallDisconnect(t, n) ==
    /\ pc[t] = "idle"
    /\ Goto(t, "remove")
    /\ AskMap(t)
    /\ want' = [want EXCEPT ![t] = n]
    /\ UNCHANGED <<sessions, sessQ, objVars, hand, sent, todo, seen, parent>>

(* Faulty variant: the session is looked up but left in the map.           *)
RemoveKeeping(t) ==
    /\ pc[t] = "remove" /\ OwnsMap(t)
    /\ sessions[want[t]] # None
    /\ hand' = [hand EXCEPT ![t] = sessions[want[t]]]
    /\ Goto(t, "withdrawn")
    /\ ReleaseMap
    /\ UNCHANGED <<sessions, sessQ, objVars, want, sent, todo, seen, parent>>

RemoveOk(t) ==
    /\ pc[t] = "remove" /\ OwnsMap(t)
    /\ sessions[want[t]] # None
    /\ hand' = [hand EXCEPT ![t] = sessions[want[t]]]
    /\ sessions' = [sessions EXCEPT ![want[t]] = None]
    /\ Goto(t, "withdrawn")
    /\ ReleaseMap
    /\ UNCHANGED <<sessQ, objVars, want, sent, todo, seen, parent>>

RemoveMissing(t) ==
    /\ pc[t] = "remove" /\ OwnsMap(t)
    /\ sessions[want[t]] = None
    /\ ReleaseMap
    /\ Return(t)
    /\ UNCHANGED <<sessions, sessQ, objVars, todo, seen, parent>>

LockForClose(t) ==
    /\ pc[t] = "withdrawn"
    /\ AskSession(t, hand[t])
    /\ Goto(t, "close")
    /\ UNCHANGED <<sessions, mapQ, objVars, want, hand, sent, todo, seen,
                   parent>>

(* Faulty variant: the transport is closed under a call that is using it.  *)
CloseUnlocked(t) ==
    /\ pc[t] = "close"
    /\ status' = [status EXCEPT ![hand[t]] = "closed"]
    /\ Goto(t, "closing")
    /\ UNCHANGED <<sessions, lockVars, sname, port, want, hand, sent, todo,
                   seen, parent>>

(* Transport::close, whose own error is ignored.                           *)
Close(t) ==
    /\ pc[t] = "close" /\ OwnsSession(t)
    /\ status' = [status EXCEPT ![hand[t]] = "closed"]
    /\ Goto(t, "closing")
    /\ UNCHANGED <<sessions, lockVars, sname, port, want, hand, sent, todo,
                   seen, parent>>

FinishClose(t) ==
    /\ pc[t] = "closing" /\ OwnsSession(t)
    /\ ReleaseSession(hand[t])
    /\ DropHandle(t, hand[t])
    /\ Return(t)
    /\ UNCHANGED <<sessions, mapQ, todo, seen, parent>>

-----------------------------------------------------------------------------
(* list_sessions: the map's lock is held while every session's lock is     *)
(* awaited in turn, in the hash map's own order.                           *)

CallList(t) ==
    /\ pc[t] = "idle"
    /\ Goto(t, "list")
    /\ AskMap(t)
    /\ UNCHANGED <<sessions, sessQ, objVars, want, hand, sent, todo, seen,
                   parent>>

(* Faulty variant: the handles are copied and the map is let go at once.   *)
BeginListReleasing(t) ==
    /\ pc[t] = "list" /\ OwnsMap(t)
    /\ todo' = [todo EXCEPT ![t] = Registered]
    /\ Goto(t, "listing")
    /\ mapQ' = Append(Tail(mapQ), t)
    /\ UNCHANGED <<sessions, sessQ, objVars, want, hand, sent, seen, parent>>

BeginList(t) ==
    /\ pc[t] = "list" /\ OwnsMap(t)
    /\ todo' = [todo EXCEPT ![t] = Registered]
    /\ Goto(t, "listing")
    /\ UNCHANGED <<sessions, lockVars, objVars, want, hand, sent, seen, parent>>

LockForList(t, s) ==
    /\ pc[t] = "listing"
    /\ s \in todo[t]
    /\ hand' = [hand EXCEPT ![t] = s]
    /\ AskSession(t, s)
    /\ Goto(t, "listwait")
    /\ UNCHANGED <<sessions, mapQ, objVars, want, sent, todo, seen, parent>>

(* The SessionInfo of one session, and on to the next.                     *)
Snapshot(t) ==
    /\ pc[t] = "listwait" /\ OwnsSession(t)
    /\ seen' = [seen EXCEPT ![t] = @ \cup {sname[hand[t]]}]
    /\ todo' = [todo EXCEPT ![t] = @ \ {hand[t]}]
    /\ hand' = [hand EXCEPT ![t] = None]
    /\ ReleaseSession(hand[t])
    /\ Goto(t, "listing")
    /\ UNCHANGED <<sessions, mapQ, objVars, want, sent, parent>>

EndList(t) ==
    /\ pc[t] = "listing" /\ todo[t] = {}
    /\ OwnsMap(t)
    /\ seen' = [seen EXCEPT ![t] = {}]
    /\ ReleaseMap
    /\ Goto(t, "idle")
    /\ UNCHANGED <<sessions, sessQ, objVars, want, hand, sent, todo, parent>>

-----------------------------------------------------------------------------
(* run_on_fleet: one spawned task for every name, joined when all are done.*)

CallFleet(t, C, f) ==
    /\ pc[t] = "idle"
    /\ \A c \in C : c # t /\ pc[c] = "idle"
    /\ pc' = [u \in Task |-> IF u = t THEN "join"
                             ELSE IF u \in C THEN "spawned" ELSE pc[u]]
    /\ want' = [u \in Task |-> IF u \in C THEN f[u] ELSE want[u]]
    /\ parent' = [u \in Task |-> IF u \in C THEN t ELSE parent[u]]
    /\ UNCHANGED <<sessions, lockVars, objVars, hand, sent, todo, seen>>

FleetGet(t) ==
    /\ pc[t] = "spawned"
    /\ Goto(t, "get")
    /\ AskMap(t)
    /\ UNCHANGED <<sessions, sessQ, objVars, want, hand, sent, todo, seen,
                   parent>>

Children(t) == {c \in Task : parent[c] = t}

(* Faulty variant: the first result ends the call.                         *)
JoinFirst(t) ==
    /\ pc[t] = "join"
    /\ \E c \in Children(t) : pc[c] = "joined"
    /\ pc' = [u \in Task |-> IF u = t \/ (u \in Children(t) /\ pc[u] = "joined")
                             THEN "idle" ELSE pc[u]]
    /\ parent' = [u \in Task |-> IF u \in Children(t) /\ pc[u] = "joined"
                                 THEN None ELSE parent[u]]
    /\ UNCHANGED <<sessions, lockVars, objVars, want, hand, sent, todo, seen>>

JoinAll(t) ==
    /\ pc[t] = "join"
    /\ \A c \in Children(t) : pc[c] = "joined"
    /\ pc' = [u \in Task |-> IF u = t \/ u \in Children(t) THEN "idle"
                             ELSE pc[u]]
    /\ parent' = [u \in Task |-> IF u \in Children(t) THEN None ELSE parent[u]]
    /\ UNCHANGED <<sessions, lockVars, objVars, want, hand, sent, todo, seen>>

-----------------------------------------------------------------------------
(* A client's new call, and the next step of a call under way.             *)

Call(t) ==
    \/ \E n \in Name : CallConnect(t, n)
    \/ \E n \in Name : CallUse(t, n)
    \/ \E n \in Name : CallDisconnect(t, n)
    \/ CallList(t)
    \/ \E C \in SUBSET {u \in Task : pc[u] = "idle"} :
           \E f \in [C -> Name] : CallFleet(t, C, f)

(* What no timeout bounds: a device may never let an SSH login, the opening *)
(* of its shell, or a transfer come to an end.                             *)
Answer(t) ==
    \/ \E s \in Sid, p \in Port \cup {None} : OpenTransport(t, s, p)
    \/ OpenFails(t)
    \/ EndTransfer(t)

ConnectStep(t) ==
    \/ Wake(t)
    \/ WakeFails(t)
    \/ InsertOk(t)
    \/ InsertExists(t)

UseStep(t) ==
    \/ GetOk(t)
    \/ GetMissing(t)
    \/ LockForUse(t)
    \/ Exchange(t)
    \/ BeginTransfer(t)
    \/ FinishUse(t)

DisconnectStep(t) ==
    \/ RemoveOk(t)
    \/ RemoveMissing(t)
    \/ LockForClose(t)
    \/ Close(t)
    \/ FinishClose(t)

ListStep(t) ==
    \/ BeginList(t)
    \/ \E s \in Sid : LockForList(t, s)
    \/ Snapshot(t)
    \/ EndList(t)

FleetStep(t) ==
    \/ FleetGet(t)
    \/ JoinAll(t)

Step(t) ==
    \/ ConnectStep(t)
    \/ UseStep(t)
    \/ DisconnectStep(t)
    \/ ListStep(t)
    \/ FleetStep(t)

Next == \E t \in Task : Call(t) \/ Step(t) \/ Answer(t)

Spec == Init /\ [][Next]_vars

(* The runtime polls every call that can go on, and every wait for output  *)
(* of a device has a deadline (a write is taken to be accepted).  Nothing  *)
(* is assumed of Answer.                                                   *)
FairSpec == Spec /\ \A t \in Task : WF_vars(Step(t))

-----------------------------------------------------------------------------
(* Safety.                                                                 *)

(* A connect that has opened its session and not yet registered it.        *)
Connecting(t) == pc[t] \in {"waking", "insert"}

(* A disconnect between the removal from the map and its return.           *)
Disconnecting(t) == pc[t] \in {"withdrawn", "close", "closing"}

(* What get() finds is a live session: it carries the name it is           *)
(* registered under, nobody has closed it, and no disconnect is at work on *)
(* it (manager.rs insert, get and remove against the three callers).       *)
RegisteredLive ==
    \A n \in Name : LET s == sessions[n] IN
        s # None => /\ status[s] = "open"
                    /\ sname[s] = n
                    /\ \A t \in Task : hand[t] = s =>
                           ~Disconnecting(t) /\ ~Connecting(t)

(* A handle never dangles: while a call holds one, the session exists,     *)
(* although a disconnect may have removed and closed it in between.        *)
HandleLive ==
    \A t \in Task : hand[t] # None => status[hand[t]] # "free"

(* At most one disconnect ever works on a session, so close() runs at most *)
(* once, however many disconnects of the name race.                        *)
SingleCloser ==
    \A t, u \in Task :
        /\ t # u
        /\ Disconnecting(t)
        /\ Disconnecting(u)
        => hand[t] # hand[u]

(* A call whose commands or transfer are under way on its session.         *)
Busy(t) == sent[t] > 0 \/ pc[t] = "transfer"

(* Between the first and the last command of a call no other call has a    *)
(* command on that session and no disconnect closes it (the session's lock *)
(* is held from before the first command to the return).                   *)
CallsNotInterleaved ==
    \A t, u \in Task :
        /\ t # u
        /\ Busy(t)
        /\ hand[u] = hand[t]
        => ~Busy(u) /\ pc[u] # "closing"

(* list() reports the registry as it is at one moment, although it awaits  *)
(* one session after another: when it has visited them all, the names it   *)
(* has collected are exactly the registered ones.                          *)
ListIsSnapshot ==
    \A t \in Task :
        pc[t] = "listing" /\ todo[t] = {} =>
            seen[t] = {n \in Name : sessions[n] # None}

(* Nobody overwrites a session: a name goes from one session to another    *)
(* only by way of a disconnect that leaves it unregistered (insert).       *)
NameNotStolen ==
    [][\A n \in Name :
          sessions[n] # None => sessions'[n] \in {sessions[n], None}]_vars

(* A fleet task always has its fleet call waiting for it: no result is     *)
(* lost and none is delivered to nobody (run_on_fleet's JoinSet).          *)
FleetWaits ==
    \A c \in Task : parent[c] # None => pc[parent[c]] = "join"

(* Every call returns, whatever the other calls do, unless a device keeps  *)
(* a login or a transfer waiting for ever: the two kinds of lock are never *)
(* awaited in a cycle, and their FIFO queues starve nobody.                *)
DevicesAnswer == \A u \in Task : []<>(pc[u] \notin {"opening", "transfer"})
Returns(t)    == DevicesAnswer => (pc[t] # "idle" ~> pc[t] = "idle")
CallsReturn   == \A t \in Task : Returns(t)

-----------------------------------------------------------------------------
(* What the registry promises: the life cycle of a session that            *)
(* SessionDirectory describes, with no tasks and no locks.                 *)

Phase(s) ==
    IF status[s] = "free" THEN "free"
    ELSE IF s \in Registered THEN "registered"
    ELSE IF \E t \in Task : Connecting(t) /\ hand[t] = s THEN "private"
    ELSE IF status[s] = "closed" THEN "closed"
    ELSE "withdrawn"

phase == [s \in Sid |-> Phase(s)]

Directory == INSTANCE SessionDirectory WITH name <- sname

(* Whatever the interleaving, a session is created for one call, then      *)
(* either discarded or registered under a name nobody else has; it leaves  *)
(* the registry once, is closed exactly once after that, and is dropped    *)
(* only then.                                                              *)
ImplementsDirectory == Directory!Spec

-----------------------------------------------------------------------------
(* What the documentation says and the code does not do.                   *)

(* session_tools.rs:200 and mod.rs:125: disconnect closes the session and  *)
(* its connection: no call, one that already waited for the session        *)
(* included, has a command on it afterwards.                               *)
ClosedIsSilent == \A t \in Task : sent[t] > 0 => status[hand[t]] = "open"

-----------------------------------------------------------------------------
(* The inductive invariant behind the safety properties.                   *)

(* Where a call is says whether it has a name and a session in hand.       *)
Hands ==
    \A t \in Task :
        /\ pc[t] \in {"waking", "insert", "held", "use", "transfer",
                      "withdrawn", "close", "closing", "listwait"}
               => hand[t] \in Sid
        /\ pc[t] \in {"opening", "spawned", "get", "remove"}
               => want[t] \in Name

(* A session that exists carries a name.                                   *)
Named == \A s \in Sid : status[s] # "free" => sname[s] \in Name

(* The session of a connect under way is in nobody else's hands.           *)
Private ==
    \A t \in Task : Connecting(t) =>
        /\ status[hand[t]] = "open"
        /\ \A u \in Task \ {t} : hand[u] # hand[t]

(* close() is what a disconnect does once it owns the session's lock.      *)
ClosersClose ==
    \A t \in Task : Disconnecting(t) =>
        status[hand[t]] = IF pc[t] = "closing" THEN "closed" ELSE "open"

(* An open session is registered, or on its way in or out.                 *)
OpenAccounted ==
    \A s \in Sid : status[s] = "open" =>
        \/ \E n \in Name : sessions[n] = s
        \/ \E t \in Task : hand[t] = s /\ (Connecting(t) \/ Disconnecting(t))

(* Who is inside a critical section owns its lock.                         *)
LocksHeld ==
    \A t \in Task :
        /\ pc[t] \in {"listing", "listwait"} => OwnsMap(t)
        /\ sent[t] > 0 => pc[t] = "use"
        /\ Busy(t) \/ pc[t] = "closing" => OwnsSession(t)

(* list() has collected the sessions it has visited, and those only.       *)
ListProgress ==
    \A t \in Task :
        IF pc[t] \in {"listing", "listwait"}
        THEN /\ todo[t] \subseteq Registered
             /\ seen[t] = {n \in Name : /\ sessions[n] # None
                                        /\ sessions[n] \notin todo[t]}
             /\ pc[t] = "listwait" => hand[t] \in todo[t]
        ELSE seen[t] = {}

(* A session is always in the right hands: what a call holds exists        *)
(* (get's Arc), what get() finds is open and nobody connects or            *)
(* disconnects it, a connect under way has its session for itself until    *)
(* insert, and of racing disconnects one closes it, and once (remove).     *)
Ownership == HandleLive /\ RegisteredLive /\ Private /\ SingleCloser /\ ClosersClose

WellFormed == TypeOK /\ Hands /\ Named
Locking    == LocksHeld /\ ListProgress /\ FleetWaits

IInv == WellFormed /\ Ownership /\ OpenAccounted /\ Locking

=============================================================================
