------------------------------ MODULE ServerOps ------------------------------
(***************************************************************************)
(* The server-operations side: the pool of SSH connections (state.rs), the *)
(* tools that run commands over them (tools/ssh_tools.rs, ubuntu_tools.rs, *)
(* service_tools.rs, file_tools.rs, system_tools.rs, database_tools.rs,    *)
(* extras_tools.rs, health_tools.rs) and exec_command.                     *)
(*                                                                         *)
(* A call takes a connection from the pool, holds its mutex, and goes      *)
(* through a plan: commands, each on a channel of its own, and SFTP        *)
(* transfers.  The pool's own mutex is never held across an await, so a    *)
(* pool operation is one step.  A remote command has a life of its own: it *)
(* may outlive the channel and the call.                                   *)
(***************************************************************************)
EXTENDS Naturals, Sequences

CONSTANTS
    Task,       \* concurrent tool calls
    Id,         \* connection ids
    Conn,       \* connection objects, recycled once dropped
    None,       \* no connection
    MaxProbes   \* bound: commands of one vps_health_check

ASSUME NoneAssumption == None \notin Conn
ASSUME MaxProbesAssumption == MaxProbes \in Nat \ {0}

VARIABLES
    pool,       \* [Id -> Conn \cup {None}]
    connQ,      \* [Conn -> Seq(Task)]: queue of each connection's mutex
    link,       \* [Conn -> {"free", "up", "down"}]: the TCP connection below
    pc,         \* where each call is
    hand,       \* the connection each call holds
    tool,       \* what kind of call it is
    plan,       \* the steps it has still to do
    remote,     \* the remote command it started last
    status,     \* what exec_command returned for that command
    result      \* what the call last made by the task returned

connVars == <<pool, connQ, link>>
vars     == <<connVars, pc, hand, tool, plan, remote, status, result>>

(* "checked" is a call that may take a nonzero exit code for an error,     *)
(* "health" the health check.                                              *)
Tools    == {"plain", "checked", "health"}
Remotes  == {"none", "running", "zero", "nonzero", "killed"}
Statuses == {"none", "zero", "nonzero", "timeout", "failed"}

TypeOK ==
    /\ pool \in [Id -> Conn \cup {None}]
    /\ connQ \in [Conn -> Seq(Task)]
    /\ link \in [Conn -> {"free", "up", "down"}]
    /\ pc \in [Task -> {"idle", "held", "open", "running", "transfer"}]
    /\ hand \in [Task -> Conn \cup {None}]
    /\ tool \in [Task -> Tools]
    /\ plan \in [Task -> Seq({"exec", "sftp"})]
    /\ remote \in [Task -> Remotes]
    /\ status \in [Task -> Statuses]
    /\ result \in [Task -> {"none", "ok", "error"}]
    /\ \A t \in Task : pc[t] # "idle" => link[hand[t]] # "free"

Init ==
    /\ pool = [i \in Id |-> None]
    /\ connQ = [c \in Conn |-> <<>>]
    /\ link = [c \in Conn |-> "free"]
    /\ pc = [t \in Task |-> "idle"]
    /\ hand = [t \in Task |-> None]
    /\ tool = [t \in Task |-> "plain"]
    /\ plan = [t \in Task |-> <<>>]
    /\ remote = [t \in Task |-> "none"]
    /\ status = [t \in Task |-> "none"]
    /\ result = [t \in Task |-> "none"]

Owns(t) == connQ[hand[t]] # <<>> /\ Head(connQ[hand[t]]) = t

Goto(t, l) == pc' = [pc EXCEPT ![t] = l]

(* The connections that a pool p and handles h keep in existence; the      *)
(* others are dropped, and the SSH connection with them.                   *)
Kept(p, h) == {c \in Conn : (\E i \in Id : p[i] = c) \/ (\E t \in Task : h[t] = c)}

Linked(p, h) == [c \in Conn |-> IF c \in Kept(p, h) THEN link[c] ELSE "free"]

-----------------------------------------------------------------------------
(* The pool.                                                               *)

(* ssh_connect: connecting and authenticating involve no shared state;     *)
(* insert overwrites whatever connection had the id.                       *)
SshConnect(i, c) ==
    /\ link[c] = "free"
    /\ pool' = [pool EXCEPT ![i] = c]
    /\ link' = [Linked(pool', hand) EXCEPT ![c] = "up"]
    /\ UNCHANGED <<connQ, pc, hand, tool, plan, remote, status, result>>

(* Faulty variant: the connection is closed under the calls that hold it.  *)
SshDisconnectClosing(i) ==
    /\ pool[i] # None
    /\ pool' = [pool EXCEPT ![i] = None]
    /\ link' = [link EXCEPT ![pool[i]] = "free"]
    /\ UNCHANGED <<connQ, pc, hand, tool, plan, remote, status, result>>

(* ssh_disconnect: only the pool lets go of the connection.                *)
SshDisconnect(i) ==
    /\ pool[i] # None
    /\ pool' = [pool EXCEPT ![i] = None]
    /\ link' = Linked(pool', hand)
    /\ UNCHANGED <<connQ, pc, hand, tool, plan, remote, status, result>>

-----------------------------------------------------------------------------
(* The calls, by the steps they go through.  A call with bad parameters or *)
(* an unknown id returns before it has touched anything.                   *)

CallTool(t, i, k, steps) ==
    /\ pc[t] = "idle" /\ pool[i] # None
    /\ Goto(t, "held")
    /\ hand' = [hand EXCEPT ![t] = pool[i]]
    /\ tool' = [tool EXCEPT ![t] = k]
    /\ plan' = [plan EXCEPT ![t] = steps]
    /\ remote' = [remote EXCEPT ![t] = "none"]
    /\ status' = [status EXCEPT ![t] = "none"]
    /\ result' = [result EXCEPT ![t] = "none"]
    /\ UNCHANGED connVars

Execs(n) == [k \in 1..n |-> "exec"]

(* The tools that run one command.                                         *)
SshExec(t, i)        == CallTool(t, i, "plain", Execs(1))
SystemTools(t, i)    == CallTool(t, i, "plain", Execs(1))
ServiceControl(t, i) == CallTool(t, i, "plain", Execs(1))
Mysql(t, i)          == CallTool(t, i, "plain", Execs(1))
ExtrasTools(t, i)    == CallTool(t, i, "plain", Execs(1))
NginxControl(t, i)   == CallTool(t, i, "plain", Execs(1))
SslCertificate(t, i) == CallTool(t, i, "plain", Execs(1))
UfwFirewall(t, i)    == CallTool(t, i, "plain", Execs(1))

(* ssh_upload_file, ssh_download_file, ssh_list_files.                     *)
SshFiles(t, i) == CallTool(t, i, "plain", <<"sftp">>)

(* vps_file_read fails if there is nothing to show for a nonzero exit code. *)
FileTools(t, i) ==
    \E k \in {"plain", "checked"} : CallTool(t, i, k, Execs(1))

(* Refresh the lists, then perhaps upgrade, then perhaps autoremove.       *)
UpdatePackages(t, i) == \E n \in 1..3 : CallTool(t, i, "plain", Execs(n))

(* A deployment is preceded by its backup if a path was given for it; the  *)
(* exit code of the backup decides nothing.                                *)
WebsiteDeployment(t, i) ==
    \/ CallTool(t, i, "plain", Execs(1))
    \/ CallTool(t, i, "plain", <<"sftp">>)
    \/ CallTool(t, i, "plain", <<"exec", "sftp">>)

(* "view" may fail like vps_file_read; "write" copies an uploaded file into *)
(* place.                                                                  *)
NginxConfig(t, i) ==
    \/ \E k \in {"plain", "checked"} : CallTool(t, i, k, Execs(1))
    \/ CallTool(t, i, "checked", <<"sftp", "exec">>)

HealthCheck(t, i) ==
    \E n \in 1..MaxProbes : CallTool(t, i, "health", Execs(n))

Call(t, i) ==
    \/ SshExec(t, i)        \/ SystemTools(t, i)     \/ FileTools(t, i)
    \/ ServiceControl(t, i) \/ Mysql(t, i)           \/ ExtrasTools(t, i)
    \/ NginxControl(t, i)   \/ SslCertificate(t, i)  \/ UfwFirewall(t, i)
    \/ SshFiles(t, i)       \/ UpdatePackages(t, i)  \/ WebsiteDeployment(t, i)
    \/ NginxConfig(t, i)    \/ HealthCheck(t, i)

Lock(t) ==
    /\ pc[t] = "held"
    /\ connQ' = [connQ EXCEPT ![hand[t]] = Append(@, t)]
    /\ Goto(t, "open")
    /\ UNCHANGED <<pool, link, hand, tool, plan, remote, status, result>>

-----------------------------------------------------------------------------
(* How a step ends.                                                        *)

(* The call returns r, unlocks the connection and lets go of it.           *)
Return(t, r) ==
    /\ Goto(t, "idle")
    /\ result' = [result EXCEPT ![t] = r]
    /\ connQ' = [connQ EXCEPT ![hand[t]] = Tail(@)]
    /\ hand' = [hand EXCEPT ![t] = None]
    /\ link' = Linked(pool, hand')
    /\ plan' = [plan EXCEPT ![t] = <<>>]
    /\ tool' = [tool EXCEPT ![t] = "plain"]
    /\ UNCHANGED pool

NextStep(t) ==
    /\ Goto(t, "open")
    /\ plan' = [plan EXCEPT ![t] = Tail(@)]
    /\ UNCHANGED <<connVars, hand, tool, result>>

(* A step succeeded: the next one, or the end of the call.                 *)
StepDone(t) ==
    IF Len(plan[t]) > 1 THEN NextStep(t) ELSE Return(t, "ok")

(* A step failed: the `?' of every tool but the health check ends the call. *)
StepFails(t) ==
    IF tool[t] = "health" THEN StepDone(t) ELSE Return(t, "error")

-----------------------------------------------------------------------------
(* exec_command                                                            *)

(* Faulty variant: a command is sent without the connection's mutex.       *)
OpenExecUnlocked(t) ==
    /\ pc[t] = "open" /\ Head(plan[t]) = "exec"
    /\ link[hand[t]] = "up"
    /\ Goto(t, "running")
    /\ remote' = [remote EXCEPT ![t] = "running"]
    /\ status' = [status EXCEPT ![t] = "none"]
    /\ UNCHANGED <<connVars, hand, tool, plan, result>>

OpenExec(t) ==
    /\ pc[t] = "open" /\ Head(plan[t]) = "exec" /\ Owns(t)
    /\ link[hand[t]] = "up"
    /\ Goto(t, "running")
    /\ remote' = [remote EXCEPT ![t] = "running"]
    /\ status' = [status EXCEPT ![t] = "none"]
    /\ UNCHANGED <<connVars, hand, tool, plan, result>>

(* No channel, of a broken connection or by the server's refusal.  A       *)
(* command that an earlier step of a health check left behind stays.       *)
OpenFails(t) ==
    /\ pc[t] = "open" /\ Owns(t)
    /\ status' = [status EXCEPT ![t] = "failed"]
    /\ StepFails(t)
    /\ UNCHANGED remote

(* The remote command ends by itself, also after everybody has forgotten it *)
(* or has lost the connection to it.                                       *)
RemoteEnds(t, how) ==
    /\ remote[t] = "running"
    /\ remote' = [remote EXCEPT ![t] = how]
    /\ UNCHANGED <<connVars, pc, hand, tool, plan, status, result>>

(* The channel is closed: after the command's end, when the server has     *)
(* sent an exit status unless a signal killed it; or because the           *)
(* connection broke, whatever had been sent by then.                       *)
Closed(t, heard) ==
    \/ /\ remote[t] \in {"zero", "nonzero", "killed"}
       /\ heard = (remote[t] # "killed")
    \/ /\ link[hand[t]] = "down"
       /\ heard => remote[t] \in {"zero", "nonzero"}

(* exit_code is 0 until an exit status says otherwise.                     *)
ExitCode(t, heard) == IF heard THEN remote[t] ELSE "zero"

(* wait() has returned None.  A nonzero code is part of an Ok result, but  *)
(* for the calls that check it.                                            *)
ChannelEnds(t, heard) ==
    /\ pc[t] = "running" /\ Owns(t)
    /\ Closed(t, heard)
    /\ status' = [status EXCEPT ![t] = ExitCode(t, heard)]
    /\ \/ StepDone(t)
       \/ status'[t] = "nonzero" /\ tool[t] = "checked" /\ Return(t, "error")
    /\ UNCHANGED remote

(* Faulty variant: a timeout returns the output so far as an Ok.           *)
ExecTimeoutSilent(t) ==
    /\ pc[t] = "running" /\ Owns(t)
    /\ status' = [status EXCEPT ![t] = "zero"]
    /\ StepDone(t)
    /\ UNCHANGED remote

(* Faulty variant: a command is only given up when its connection is lost. *)
ExecTimeoutWaiting(t) ==
    /\ pc[t] = "running" /\ Owns(t)
    /\ link[hand[t]] = "down"
    /\ status' = [status EXCEPT ![t] = "timeout"]
    /\ StepFails(t)
    /\ UNCHANGED remote

(* Deadline: SIGTERM, which the server may ignore, and the channel is torn *)
(* down; the command itself may go on.                                     *)
ExecTimeout(t) ==
    /\ pc[t] = "running" /\ Owns(t)
    /\ status' = [status EXCEPT ![t] = "timeout"]
    /\ StepFails(t)
    /\ \/ UNCHANGED remote
       \/ /\ remote[t] = "running"
          /\ remote' = [remote EXCEPT ![t] = "killed"]

-----------------------------------------------------------------------------
(* SFTP transfers, and the connection below.                               *)

OpenTransfer(t) ==
    /\ pc[t] = "open" /\ Head(plan[t]) = "sftp" /\ Owns(t)
    /\ link[hand[t]] = "up"
    /\ Goto(t, "transfer")
    /\ UNCHANGED <<connVars, hand, tool, plan, remote, status, result>>

TransferDone(t) ==
    /\ pc[t] = "transfer" /\ Owns(t)
    /\ link[hand[t]] = "up"
    /\ StepDone(t)
    /\ UNCHANGED <<remote, status>>

TransferFails(t) ==
    /\ pc[t] = "transfer" /\ Owns(t)
    /\ StepFails(t)
    /\ UNCHANGED <<remote, status>>

LinkBreaks(c) ==
    /\ link[c] = "up"
    /\ link' = [link EXCEPT ![c] = "down"]
    /\ UNCHANGED <<pool, connQ, pc, hand, tool, plan, remote, status, result>>

-----------------------------------------------------------------------------
Pool == \E i \in Id : (\E c \in Conn : SshConnect(i, c)) \/ SshDisconnect(i)

(* What needs nobody's answer: the mutex is free, a deadline passes.       *)
Step(t) ==
    \/ Lock(t)
    \/ \E heard \in BOOLEAN : ChannelEnds(t, heard)
    \/ ExecTimeout(t)

(* What has to wait for the server, with no deadline.                      *)
Answer(t) ==
    \/ OpenExec(t)
    \/ OpenTransfer(t)
    \/ OpenFails(t)
    \/ TransferDone(t)
    \/ TransferFails(t)

Environment ==
    \/ \E t \in Task, how \in {"zero", "nonzero", "killed"} : RemoteEnds(t, how)
    \/ \E c \in Conn : LinkBreaks(c)

Next ==
    \/ Pool
    \/ Environment
    \/ \E t \in Task : (\E i \in Id : Call(t, i)) \/ Step(t) \/ Answer(t)

Spec == Init /\ [][Next]_vars

(* The runtime polls every call; whether a server answers is not assumed.  *)
FairSpec == Spec /\ \A t \in Task : WF_vars(Step(t))

-----------------------------------------------------------------------------
(* Safety.                                                                 *)

Working(t) == pc[t] \in {"running", "transfer"}

(* Two calls never have a command or a transfer under way on the same      *)
(* connection, although ids are overwritten and removed under them         *)
(* (ConnectionPool's inner mutex, held for the whole of a call).           *)
OneCallPerConnection ==
    \A t, u \in Task :
        t # u /\ Working(t) /\ Working(u) => hand[t] # hand[u]

(* A call does not start a step while its previous command is running, so  *)
(* that no upgrade races the refresh before it, no upload the backup; only *)
(* a health check, whose probes only read, goes on after a timeout.        *)
StepsDoNotOverlap ==
    [][\A t \in Task :
          /\ pc[t] = "open" /\ pc'[t] \in {"running", "transfer"}
          /\ tool[t] # "health"
          => remote[t] # "running"]_vars

(* A call that leaves a command running on a server it is still connected  *)
(* to reports an error: no timeout passes for a success (exec_command).    *)
AbandonedIsError ==
    [][\A t \in Task :
          /\ pc[t] = "running" /\ pc'[t] = "idle"
          /\ remote'[t] = "running" /\ link[hand[t]] = "up"
          /\ tool[t] # "health"
          => result'[t] = "error"]_vars

(* Waiting for a server that owes an answer and has no deadline for it.    *)
Unanswered(t) == pc[t] \in {"open", "transfer"} /\ Owns(t)

(* Every call returns if servers answer what has no deadline; a command    *)
(* that never ends keeps nobody, its own deadline sees to that.            *)
CallsReturn ==
    (\A u \in Task : []<>~Unanswered(u))
        => \A t \in Task : pc[t] # "idle" ~> pc[t] = "idle"

-----------------------------------------------------------------------------
(* The inductive invariant behind the safety properties.                   *)

(* A call under way has a connection in hand; the pool keeps its own.      *)
InHand == \A t \in Task : pc[t] # "idle" => hand[t] \in Conn
Pooled == \A i \in Id : pool[i] # None => link[pool[i]] # "free"

(* Who has something under way on a connection owns its mutex.             *)
WorkersOwn == \A t \in Task : Working(t) => Owns(t)

(* A call only goes on beside its own command if the connection is lost,   *)
(* and then its next step cannot start.                                    *)
LostOnly ==
    \A t \in Task :
        pc[t] \in {"held", "open", "transfer"} /\ tool[t] # "health"
            /\ remote[t] = "running"
        => link[hand[t]] = "down"

IInv == TypeOK /\ InHand /\ Pooled /\ WorkersOwn /\ LostOnly

-----------------------------------------------------------------------------
(* What the documentation says and the code does not do.                   *)

(* skills/vps-management/SKILL.md:33: exit_code 0 is success.              *)
ZeroMeansSuccess ==
    \A t \in Task : status[t] = "zero" => remote[t] = "zero"

=============================================================================
