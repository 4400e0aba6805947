--------------------------- MODULE ServerOpsProofs ---------------------------
(***************************************************************************)
(* Proofs about ServerOps, for any number of calls, ids and connections:   *)
(* the inductive invariant IInv, and the safety properties that follow     *)
(* from it.                                                                *)
(***************************************************************************)
EXTENDS ServerOps, SequenceTheorems, TLAPS

-----------------------------------------------------------------------------
(* No connection, no call, nothing in the pool.                            *)
LEMMA InitInv == Init => IInv
BY NoneAssumption DEF Init, IInv, TypeOK, InHand, Pooled, WorkersOwn, Working,
   LostOnly, Remotes, Statuses, Tools

(* Every plan is a sequence of steps, and stays one as it is worked off.   *)
LEMMA PlanType ==
    /\ \A n \in Nat : Execs(n) \in Seq({"exec", "sftp"})
    /\ <<"sftp">> \in Seq({"exec", "sftp"})
    /\ <<"exec", "sftp">> \in Seq({"exec", "sftp"})
    /\ <<"sftp", "exec">> \in Seq({"exec", "sftp"})
BY DEF Execs

(* Every tool's call is CallTool with some kind and plan.                  *)
LEMMA CallIsCallTool ==
    ASSUME NEW t \in Task, NEW i \in Id, Call(t, i)
    PROVE  \E k \in Tools, steps \in Seq({"exec", "sftp"}) : CallTool(t, i, k, steps)
<1> USE PlanType, MaxProbesAssumption DEF Tools
<1>1. CASE \/ SshExec(t, i) \/ SystemTools(t, i) \/ ServiceControl(t, i)
           \/ Mysql(t, i) \/ ExtrasTools(t, i) \/ NginxControl(t, i)
           \/ SslCertificate(t, i) \/ UfwFirewall(t, i)
  BY <1>1 DEF SshExec, SystemTools, ServiceControl, Mysql, ExtrasTools,
             NginxControl, SslCertificate, UfwFirewall
<1>2. CASE FileTools(t, i)
  BY <1>2 DEF FileTools
<1>3. CASE SshFiles(t, i)
  BY <1>3 DEF SshFiles
<1>4. CASE UpdatePackages(t, i)
  BY <1>4 DEF UpdatePackages
<1>5. CASE WebsiteDeployment(t, i)
  BY <1>5 DEF WebsiteDeployment
<1>6. CASE NginxConfig(t, i)
  BY <1>6 DEF NginxConfig
<1>7. CASE HealthCheck(t, i)
  BY <1>7 DEF HealthCheck
<1>q. QED
  BY <1>1, <1>2, <1>3, <1>4, <1>5, <1>6, <1>7 DEF Call

(* A call that joins a queue leaves the head where it is.                  *)
LEMMA JoinKeepsHead ==
    ASSUME NEW q \in Seq(Task), NEW t \in Task, q # <<>>
    PROVE  Append(q, t) # <<>> /\ Head(Append(q, t)) = Head(q)
BY HeadTailAppend, AppendProperties

-----------------------------------------------------------------------------
(* The ends of a step.                                                     *)

(* A step of call t may end its own command, or leave it as it is.         *)
OwnOutcome(t) ==
    /\ remote' \in [Task -> Remotes]
    /\ status' \in [Task -> Statuses]
    /\ \A u \in Task : remote'[u] = "running" => remote[u] = "running"

(* Returning keeps the invariant: the connection goes to the next in line, *)
(* and is dropped only if nobody has it.                                   *)
LEMMA ReturnKeeps ==
    ASSUME IInv, NEW t \in Task, NEW r \in {"ok", "error"}, Return(t, r),
           pc[t] # "idle", Owns(t), OwnOutcome(t)
    PROVE  IInv'
<1> USE NoneAssumption DEF IInv, TypeOK, InHand
<1>0. /\ hand[t] \in Conn
      /\ pc' = [pc EXCEPT ![t] = "idle"]
      /\ hand' = [hand EXCEPT ![t] = None]
      /\ connQ' = [connQ EXCEPT ![hand[t]] = Tail(@)]
      /\ link' = Linked(pool, hand')
      /\ UNCHANGED pool
  BY DEF Return, Goto
<1>1. \A c \in Conn : link'[c] = link[c] \/ link'[c] = "free"
  BY <1>0 DEF Linked
<1>2. \A u \in Task : pc'[u] # "idle" => link'[hand'[u]] = link[hand[u]]
  BY <1>0 DEF Linked, Kept
<1>3. \A i \in Id : pool[i] # None => link'[pool[i]] = link[pool[i]]
  BY <1>0 DEF Linked, Kept
<1>4. link' \in [Conn -> {"free", "up", "down"}]
  BY <1>0 DEF Linked
<1>5. connQ' \in [Conn -> Seq(Task)]
  <2>1. Tail(connQ[hand[t]]) \in Seq(Task)
    BY <1>0 DEF Owns
  <2>q. QED
    BY <1>0, <2>1
<1>6. TypeOK'
  <2>1. /\ plan' \in [Task -> Seq({"exec", "sftp"})]
        /\ tool' \in [Task -> Tools]
        /\ result' \in [Task -> {"none", "ok", "error"}]
    BY DEF Return, Tools
  <2>2. /\ pc' \in [Task -> {"idle", "held", "open", "running", "transfer"}]
        /\ hand' \in [Task -> Conn \cup {None}]
        /\ pool' \in [Id -> Conn \cup {None}]
    BY <1>0
  <2>3. \A u \in Task : pc'[u] # "idle" => link'[hand'[u]] # "free"
    BY <1>0, <1>2
  <2>q. QED
    BY <1>4, <1>5, <2>1, <2>2, <2>3 DEF OwnOutcome
<1>7. InHand' /\ Pooled'
  BY <1>0, <1>3 DEF Pooled
<1>8. WorkersOwn'
  BY <1>0 DEF WorkersOwn, Working, Owns
<1>9. LostOnly'
  BY ZenonT(60), <1>0, <1>2 DEF LostOnly, OwnOutcome, Return
<1>q. QED
  BY <1>6, <1>7, <1>8, <1>9

(* So does going on to the next step, if no command is left on a           *)
(* connection that still works.                                            *)
LEMMA NextStepKeeps ==
    ASSUME IInv, NEW t \in Task, NextStep(t), Len(plan[t]) > 1,
           pc[t] # "idle", Owns(t), OwnOutcome(t),
           tool[t] # "health" /\ remote'[t] = "running" => link[hand[t]] = "down"
    PROVE  IInv'
<1> USE DEF IInv, TypeOK, InHand
<1>0. /\ pc' = [pc EXCEPT ![t] = "open"]
      /\ UNCHANGED <<pool, connQ, link, hand, tool, result>>
  BY DEF NextStep, Goto, connVars
<1>1. TypeOK'
  <2>1. Tail(plan[t]) \in Seq({"exec", "sftp"})
    OBVIOUS
  <2>q. QED
    BY <1>0, <2>1 DEF NextStep, OwnOutcome
<1>2. InHand' /\ Pooled'
  BY <1>0 DEF Pooled
<1>3. WorkersOwn'
  BY <1>0 DEF WorkersOwn, Working, Owns
<1>4. LostOnly'
  BY <1>0 DEF LostOnly, OwnOutcome
<1>q. QED
  BY <1>1, <1>2, <1>3, <1>4

(* Both together: a step that has succeeded ...                            *)
LEMMA StepDoneKeeps ==
    ASSUME IInv, NEW t \in Task, StepDone(t), pc[t] # "idle", Owns(t),
           OwnOutcome(t),
           tool[t] # "health" /\ remote'[t] = "running" => link[hand[t]] = "down"
    PROVE  IInv'
BY ReturnKeeps, NextStepKeeps DEF StepDone

(* ... and one that has failed.                                            *)
LEMMA StepFailsKeeps ==
    ASSUME IInv, NEW t \in Task, StepFails(t), pc[t] # "idle", Owns(t),
           OwnOutcome(t)
    PROVE  IInv'
BY ReturnKeeps, StepDoneKeeps DEF StepFails

-----------------------------------------------------------------------------
(* Every step keeps the invariant.                                         *)
LEMMA InvStep == IInv /\ [Next]_vars => IInv'
<1> SUFFICES ASSUME IInv, [Next]_vars PROVE IInv'
  OBVIOUS
<1> USE NoneAssumption DEF IInv, TypeOK
<1>1. ASSUME NEW i \in Id, NEW c \in Conn, SshConnect(i, c)
      PROVE  IInv'
  <2>0. /\ pool' = [pool EXCEPT ![i] = c]
        /\ link' = [Linked(pool', hand) EXCEPT ![c] = "up"]
        /\ link[c] = "free"
        /\ UNCHANGED <<connQ, pc, hand, tool, plan, remote, status, result>>
    BY <1>1 DEF SshConnect
  <2>1. link' \in [Conn -> {"free", "up", "down"}]
    BY <2>0 DEF Linked
  <2>2. \A u \in Task : pc[u] # "idle" => link'[hand[u]] = link[hand[u]]
    BY <2>0 DEF Linked, Kept, InHand
  <2>3. Pooled'
    BY <2>0 DEF Pooled, Linked, Kept
  <2>q. QED
    BY ZenonT(60), <2>0, <2>1, <2>2, <2>3 DEF InHand, WorkersOwn, Working, Owns, LostOnly
<1>2. ASSUME NEW i \in Id, SshDisconnect(i)
      PROVE  IInv'
  <2>0. /\ pool' = [pool EXCEPT ![i] = None]
        /\ link' = Linked(pool', hand)
        /\ UNCHANGED <<connQ, pc, hand, tool, plan, remote, status, result>>
    BY <1>2 DEF SshDisconnect
  <2>1. link' \in [Conn -> {"free", "up", "down"}]
    BY <2>0 DEF Linked
  <2>2. \A u \in Task : pc[u] # "idle" => link'[hand[u]] = link[hand[u]]
    BY <2>0 DEF Linked, Kept, InHand
  <2>3. Pooled'
    BY <2>0 DEF Pooled, Linked, Kept
  <2>q. QED
    BY ZenonT(60), <2>0, <2>1, <2>2, <2>3 DEF InHand, WorkersOwn, Working, Owns, LostOnly
<1>3. ASSUME NEW t \in Task, NEW how \in {"zero", "nonzero", "killed"},
             RemoteEnds(t, how)
      PROVE  IInv'
  BY <1>3 DEF RemoteEnds, connVars, Remotes, InHand, Pooled, WorkersOwn,
             Working, Owns, LostOnly
<1>4. ASSUME NEW c \in Conn, LinkBreaks(c)
      PROVE  IInv'
  BY <1>4 DEF LinkBreaks, InHand, Pooled, WorkersOwn, Working, Owns, LostOnly
<1>5. ASSUME NEW t \in Task, NEW i \in Id, Call(t, i)
      PROVE  IInv'
  <2>1. PICK k \in Tools, steps \in Seq({"exec", "sftp"}) : CallTool(t, i, k, steps)
    BY <1>5, CallIsCallTool
  <2>q. QED
    BY <2>1 DEF CallTool, Goto, connVars, Remotes, Statuses, InHand, Pooled,
               WorkersOwn, Working, Owns, LostOnly
<1>6. ASSUME NEW t \in Task, Lock(t)
      PROVE  IInv'
  <2>1. connQ' \in [Conn -> Seq(Task)]
    BY <1>6 DEF Lock, InHand
  <2>2. ASSUME NEW u \in Task, Working(u)' PROVE Owns(u)'
    <3>1. Working(u) /\ u # t /\ hand' = hand
      BY <1>6, <2>2 DEF Lock, Goto, Working
    <3>2. Owns(u) /\ hand[u] \in Conn
      BY <3>1 DEF WorkersOwn, Working, InHand
    <3>3. connQ'[hand[u]] \in {connQ[hand[u]], Append(connQ[hand[u]], t)}
      BY <1>6, <3>2 DEF Lock
    <3>q. QED
      BY <3>1, <3>2, <3>3, JoinKeepsHead DEF Owns
  <2>q. QED
    BY <1>6, <2>1, <2>2 DEF Lock, Goto, InHand, Pooled, WorkersOwn, LostOnly
<1>7. ASSUME NEW t \in Task, OpenExec(t)
      PROVE  IInv'
  BY <1>7 DEF OpenExec, Goto, connVars, Remotes, Statuses, InHand, Pooled,
             WorkersOwn, Working, Owns, LostOnly
<1>8. ASSUME NEW t \in Task, OpenTransfer(t)
      PROVE  IInv'
  BY <1>8 DEF OpenTransfer, Goto, connVars, InHand, Pooled, WorkersOwn,
             Working, Owns, LostOnly
<1>9. ASSUME NEW t \in Task, OpenFails(t)
      PROVE  IInv'
  BY <1>9, StepFailsKeeps DEF OpenFails, OwnOutcome, Statuses
<1>10. ASSUME NEW t \in Task, NEW heard \in BOOLEAN, ChannelEnds(t, heard)
       PROVE  IInv'
  <2>1. OwnOutcome(t)
    BY <1>10 DEF ChannelEnds, Closed, ExitCode, OwnOutcome, Statuses, Remotes
  <2>2. remote'[t] = "running" => link[hand[t]] = "down"
    BY <1>10 DEF ChannelEnds, Closed
  <2>q. QED
    BY <1>10, <2>1, <2>2, StepDoneKeeps, ReturnKeeps DEF ChannelEnds
<1>11. ASSUME NEW t \in Task, ExecTimeout(t)
       PROVE  IInv'
  BY ZenonT(60), <1>11, StepFailsKeeps DEF ExecTimeout, OwnOutcome, Statuses, Remotes
<1>12. ASSUME NEW t \in Task, TransferDone(t)
       PROVE  IInv'
  BY <1>12, StepDoneKeeps DEF TransferDone, OwnOutcome, LostOnly
<1>13. ASSUME NEW t \in Task, TransferFails(t)
       PROVE  IInv'
  BY <1>13, StepFailsKeeps DEF TransferFails, OwnOutcome
<1>14. CASE UNCHANGED vars
  BY <1>14 DEF vars, connVars, InHand, Pooled, WorkersOwn, Working, Owns,
              LostOnly
<1>q. QED
  BY <1>1, <1>2, <1>3, <1>4, <1>5, <1>6, <1>7, <1>8, <1>9, <1>10, <1>11,
     <1>12, <1>13, <1>14 DEF Next, Pool, Environment, Step, Answer

(* IInv is an invariant of the server-operations side.                     *)
THEOREM ServerInvariant == Spec => []IInv
BY InitInv, InvStep, PTL DEF Spec

-----------------------------------------------------------------------------
(* The safety properties.                                                  *)

(* Every variable keeps its type; a call's connection is never dropped.    *)
THEOREM ServerTypes == Spec => []TypeOK
<1>1. IInv => TypeOK
  BY DEF IInv
<1>q. QED
  BY ServerInvariant, <1>1, PTL

(* Calls take turns on a connection, whatever happens to its id meanwhile. *)
THEOREM CallsTakeTurns == Spec => []OneCallPerConnection
<1>1. IInv => OneCallPerConnection
  BY DEF IInv, WorkersOwn, Owns, OneCallPerConnection
<1>q. QED
  BY ServerInvariant, <1>1, PTL

(* A call never starts a step beside a command of its own.                 *)
THEOREM StepsStayApart == Spec => StepsDoNotOverlap
<1>1. IInv /\ [Next]_vars =>
        [\A t \in Task :
            /\ pc[t] = "open" /\ pc'[t] \in {"running", "transfer"}
            /\ tool[t] # "health"
            => remote[t] # "running"]_vars
  <2> SUFFICES ASSUME IInv, Next, NEW t \in Task, pc[t] = "open",
                      pc'[t] \in {"running", "transfer"}, tool[t] # "health"
               PROVE  remote[t] # "running"
    OBVIOUS
  <2> USE DEF IInv, TypeOK
  <2>1. CASE OpenExec(t) \/ OpenTransfer(t)
    BY <2>1 DEF OpenExec, OpenTransfer, LostOnly
  <2>2. CASE pc' = pc
    BY <2>2
  <2>3. ASSUME NEW u \in Task, NEW l \in {"idle", "held", "open"},
               pc' = [pc EXCEPT ![u] = l]
        PROVE  FALSE
    BY <2>3
  <2>4. ASSUME NEW u \in Task, OpenExec(u) \/ OpenTransfer(u)
        PROVE  u = t
    BY <2>4 DEF OpenExec, OpenTransfer, Goto
  <2>5. CASE Pool \/ Environment
    BY <2>2, <2>5 DEF Pool, Environment, SshConnect, SshDisconnect, RemoteEnds,
                     LinkBreaks
  <2>6. ASSUME NEW u \in Task, NEW i \in Id, Call(u, i)
        PROVE  FALSE
    BY <2>3, <2>6, CallIsCallTool DEF CallTool, Goto
  <2>7. ASSUME NEW u \in Task, Lock(u)
        PROVE  FALSE
    BY <2>3, <2>7 DEF Lock, Goto
  <2>8. ASSUME NEW u \in Task, StepDone(u) \/ StepFails(u) \/ Return(u, "error")
        PROVE  FALSE
    BY <2>3, <2>8 DEF StepFails, StepDone, NextStep, Return, Goto
  <2>9. ASSUME NEW u \in Task, Step(u) \/ Answer(u)
        PROVE  OpenExec(u) \/ OpenTransfer(u)
    BY <2>7, <2>8, <2>9 DEF Step, Answer, ChannelEnds, ExecTimeout, OpenFails,
                           TransferDone, TransferFails
  <2>q. QED
    BY <2>1, <2>4, <2>5, <2>6, <2>9 DEF Next
<1>q. QED
  BY ServerInvariant, <1>1, PTL DEF Spec, StepsDoNotOverlap

(* A command left running on a live connection is never taken for done.    *)
THEOREM AbandonmentIsReported == Spec => AbandonedIsError
<1>1. IInv /\ [Next]_vars =>
        [\A t \in Task :
            /\ pc[t] = "running" /\ pc'[t] = "idle"
            /\ remote'[t] = "running" /\ link[hand[t]] = "up"
            /\ tool[t] # "health"
            => result'[t] = "error"]_vars
  <2> SUFFICES ASSUME IInv, Next, NEW t \in Task, pc[t] = "running",
                      pc'[t] = "idle", remote'[t] = "running",
                      link[hand[t]] = "up", tool[t] # "health"
               PROVE  result'[t] = "error"
    OBVIOUS
  <2> USE DEF IInv, TypeOK
  <2>1. ASSUME NEW heard \in BOOLEAN, ChannelEnds(t, heard)
        PROVE  FALSE
    BY <2>1 DEF ChannelEnds, Closed
  <2>2. CASE ExecTimeout(t)
    BY <2>2 DEF ExecTimeout, StepFails, Return
  <2>3. ASSUME NEW u \in Task, u # t, NEW l, pc' = [pc EXCEPT ![u] = l]
        PROVE  FALSE
    BY <2>3
  <2>4. CASE Pool \/ Environment
    BY <2>4 DEF Pool, Environment, SshConnect, SshDisconnect, RemoteEnds,
               LinkBreaks
  <2>5. ASSUME NEW u \in Task, NEW i \in Id, Call(u, i)
        PROVE  FALSE
    BY <2>3, <2>5, CallIsCallTool DEF CallTool, Goto
  <2>6. ASSUME NEW u \in Task, Step(u)
        PROVE  u = t /\ ~Lock(u)
    BY <2>3, <2>6 DEF Step, Lock, ChannelEnds, ExecTimeout, StepFails, StepDone,
                     NextStep, Return, Goto
  <2>7. ASSUME NEW u \in Task, Answer(u)
        PROVE  FALSE
    BY <2>3, <2>7 DEF Answer, OpenExec, OpenTransfer, OpenFails, TransferDone,
                     TransferFails, StepFails, StepDone, NextStep, Return, Goto
  <2>q. QED
    BY <2>1, <2>2, <2>4, <2>5, <2>6, <2>7 DEF Next, Step
<1>q. QED
  BY ServerInvariant, <1>1, PTL DEF Spec, AbandonedIsError

=============================================================================
