------------------------ MODULE SessionRegistryProofs ------------------------
(***************************************************************************)
(* Proofs about SessionRegistry, for any number of calls, names, sessions  *)
(* and serial ports: the inductive invariant IInv, the safety properties   *)
(* that follow from it, and that the registry implements                   *)
(* SessionDirectory.                                                       *)
(***************************************************************************)
EXTENDS SessionRegistry, TLAPS

-----------------------------------------------------------------------------
(* The queues of the FIFO mutexes.                                         *)

(* A call that joins a queue leaves the owner where it is.                 *)
LEMMA AskKeepsOwner ==
    ASSUME NEW q \in Seq(Task), NEW t \in Task, NEW u \in Task, Owns(t, q)
    PROVE  Owns(t, Append(q, u))
BY DEF Owns

(* A queue has one owner (the mutex excludes).                             *)
LEMMA OneOwner ==
    ASSUME NEW q, NEW t, NEW u, Owns(t, q), Owns(u, q)
    PROVE  t = u
BY DEF Owns

(* A queue stays a sequence of calls.                                      *)
LEMMA QueueType ==
    ASSUME NEW q \in Seq(Task), NEW t \in Task
    PROVE  /\ Append(q, t) \in Seq(Task)
           /\ Owns(t, q) => Tail(q) \in Seq(Task)
BY DEF Owns

(* Giving up a handle keeps the session objects well formed.               *)
LEMMA DropType ==
    ASSUME TypeOK, Named, NEW t \in Task, NEW s \in Sid, DropHandle(t, s)
    PROVE  /\ status' \in [Sid -> {"free", "open", "closed"}]
           /\ sname' \in [Sid -> Name \cup {None}]
           /\ port' \in [Sid -> Port \cup {None}]
           /\ Named'
BY DEF DropHandle, TypeOK, Named, objVars

(* Giving up a handle leaves alone every session somebody still refers to. *)
LEMMA DropFrame ==
    ASSUME TypeOK, NEW t \in Task, NEW s \in Sid, DropHandle(t, s),
           NEW r \in Sid, r # s \/ r \in Registered \/ HeldByOther(t, r)
    PROVE  status'[r] = status[r] /\ sname'[r] = sname[r]
BY DEF DropHandle, TypeOK, objVars

-----------------------------------------------------------------------------
(* The inductive invariant: Init satisfies it, and no step breaks it.      *)

(* The empty registry satisfies the invariant.                             *)
LEMMA InitInv == Init => IInv
<1> SUFFICES ASSUME Init PROVE IInv
  OBVIOUS
<1> USE NoneAssumption, MaxSentAssumption DEF Init
<1>1. WellFormed
  BY DEF WellFormed, TypeOK, PC, Hands, Named
<1>2. Ownership
  BY DEF Ownership, HandleLive, RegisteredLive, Private, SingleCloser,
         ClosersClose, Connecting, Disconnecting
<1>3. OpenAccounted
  BY DEF OpenAccounted
<1>4. Locking
  BY DEF Locking, LocksHeld, ListProgress, FleetWaits, Busy
<1>q. QED
  BY <1>1, <1>2, <1>3, <1>4 DEF IInv

(* Every step keeps the types, and the names and handles a call has where  *)
(* it is.                                                                  *)
LEMMA WellFormedStep == IInv /\ [Next]_vars => WellFormed'
<1> SUFFICES ASSUME IInv, [Next]_vars PROVE WellFormed'
  OBVIOUS
<1> USE NoneAssumption, MaxSentAssumption DEF IInv, WellFormed, TypeOK, PC,
        Hands, Named, Registered, Ownership, HandleLive, RegisteredLive,
        Locking, ListProgress, objVars, lockVars, OwnsMap, OwnsSession
<1>1. ASSUME NEW t \in Task, NEW n \in Name, CallConnect(t, n)
      PROVE  WellFormed'
  BY <1>1, QueueType DEF CallConnect, Goto
<1>2. ASSUME NEW t \in Task, NEW n \in Name, CallUse(t, n)
      PROVE  WellFormed'
  BY <1>2, QueueType DEF CallUse, Goto, AskMap
<1>3. ASSUME NEW t \in Task, NEW n \in Name, CallDisconnect(t, n)
      PROVE  WellFormed'
  BY <1>3, QueueType DEF CallDisconnect, Goto, AskMap
<1>4. ASSUME NEW t \in Task, CallList(t)
      PROVE  WellFormed'
  BY <1>4, QueueType DEF CallList, Goto, AskMap
<1>5. ASSUME NEW t \in Task, NEW C \in SUBSET Task, NEW f \in [C -> Name], CallFleet(t, C, f)
      PROVE  WellFormed'
  BY <1>5, QueueType DEF CallFleet
<1>6. ASSUME NEW t \in Task, NEW s \in Sid, NEW p \in Port \cup {None}, OpenTransport(t, s, p)
      PROVE  WellFormed'
  BY <1>6, QueueType DEF OpenTransport, Goto
<1>7. ASSUME NEW t \in Task, OpenFails(t)
      PROVE  WellFormed'
  BY <1>7, QueueType DEF OpenFails, Return
<1>8. ASSUME NEW t \in Task, Wake(t)
      PROVE  WellFormed'
  BY <1>8, QueueType DEF Wake, Goto, AskMap
<1>9. ASSUME NEW t \in Task, WakeFails(t)
      PROVE  WellFormed'
  BY <1>9, DropType, QueueType DEF WakeFails, Return
<1>10. ASSUME NEW t \in Task, InsertOk(t)
      PROVE  WellFormed'
  BY <1>10, QueueType DEF InsertOk, ReleaseMap, Return
<1>11. ASSUME NEW t \in Task, InsertExists(t)
      PROVE  WellFormed'
  BY <1>11, DropType, QueueType DEF InsertExists, ReleaseMap, Return
<1>12. ASSUME NEW t \in Task, GetOk(t)
      PROVE  WellFormed'
  BY <1>12, QueueType DEF GetOk, Goto, ReleaseMap
<1>13. ASSUME NEW t \in Task, GetMissing(t)
      PROVE  WellFormed'
  BY <1>13, QueueType DEF GetMissing, ReleaseMap, Return
<1>14. ASSUME NEW t \in Task, LockForUse(t)
      PROVE  WellFormed'
  BY <1>14, QueueType DEF LockForUse, AskSession, Goto
<1>15. ASSUME NEW t \in Task, Exchange(t)
      PROVE  WellFormed'
  BY <1>15, QueueType DEF Exchange
<1>16. ASSUME NEW t \in Task, BeginTransfer(t)
      PROVE  WellFormed'
  BY <1>16, QueueType DEF BeginTransfer, Goto
<1>17. ASSUME NEW t \in Task, FinishUse(t)
      PROVE  WellFormed'
  BY <1>17, DropType, QueueType DEF FinishUse, ReleaseSession, Return
<1>18. ASSUME NEW t \in Task, RemoveOk(t)
      PROVE  WellFormed'
  BY <1>18, QueueType DEF RemoveOk, Goto, ReleaseMap
<1>19. ASSUME NEW t \in Task, RemoveMissing(t)
      PROVE  WellFormed'
  BY <1>19, QueueType DEF RemoveMissing, ReleaseMap, Return
<1>20. ASSUME NEW t \in Task, LockForClose(t)
      PROVE  WellFormed'
  BY <1>20, QueueType DEF LockForClose, AskSession, Goto
<1>21. ASSUME NEW t \in Task, Close(t)
      PROVE  WellFormed'
  BY <1>21, QueueType DEF Close, Goto
<1>22. ASSUME NEW t \in Task, FinishClose(t)
      PROVE  WellFormed'
  BY <1>22, DropType, QueueType DEF FinishClose, ReleaseSession, Return
<1>23. ASSUME NEW t \in Task, BeginList(t)
      PROVE  WellFormed'
  BY <1>23, QueueType DEF BeginList, Goto
<1>24. ASSUME NEW t \in Task, NEW s \in Sid, LockForList(t, s)
      PROVE  WellFormed'
  BY <1>24, QueueType DEF LockForList, AskSession, Goto
<1>25. ASSUME NEW t \in Task, Snapshot(t)
      PROVE  WellFormed'
  BY <1>25, QueueType DEF Snapshot, ReleaseSession, Goto
<1>26. ASSUME NEW t \in Task, EndList(t)
      PROVE  WellFormed'
  BY <1>26, QueueType DEF EndList, ReleaseMap, Goto
<1>27. ASSUME NEW t \in Task, FleetGet(t)
      PROVE  WellFormed'
  BY <1>27, QueueType DEF FleetGet, Goto, AskMap
<1>28. ASSUME NEW t \in Task, JoinAll(t)
      PROVE  WellFormed'
  BY <1>28, QueueType DEF JoinAll, Children
<1>29. ASSUME NEW t \in Task, EndTransfer(t)
      PROVE  WellFormed'
  BY <1>29, DropType, QueueType DEF EndTransfer, ReleaseSession, Return
<1>30. CASE UNCHANGED vars
  BY <1>30 DEF vars, taskVars
<1>q. QED
  BY <1>1, <1>2, <1>3, <1>4, <1>5, <1>6, <1>7, <1>8, <1>9, <1>10, <1>11,
     <1>12, <1>13, <1>14, <1>15, <1>16, <1>17, <1>18, <1>19, <1>20, <1>21,
     <1>22, <1>23, <1>24, <1>25, <1>26, <1>27, <1>28, <1>29, <1>30 DEF Next,
     Call, Step, Answer, ConnectStep, UseStep, DisconnectStep, ListStep,
     FleetStep

(* Every step keeps who owns a session: the registry, the connect that     *)
(* makes it, the disconnect that ends it.                                  *)
LEMMA OwnershipStep == IInv /\ [Next]_vars => Ownership'
<1> SUFFICES ASSUME IInv, [Next]_vars PROVE Ownership'
  OBVIOUS
<1> USE NoneAssumption, MaxSentAssumption DEF IInv, WellFormed, TypeOK, PC,
        Hands, Named, Ownership, HandleLive, RegisteredLive, Private,
        SingleCloser, ClosersClose, Connecting, Disconnecting, Locking,
        ListProgress, Registered, objVars, lockVars
<1>1. ASSUME NEW t \in Task, NEW n \in Name, CallConnect(t, n)
      PROVE  Ownership'
  BY <1>1 DEF CallConnect, Goto
<1>2. ASSUME NEW t \in Task, NEW n \in Name, CallUse(t, n)
      PROVE  Ownership'
  BY <1>2 DEF CallUse, Goto, AskMap
<1>3. ASSUME NEW t \in Task, NEW n \in Name, CallDisconnect(t, n)
      PROVE  Ownership'
  BY <1>3 DEF CallDisconnect, Goto, AskMap
<1>4. ASSUME NEW t \in Task, CallList(t)
      PROVE  Ownership'
  BY <1>4 DEF CallList, Goto, AskMap
<1>5. ASSUME NEW t \in Task, NEW C \in SUBSET Task, NEW f \in [C -> Name], CallFleet(t, C, f)
      PROVE  Ownership'
  BY <1>5 DEF CallFleet
<1>6. ASSUME NEW t \in Task, NEW s \in Sid, NEW p \in Port \cup {None}, OpenTransport(t, s, p)
      PROVE  Ownership'
  BY <1>6 DEF OpenTransport, Goto
<1>7. ASSUME NEW t \in Task, OpenFails(t)
      PROVE  Ownership'
  BY <1>7 DEF OpenFails, Return
<1>8. ASSUME NEW t \in Task, Wake(t)
      PROVE  Ownership'
  BY <1>8 DEF Wake, Goto, AskMap
<1>9. ASSUME NEW t \in Task, WakeFails(t)
      PROVE  Ownership'
  BY <1>9, DropFrame DEF WakeFails, Return, HeldByOther
<1>10. ASSUME NEW t \in Task, InsertOk(t)
      PROVE  Ownership'
  BY <1>10 DEF InsertOk, ReleaseMap, Return
<1>11. ASSUME NEW t \in Task, InsertExists(t)
      PROVE  Ownership'
  BY <1>11 DEF InsertExists, ReleaseMap, DropHandle, Return, HeldByOther
<1>12. ASSUME NEW t \in Task, GetOk(t)
      PROVE  Ownership'
  BY <1>12 DEF GetOk, Goto, ReleaseMap
<1>13. ASSUME NEW t \in Task, GetMissing(t)
      PROVE  Ownership'
  BY <1>13 DEF GetMissing, ReleaseMap, Return
<1>14. ASSUME NEW t \in Task, LockForUse(t)
      PROVE  Ownership'
  BY <1>14 DEF LockForUse, AskSession, Goto
<1>15. ASSUME NEW t \in Task, Exchange(t)
      PROVE  Ownership'
  BY <1>15 DEF Exchange
<1>16. ASSUME NEW t \in Task, BeginTransfer(t)
      PROVE  Ownership'
  BY <1>16 DEF BeginTransfer, Goto
<1>17. ASSUME NEW t \in Task, FinishUse(t)
      PROVE  Ownership'
  <2>1. HandleLive'
    BY <1>17, DropFrame DEF FinishUse, ReleaseSession, Return, HeldByOther
  <2>2. RegisteredLive'
    BY <1>17, DropFrame DEF FinishUse, ReleaseSession, Return, HeldByOther
  <2>3. Private'
    BY <1>17, DropFrame DEF FinishUse, ReleaseSession, Return, HeldByOther
  <2>4. SingleCloser'
    BY <1>17, DropFrame DEF FinishUse, ReleaseSession, Return, HeldByOther
  <2>5. ClosersClose'
    BY <1>17, DropFrame DEF FinishUse, ReleaseSession, Return, HeldByOther
  <2>q. QED
    BY <2>1, <2>2, <2>3, <2>4, <2>5
<1>18. ASSUME NEW t \in Task, RemoveOk(t)
      PROVE  Ownership'
  BY <1>18 DEF RemoveOk, Goto, ReleaseMap
<1>19. ASSUME NEW t \in Task, RemoveMissing(t)
      PROVE  Ownership'
  BY <1>19 DEF RemoveMissing, ReleaseMap, Return
<1>20. ASSUME NEW t \in Task, LockForClose(t)
      PROVE  Ownership'
  BY <1>20 DEF LockForClose, AskSession, Goto
<1>21. ASSUME NEW t \in Task, Close(t)
      PROVE  Ownership'
  BY <1>21 DEF Close, Goto
<1>22. ASSUME NEW t \in Task, FinishClose(t)
      PROVE  Ownership'
  <2>1. HandleLive'
    BY <1>22, DropFrame DEF FinishClose, ReleaseSession, Return, HeldByOther
  <2>2. RegisteredLive'
    BY <1>22, DropFrame DEF FinishClose, ReleaseSession, Return, HeldByOther
  <2>3. Private'
    BY <1>22, DropFrame DEF FinishClose, ReleaseSession, Return, HeldByOther
  <2>4. SingleCloser'
    BY <1>22, DropFrame DEF FinishClose, ReleaseSession, Return, HeldByOther
  <2>5. ClosersClose'
    BY <1>22, DropFrame DEF FinishClose, ReleaseSession, Return, HeldByOther
  <2>q. QED
    BY <2>1, <2>2, <2>3, <2>4, <2>5
<1>23. ASSUME NEW t \in Task, BeginList(t)
      PROVE  Ownership'
  BY <1>23 DEF BeginList, Goto
<1>24. ASSUME NEW t \in Task, NEW s \in Sid, LockForList(t, s)
      PROVE  Ownership'
  BY <1>24 DEF LockForList, AskSession, Goto
<1>25. ASSUME NEW t \in Task, Snapshot(t)
      PROVE  Ownership'
  BY <1>25 DEF Snapshot, ReleaseSession, Goto
<1>26. ASSUME NEW t \in Task, EndList(t)
      PROVE  Ownership'
  BY <1>26 DEF EndList, ReleaseMap, Goto
<1>27. ASSUME NEW t \in Task, FleetGet(t)
      PROVE  Ownership'
  BY <1>27 DEF FleetGet, Goto, AskMap
<1>28. ASSUME NEW t \in Task, JoinAll(t)
      PROVE  Ownership'
  BY <1>28 DEF JoinAll, Children
<1>29. ASSUME NEW t \in Task, EndTransfer(t)
      PROVE  Ownership'
  <2>1. HandleLive'
    BY <1>29, DropFrame DEF EndTransfer, ReleaseSession, Return, HeldByOther
  <2>2. RegisteredLive'
    BY <1>29, DropFrame DEF EndTransfer, ReleaseSession, Return, HeldByOther
  <2>3. Private'
    BY <1>29, DropFrame DEF EndTransfer, ReleaseSession, Return, HeldByOther
  <2>4. SingleCloser'
    BY <1>29, DropFrame DEF EndTransfer, ReleaseSession, Return, HeldByOther
  <2>5. ClosersClose'
    BY <1>29, DropFrame DEF EndTransfer, ReleaseSession, Return, HeldByOther
  <2>q. QED
    BY <2>1, <2>2, <2>3, <2>4, <2>5
<1>30. CASE UNCHANGED vars
  BY <1>30 DEF vars, taskVars
<1>q. QED
  BY <1>1, <1>2, <1>3, <1>4, <1>5, <1>6, <1>7, <1>8, <1>9, <1>10, <1>11,
     <1>12, <1>13, <1>14, <1>15, <1>16, <1>17, <1>18, <1>19, <1>20, <1>21,
     <1>22, <1>23, <1>24, <1>25, <1>26, <1>27, <1>28, <1>29, <1>30 DEF Next,
     Call, Step, Answer, ConnectStep, UseStep, DisconnectStep, ListStep,
     FleetStep

(* Every step keeps the critical sections exclusive and a list consistent. *)
LEMMA LockingStep == IInv /\ [Next]_vars => Locking'
<1> SUFFICES ASSUME IInv, [Next]_vars PROVE Locking'
  OBVIOUS
<1> USE NoneAssumption, MaxSentAssumption DEF IInv, WellFormed, TypeOK, PC,
        Hands, Named, Ownership, RegisteredLive, Locking, LocksHeld,
        ListProgress, FleetWaits, Busy, Registered, objVars, lockVars,
        OwnsMap, OwnsSession
<1>1. ASSUME NEW t \in Task, NEW n \in Name, CallConnect(t, n)
      PROVE  Locking'
  BY <1>1, AskKeepsOwner, OneOwner DEF CallConnect, Goto
<1>2. ASSUME NEW t \in Task, NEW n \in Name, CallUse(t, n)
      PROVE  Locking'
  BY <1>2, AskKeepsOwner, OneOwner DEF CallUse, Goto, AskMap
<1>3. ASSUME NEW t \in Task, NEW n \in Name, CallDisconnect(t, n)
      PROVE  Locking'
  BY <1>3, AskKeepsOwner, OneOwner DEF CallDisconnect, Goto, AskMap
<1>4. ASSUME NEW t \in Task, CallList(t)
      PROVE  Locking'
  BY <1>4, AskKeepsOwner, OneOwner DEF CallList, Goto, AskMap
<1>5. ASSUME NEW t \in Task, NEW C \in SUBSET Task, NEW f \in [C -> Name], CallFleet(t, C, f)
      PROVE  Locking'
  BY <1>5, AskKeepsOwner, OneOwner DEF CallFleet
<1>6. ASSUME NEW t \in Task, NEW s \in Sid, NEW p \in Port \cup {None}, OpenTransport(t, s, p)
      PROVE  Locking'
  BY <1>6, AskKeepsOwner, OneOwner DEF OpenTransport, Goto
<1>7. ASSUME NEW t \in Task, OpenFails(t)
      PROVE  Locking'
  BY <1>7, AskKeepsOwner, OneOwner DEF OpenFails, Return
<1>8. ASSUME NEW t \in Task, Wake(t)
      PROVE  Locking'
  BY <1>8, AskKeepsOwner, OneOwner DEF Wake, Goto, AskMap
<1>9. ASSUME NEW t \in Task, WakeFails(t)
      PROVE  Locking'
  BY <1>9, AskKeepsOwner, OneOwner DEF WakeFails, DropHandle, Return,
         HeldByOther
<1>10. ASSUME NEW t \in Task, InsertOk(t)
      PROVE  Locking'
  BY <1>10, AskKeepsOwner, OneOwner DEF InsertOk, ReleaseMap, Return
<1>11. ASSUME NEW t \in Task, InsertExists(t)
      PROVE  Locking'
  BY <1>11, AskKeepsOwner, OneOwner DEF InsertExists, ReleaseMap, DropHandle,
         Return, HeldByOther
<1>12. ASSUME NEW t \in Task, GetOk(t)
      PROVE  Locking'
  BY <1>12, AskKeepsOwner, OneOwner DEF GetOk, Goto, ReleaseMap
<1>13. ASSUME NEW t \in Task, GetMissing(t)
      PROVE  Locking'
  BY <1>13, AskKeepsOwner, OneOwner DEF GetMissing, ReleaseMap, Return
<1>14. ASSUME NEW t \in Task, LockForUse(t)
      PROVE  Locking'
  BY <1>14, AskKeepsOwner, OneOwner DEF LockForUse, AskSession, Goto
<1>15. ASSUME NEW t \in Task, Exchange(t)
      PROVE  Locking'
  BY <1>15, AskKeepsOwner, OneOwner DEF Exchange
<1>16. ASSUME NEW t \in Task, BeginTransfer(t)
      PROVE  Locking'
  BY <1>16, AskKeepsOwner, OneOwner DEF BeginTransfer, Goto
<1>17. ASSUME NEW t \in Task, FinishUse(t)
      PROVE  Locking'
  BY <1>17, AskKeepsOwner, OneOwner DEF FinishUse, ReleaseSession,
         DropHandle, Return, HeldByOther
<1>18. ASSUME NEW t \in Task, RemoveOk(t)
      PROVE  Locking'
  BY <1>18, AskKeepsOwner, OneOwner DEF RemoveOk, Goto, ReleaseMap
<1>19. ASSUME NEW t \in Task, RemoveMissing(t)
      PROVE  Locking'
  BY <1>19, AskKeepsOwner, OneOwner DEF RemoveMissing, ReleaseMap, Return
<1>20. ASSUME NEW t \in Task, LockForClose(t)
      PROVE  Locking'
  BY <1>20, AskKeepsOwner, OneOwner DEF LockForClose, AskSession, Goto
<1>21. ASSUME NEW t \in Task, Close(t)
      PROVE  Locking'
  BY <1>21, AskKeepsOwner, OneOwner DEF Close, Goto
<1>22. ASSUME NEW t \in Task, FinishClose(t)
      PROVE  Locking'
  BY <1>22, AskKeepsOwner, OneOwner DEF FinishClose, ReleaseSession,
         DropHandle, Return, HeldByOther
<1>23. ASSUME NEW t \in Task, BeginList(t)
      PROVE  Locking'
  BY <1>23, AskKeepsOwner, OneOwner DEF BeginList, Goto
<1>24. ASSUME NEW t \in Task, NEW s \in Sid, LockForList(t, s)
      PROVE  Locking'
  BY <1>24, AskKeepsOwner, OneOwner DEF LockForList, AskSession, Goto
<1>25. ASSUME NEW t \in Task, Snapshot(t)
      PROVE  Locking'
  BY <1>25, AskKeepsOwner, OneOwner DEF Snapshot, ReleaseSession, Goto
<1>26. ASSUME NEW t \in Task, EndList(t)
      PROVE  Locking'
  BY <1>26, AskKeepsOwner, OneOwner DEF EndList, ReleaseMap, Goto
<1>27. ASSUME NEW t \in Task, FleetGet(t)
      PROVE  Locking'
  BY <1>27, AskKeepsOwner, OneOwner DEF FleetGet, Goto, AskMap
<1>28. ASSUME NEW t \in Task, JoinAll(t)
      PROVE  Locking'
  BY <1>28, AskKeepsOwner, OneOwner DEF JoinAll, Children
<1>29. ASSUME NEW t \in Task, EndTransfer(t)
      PROVE  Locking'
  BY <1>29, AskKeepsOwner, OneOwner DEF EndTransfer, ReleaseSession,
         DropHandle, Return, HeldByOther
<1>30. CASE UNCHANGED vars
  BY <1>30 DEF vars, taskVars
<1>q. QED
  BY <1>1, <1>2, <1>3, <1>4, <1>5, <1>6, <1>7, <1>8, <1>9, <1>10, <1>11,
     <1>12, <1>13, <1>14, <1>15, <1>16, <1>17, <1>18, <1>19, <1>20, <1>21,
     <1>22, <1>23, <1>24, <1>25, <1>26, <1>27, <1>28, <1>29, <1>30 DEF Next,
     Call, Step, Answer, ConnectStep, UseStep, DisconnectStep, ListStep,
     FleetStep

(* An open session is registered, or a connect or a disconnect has it.     *)
Accounted(s) ==
    \/ \E n \in Name : sessions[n] = s
    \/ \E u \in Task : hand[u] = s /\ (Connecting(u) \/ Disconnecting(u))

(* Nobody but its connect refers to a session before it is registered.     *)
LEMMA PrivateUnshared ==
    ASSUME IInv, NEW t \in Task, Connecting(t)
    PROVE  hand[t] \notin Registered /\ ~HeldByOther(t, hand[t])
<1> USE NoneAssumption DEF IInv, WellFormed, TypeOK, Hands, Ownership
<1>1. hand[t] \in Sid
  BY DEF Connecting
<1>2. \A n \in Name : sessions[n] # hand[t]
  <2> SUFFICES ASSUME NEW n \in Name, sessions[n] = hand[t]
               PROVE  FALSE
    OBVIOUS
  <2>1. sessions[n] # None
    BY <1>1
  <2>q. QED
    BY <2>1 DEF RegisteredLive
<1>3. ~HeldByOther(t, hand[t])
  BY DEF HeldByOther, Private
<1>q. QED
  BY <1>2, <1>3 DEF Registered

(* Every step keeps every open session accounted for.                      *)
LEMMA OpenAccountedStep == IInv /\ [Next]_vars => OpenAccounted'
<1> SUFFICES ASSUME IInv, [Next]_vars, NEW s \in Sid, status'[s] = "open"
             PROVE  Accounted(s)'
  BY DEF OpenAccounted, Accounted
<1>0. status[s] = "open" => Accounted(s)
  BY DEF IInv, OpenAccounted, Accounted
<1> USE NoneAssumption DEF IInv, WellFormed, TypeOK, PC, Hands, Connecting,
        Disconnecting, Accounted, objVars, lockVars
<1>1. ASSUME NEW t \in Task, NEW n \in Name, CallConnect(t, n)
      PROVE  Accounted(s)'
  BY <1>1, <1>0 DEF CallConnect, Goto
<1>2. ASSUME NEW t \in Task, NEW n \in Name, CallUse(t, n)
      PROVE  Accounted(s)'
  BY <1>2, <1>0 DEF CallUse, Goto, AskMap
<1>3. ASSUME NEW t \in Task, NEW n \in Name, CallDisconnect(t, n)
      PROVE  Accounted(s)'
  BY <1>3, <1>0 DEF CallDisconnect, Goto, AskMap
<1>4. ASSUME NEW t \in Task, CallList(t)
      PROVE  Accounted(s)'
  BY <1>4, <1>0 DEF CallList, Goto, AskMap
<1>5. ASSUME NEW t \in Task, NEW C \in SUBSET Task, NEW f \in [C -> Name], CallFleet(t, C, f)
      PROVE  Accounted(s)'
  <2>1. \A u \in Task : /\ hand'[u] = hand[u]
                         /\ pc[u] # "idle" => pc'[u] = pc[u]
    BY <1>5 DEF CallFleet
  <2>q. QED
    BY <1>5, <1>0, <2>1 DEF CallFleet
<1>6. ASSUME NEW t \in Task, NEW r \in Sid, NEW p \in Port \cup {None}, OpenTransport(t, r, p)
      PROVE  Accounted(s)'
  BY <1>6, <1>0 DEF OpenTransport, Goto
<1>7. ASSUME NEW t \in Task, OpenFails(t)
      PROVE  Accounted(s)'
  BY <1>7, <1>0 DEF OpenFails, Return
<1>8. ASSUME NEW t \in Task, Wake(t)
      PROVE  Accounted(s)'
  BY <1>8, <1>0 DEF Wake, Goto, AskMap
<1>9. ASSUME NEW t \in Task, WakeFails(t)
      PROVE  Accounted(s)'
  <2>1. Connecting(t)
    BY <1>9 DEF WakeFails
  <2>2. s # hand[t]
    BY <1>9, <2>1, PrivateUnshared DEF WakeFails, DropHandle
  <2>q. QED
    BY <1>9, <1>0, <2>2 DEF WakeFails, DropHandle, Return
<1>10. ASSUME NEW t \in Task, InsertOk(t)
      PROVE  Accounted(s)'
  <2>1. sname[hand[t]] \in Name
    BY <1>10 DEF InsertOk, Named, Ownership, HandleLive
  <2>2. CASE s = hand[t]
    BY <1>10, <2>1, <2>2 DEF InsertOk
  <2>3. CASE s # hand[t]
    BY <1>10, <1>0, <2>1, <2>3 DEF InsertOk, Return
  <2>q. QED
    BY <2>2, <2>3
<1>11. ASSUME NEW t \in Task, InsertExists(t)
      PROVE  Accounted(s)'
  <2>1. Connecting(t)
    BY <1>11 DEF InsertExists
  <2>2. s # hand[t]
    BY <1>11, <2>1, PrivateUnshared DEF InsertExists, DropHandle
  <2>q. QED
    BY <1>11, <1>0, <2>2 DEF InsertExists, DropHandle, Return
<1>12. ASSUME NEW t \in Task, GetOk(t)
      PROVE  Accounted(s)'
  BY <1>12, <1>0 DEF GetOk, Goto, ReleaseMap
<1>13. ASSUME NEW t \in Task, GetMissing(t)
      PROVE  Accounted(s)'
  BY <1>13, <1>0 DEF GetMissing, ReleaseMap, Return
<1>14. ASSUME NEW t \in Task, LockForUse(t)
      PROVE  Accounted(s)'
  BY <1>14, <1>0 DEF LockForUse, AskSession, Goto
<1>15. ASSUME NEW t \in Task, Exchange(t)
      PROVE  Accounted(s)'
  BY <1>15, <1>0 DEF Exchange
<1>16. ASSUME NEW t \in Task, BeginTransfer(t)
      PROVE  Accounted(s)'
  BY <1>16, <1>0 DEF BeginTransfer, Goto
<1>17. ASSUME NEW t \in Task, FinishUse(t)
      PROVE  Accounted(s)'
  BY <1>17, <1>0 DEF FinishUse, ReleaseSession, DropHandle, Return,
         HeldByOther, Registered
<1>18. ASSUME NEW t \in Task, RemoveOk(t)
      PROVE  Accounted(s)'
  BY <1>18, <1>0 DEF RemoveOk, Goto, ReleaseMap
<1>19. ASSUME NEW t \in Task, RemoveMissing(t)
      PROVE  Accounted(s)'
  BY <1>19, <1>0 DEF RemoveMissing, ReleaseMap, Return
<1>20. ASSUME NEW t \in Task, LockForClose(t)
      PROVE  Accounted(s)'
  BY <1>20, <1>0 DEF LockForClose, AskSession, Goto
<1>21. ASSUME NEW t \in Task, Close(t)
      PROVE  Accounted(s)'
  BY <1>21, <1>0 DEF Close, Goto
<1>22. ASSUME NEW t \in Task, FinishClose(t)
      PROVE  Accounted(s)'
  <2>1. s # hand[t]
    BY <1>22 DEF FinishClose, DropHandle, Ownership, ClosersClose
  <2>q. QED
    BY <1>22, <1>0, <2>1 DEF FinishClose, DropHandle, Return
<1>23. ASSUME NEW t \in Task, BeginList(t)
      PROVE  Accounted(s)'
  BY <1>23, <1>0 DEF BeginList, Goto
<1>24. ASSUME NEW t \in Task, NEW r \in Sid, LockForList(t, r)
      PROVE  Accounted(s)'
  BY <1>24, <1>0 DEF LockForList, AskSession, Goto
<1>25. ASSUME NEW t \in Task, Snapshot(t)
      PROVE  Accounted(s)'
  BY <1>25, <1>0 DEF Snapshot, ReleaseSession, Goto
<1>26. ASSUME NEW t \in Task, EndList(t)
      PROVE  Accounted(s)'
  BY <1>26, <1>0 DEF EndList, ReleaseMap, Goto
<1>27. ASSUME NEW t \in Task, FleetGet(t)
      PROVE  Accounted(s)'
  BY <1>27, <1>0 DEF FleetGet, Goto, AskMap
<1>28. ASSUME NEW t \in Task, JoinAll(t)
      PROVE  Accounted(s)'
  <2>1. \A u \in Task : /\ hand'[u] = hand[u]
                         /\ pc[u] \notin {"join", "joined"} => pc'[u] = pc[u]
    BY <1>28 DEF JoinAll, Children
  <2>q. QED
    BY <1>28, <1>0, <2>1 DEF JoinAll
<1>29. ASSUME NEW t \in Task, EndTransfer(t)
      PROVE  Accounted(s)'
  BY <1>29, <1>0 DEF EndTransfer, ReleaseSession, DropHandle, Return,
         HeldByOther, Registered
<1>30. CASE UNCHANGED vars
  BY <1>30, <1>0 DEF vars, taskVars
<1>q. QED
  BY <1>1, <1>2, <1>3, <1>4, <1>5, <1>6, <1>7, <1>8, <1>9, <1>10, <1>11,
     <1>12, <1>13, <1>14, <1>15, <1>16, <1>17, <1>18, <1>19, <1>20, <1>21,
     <1>22, <1>23, <1>24, <1>25, <1>26, <1>27, <1>28, <1>29, <1>30 DEF Next,
     Call, Step, Answer, ConnectStep, UseStep, DisconnectStep, ListStep,
     FleetStep

(* IInv is an invariant of the registry: what get() finds is live, who is  *)
(* in a critical section owns its lock, and the rest of its parts.         *)
THEOREM InductiveInvariant == Spec => []IInv
<1>1. IInv /\ [Next]_vars => IInv'
  BY WellFormedStep, OwnershipStep, OpenAccountedStep, LockingStep DEF IInv
<1>q. QED
  BY InitInv, <1>1, PTL DEF Spec

-----------------------------------------------------------------------------
(* The safety properties.                                                  *)

(* Every variable keeps its type.                                          *)
THEOREM TypeCorrect == Spec => []TypeOK
<1>1. IInv => TypeOK
  BY DEF IInv, WellFormed
<1>q. QED
  BY InductiveInvariant, <1>1, PTL

(* A session is in the right hands at every moment: nobody has a handle of *)
(* a dropped one, connects and disconnects have theirs for themselves.     *)
THEOREM SessionsOwned == Spec => []Ownership
<1>1. IInv => Ownership
  BY DEF IInv
<1>q. QED
  BY <1>1, InductiveInvariant, PTL

(* What get() finds in the map is open, carries that name, and is not in   *)
(* the hands of a connect or a disconnect.                                 *)
THEOREM RegisteredAreLive == Spec => []RegisteredLive
<1>1. IInv => RegisteredLive
  BY DEF IInv, Ownership
<1>q. QED
  BY InductiveInvariant, <1>1, PTL

(* No call ever holds a handle to a session that was dropped.              *)
THEOREM HandlesAreLive == Spec => []HandleLive
<1>1. IInv => HandleLive
  BY DEF IInv, Ownership
<1>q. QED
  BY InductiveInvariant, <1>1, PTL

(* However many disconnects of a name race, one of them gets the session.  *)
THEOREM OneCloser == Spec => []SingleCloser
<1>1. IInv => SingleCloser
  BY DEF IInv, Ownership
<1>q. QED
  BY InductiveInvariant, <1>1, PTL

(* A run of commands is never interleaved with another call's commands on  *)
(* the session, nor cut short by a disconnect.                             *)
THEOREM CallsAreExclusive == Spec => []CallsNotInterleaved
<1>1. IInv => CallsNotInterleaved
  <2> SUFFICES ASSUME IInv, NEW t \in Task, NEW u \in Task, t # u, Busy(t),
                      hand[u] = hand[t], Busy(u) \/ pc[u] = "closing"
               PROVE  FALSE
    BY DEF CallsNotInterleaved
  <2>1. OwnsSession(t) /\ OwnsSession(u)
    BY DEF IInv, Locking, LocksHeld
  <2>q. QED
    BY <2>1, OneOwner DEF OwnsSession
<1>q. QED
  BY InductiveInvariant, <1>1, PTL

(* list() reports the map as it is when it has visited the last session.   *)
THEOREM ListsAreSnapshots == Spec => []ListIsSnapshot
<1>1. IInv => ListIsSnapshot
  BY DEF IInv, Locking, ListProgress, ListIsSnapshot
<1>q. QED
  BY InductiveInvariant, <1>1, PTL

(* Every fleet task has its fleet call waiting for it.                     *)
THEOREM FleetsWait == Spec => []FleetWaits
<1>1. IInv => FleetWaits
  BY DEF IInv, Locking
<1>q. QED
  BY InductiveInvariant, <1>1, PTL

-----------------------------------------------------------------------------
(* A name is never taken over while its session is registered.             *)
THEOREM NamesNotStolen == Spec => NameNotStolen
<1>1. IInv /\ [Next]_vars =>
        [\A n \in Name :
            sessions[n] # None => sessions'[n] \in {sessions[n], None}]_vars
  <2> SUFFICES ASSUME IInv, [Next]_vars, NEW n \in Name, sessions[n] # None
               PROVE  sessions'[n] \in {sessions[n], None}
    OBVIOUS
  <2> USE DEF IInv, WellFormed, TypeOK
  <2>1. ASSUME NEW t \in Task, InsertOk(t)
        PROVE  sessions'[n] \in {sessions[n], None}
    BY <2>1 DEF InsertOk
  <2>2. ASSUME NEW t \in Task, RemoveOk(t)
        PROVE  sessions'[n] \in {sessions[n], None}
    BY <2>2 DEF RemoveOk
  <2>3. CASE UNCHANGED sessions
    BY <2>3
  <2>4. ASSUME NEW t \in Task, Call(t) PROVE UNCHANGED sessions
    BY <2>4 DEF Call, CallConnect, CallUse, CallDisconnect, CallList, CallFleet
  <2>5. ASSUME NEW t \in Task, ConnectStep(t)
        PROVE  UNCHANGED sessions \/ InsertOk(t)
    BY <2>5 DEF ConnectStep, Wake, WakeFails, InsertExists
  <2>6. ASSUME NEW t \in Task, UseStep(t) \/ Answer(t)
        PROVE  UNCHANGED sessions
    BY <2>6 DEF UseStep, Answer, OpenTransport, OpenFails, GetOk, GetMissing,
             LockForUse, Exchange, BeginTransfer, FinishUse, EndTransfer
  <2>7. ASSUME NEW t \in Task, DisconnectStep(t)
        PROVE  UNCHANGED sessions \/ RemoveOk(t)
    BY <2>7 DEF DisconnectStep, RemoveMissing, LockForClose, Close, FinishClose
  <2>8. ASSUME NEW t \in Task, ListStep(t) \/ FleetStep(t)
        PROVE  UNCHANGED sessions
    BY <2>8 DEF ListStep, BeginList, LockForList, Snapshot, EndList, FleetStep,
             FleetGet, JoinAll
  <2>q. QED
    BY <2>1, <2>2, <2>3, <2>4, <2>5, <2>6, <2>7, <2>8 DEF Next, Step, vars
<1>q. QED
  BY InductiveInvariant, <1>1, PTL DEF Spec, NameNotStolen

-----------------------------------------------------------------------------
(* The registry implements SessionDirectory.                               *)

(* A connect has session s and has not registered it.                      *)
Offered(s) == \E t \in Task : Connecting(t) /\ hand[t] = s

(* A step that leaves alone who has a session leaves alone its phase.      *)
LEMMA PhaseFrame ==
    ASSUME NEW s \in Sid, status'[s] = status[s],
           (s \in Registered)' <=> s \in Registered,
           Offered(s)' <=> Offered(s)
    PROVE  Phase(s)' = Phase(s)
BY DEF Phase, Offered

(* What each phase says of a session: they exclude one another.            *)
PhasesMean ==
    \A s \in Sid : /\ status[s] = "free" <=> Phase(s) = "free"
                   /\ s \in Registered <=> Phase(s) = "registered"
                   /\ Offered(s) <=> Phase(s) = "private"
                   /\ status[s] = "closed" <=> Phase(s) = "closed"

(* The phases have that meaning in every state the invariant allows.       *)
LEMMA PhaseMeaning == IInv => PhasesMean
<1> SUFFICES ASSUME IInv, NEW s \in Sid
             PROVE  /\ status[s] = "free" <=> Phase(s) = "free"
                    /\ s \in Registered <=> Phase(s) = "registered"
                    /\ Offered(s) <=> Phase(s) = "private"
                    /\ status[s] = "closed" <=> Phase(s) = "closed"
  BY DEF PhasesMean
<1> USE NoneAssumption DEF IInv, WellFormed, TypeOK, Hands, Ownership
<1>1. s \in Registered => status[s] = "open"
  BY DEF Registered, RegisteredLive
<1>2. Offered(s) => status[s] = "open" /\ s \notin Registered
  BY PrivateUnshared DEF Offered, Private
<1>3. status[s] \in {"free", "open", "closed"}
  OBVIOUS
<1>q. QED
  BY <1>1, <1>2, <1>3 DEF Phase, Offered

(* A step that changes neither the map nor the session objects, nor which  *)
(* sessions are on their way in, changes nothing in the directory.         *)
LEMMA Stutter ==
    ASSUME IInv, UNCHANGED <<sessions, objVars>>,
           \A u \in Task : /\ Connecting(u)' <=> Connecting(u)
                           /\ Connecting(u) => hand'[u] = hand[u]
    PROVE  UNCHANGED Directory!vars
<1>1. \A s \in Sid : Phase(s)' = Phase(s)
  <2> SUFFICES ASSUME NEW s \in Sid PROVE Phase(s)' = Phase(s)
    OBVIOUS
  <2>1. Offered(s)' <=> Offered(s)
    BY DEF Offered
  <2>q. QED
    BY <2>1, PhaseFrame DEF objVars, Registered
<1>q. QED
  BY <1>1 DEF Directory!vars, phase, objVars

(* A step that disturbs one session only moves that session only.          *)
LEMMA OnePhase ==
    ASSUME NEW s \in Sid,
           \A r \in Sid \ {s} : /\ status'[r] = status[r]
                                /\ (r \in Registered)' <=> r \in Registered
                                /\ Offered(r)' <=> Offered(r)
    PROVE  phase' = [phase EXCEPT ![s] = Phase(s)']
<1>1. \A r \in Sid \ {s} : Phase(r)' = Phase(r)
  BY PhaseFrame
<1>q. QED
  BY <1>1 DEF phase

(* The initial registry is the initial directory.                          *)
LEMMA DirectoryInit == Init => Directory!Init
BY DEF Init, Directory!Init, phase, Phase


(* A call that gives up a session which is neither on its way in nor in    *)
(* its disconnect's hands either leaves the directory alone or, as the     *)
(* last to refer to it, reclaims it: it was withdrawn and closed before.   *)
LEMMA DropMaps ==
    ASSUME IInv, IInv', NEW t \in Task, NEW s \in Sid, hand[t] = s,
           DropHandle(t, s), UNCHANGED sessions,
           pc[t] \in {"use", "transfer", "closing"},
           hand' = [hand EXCEPT ![t] = None],
           \E l \in {"idle", "joined"} : pc' = [pc EXCEPT ![t] = l]
    PROVE  [Directory!Next]_(Directory!vars)
<1> USE NoneAssumption DEF IInv, WellFormed, TypeOK, PC
<1>1. \A u \in Task : /\ Connecting(u)' <=> Connecting(u)
                      /\ Connecting(u) => hand'[u] = hand[u]
  BY DEF Connecting
<1>2. CASE UNCHANGED objVars
  BY <1>1, <1>2, Stutter
<1>3. CASE ~UNCHANGED objVars
  <2>1. s \notin Registered /\ ~HeldByOther(t, s)
    BY <1>3 DEF DropHandle
  <2>2. status' = [status EXCEPT ![s] = "free"]
        /\ sname' = [sname EXCEPT ![s] = None]
    BY <1>3 DEF DropHandle
  <2>3. status[s] = "closed"
    <3>1. status[s] # "free"
      BY DEF Ownership, HandleLive
    <3>2. CASE pc[t] = "closing"
      BY <3>2 DEF Ownership, ClosersClose, Disconnecting
    <3>3. CASE pc[t] # "closing"
      <4>1. ~(hand[t] = s /\ (Connecting(t) \/ Disconnecting(t)))
        BY <3>3 DEF Connecting, Disconnecting
      <4>2. \A n \in Name : sessions[n] # s
        BY <2>1 DEF Registered
      <4>3. \A u \in Task \ {t} : hand[u] # s
        BY <2>1 DEF HeldByOther
      <4>4. \A u \in Task : ~(hand[u] = s /\ (Connecting(u) \/ Disconnecting(u)))
        BY <4>1, <4>3
      <4>5. ~Accounted(s)
        BY <4>2, <4>4 DEF Accounted
      <4>6. status[s] = "open" => Accounted(s)
        BY DEF OpenAccounted, Accounted
      <4>q. QED
        BY <3>1, <4>5, <4>6
    <3>q. QED
      BY <3>2, <3>3
  <2>4. Phase(s) = "closed"
    BY <2>3, PhaseMeaning DEF PhasesMean
  <2>5. Phase(s)' = "free"
    BY <2>2 DEF Phase
  <2>6. \A r \in Sid \ {s} : /\ status'[r] = status[r]
                             /\ (r \in Registered)' <=> r \in Registered
                             /\ Offered(r)' <=> Offered(r)
    BY <1>1, <2>2 DEF Registered, Offered
  <2>7. phase' = [phase EXCEPT ![s] = "free"]
    BY <2>5, <2>6, OnePhase
  <2>8. Directory!Reclaim(s)
    BY <2>2, <2>4, <2>7 DEF Directory!Reclaim, Directory!Vanish, phase
  <2>q. QED
    BY <2>8 DEF Directory!Next
<1>q. QED
  BY <1>2, <1>3

(* A connect that fails after it opened its session discards it.           *)
LEMMA DiscardMaps ==
    ASSUME IInv, IInv', NEW t \in Task, NEW s \in Sid, hand[t] = s,
           DropHandle(t, s), UNCHANGED sessions, Connecting(t),
           hand' = [hand EXCEPT ![t] = None],
           \E l \in {"idle", "joined"} : pc' = [pc EXCEPT ![t] = l]
    PROVE  Directory!Discard(s)
<1> USE NoneAssumption DEF IInv, WellFormed, TypeOK, PC
<1>1. /\ status' = [status EXCEPT ![s] = "free"]
      /\ sname' = [sname EXCEPT ![s] = None]
  BY PrivateUnshared DEF DropHandle
<1>2. Phase(s) = "private"
  BY PhaseMeaning DEF PhasesMean, Offered
<1>3. Phase(s)' = "free"
  BY <1>1 DEF Phase
<1>4. \A r \in Sid \ {s} : /\ status'[r] = status[r]
                           /\ (r \in Registered)' <=> r \in Registered
                           /\ Offered(r)' <=> Offered(r)
  <2>1. \A u \in Task \ {t} : /\ Connecting(u)' <=> Connecting(u)
                              /\ hand'[u] = hand[u]
    BY DEF Connecting
  <2>2. ~Connecting(t)'
    BY DEF Connecting
  <2>3. \A r \in Sid \ {s} : Offered(r)' <=> Offered(r)
    BY <2>1, <2>2 DEF Offered
  <2>q. QED
    BY <1>1, <2>3 DEF Registered
<1>5. phase' = [phase EXCEPT ![s] = "free"]
  BY <1>3, <1>4, OnePhase
<1>q. QED
  BY <1>1, <1>2, <1>5 DEF Directory!Discard, Directory!Vanish, phase

(* The same of the state after a step.                                     *)
LEMMA PhaseMeaningPrimed == IInv' => PhasesMean'
BY PhaseMeaning, PTL

(* A connect that has opened its transport has created a session.          *)
LEMMA OpenMaps ==
    ASSUME IInv, IInv', NEW t \in Task, NEW s \in Sid,
           NEW p \in Port \cup {None}, OpenTransport(t, s, p)
    PROVE  Directory!Open(s, want[t])
<1> USE NoneAssumption DEF IInv, WellFormed, TypeOK, PC, Hands
<1>1. Phase(s) = "free"
  BY DEF OpenTransport, Phase
<1>2. /\ \A u \in Task \ {t} : /\ Connecting(u)' <=> Connecting(u)
                               /\ hand'[u] = hand[u]
      /\ Connecting(t)'
      /\ hand'[t] = s
      /\ ~Connecting(t)
  BY DEF OpenTransport, Goto, Connecting
<1>3. Offered(s)' /\ \A r \in Sid \ {s} : Offered(r)' <=> Offered(r)
  BY <1>2 DEF Offered
<1>4. Phase(s)' = "private"
  BY <1>3, PhaseMeaningPrimed DEF PhasesMean
<1>5. phase' = [phase EXCEPT ![s] = "private"]
  BY <1>3, <1>4, OnePhase DEF OpenTransport, Registered
<1>q. QED
  BY <1>1, <1>5 DEF Directory!Open, phase, OpenTransport

(* An insert registers a session whose name no other registered one has.   *)
LEMMA RegisterMaps ==
    ASSUME IInv, IInv', NEW t \in Task, NEW s \in Sid, hand[t] = s, InsertOk(t)
    PROVE  Directory!Register(s)
<1> USE NoneAssumption DEF IInv, WellFormed, TypeOK, PC, Hands
<1>1. /\ Connecting(t)
      /\ sname[s] \in Name
      /\ sessions[sname[s]] = None
      /\ sessions' = [sessions EXCEPT ![sname[s]] = s]
      /\ UNCHANGED objVars
  BY DEF InsertOk, Connecting, Named, Ownership, HandleLive
<1>2. /\ \A u \in Task \ {t} : /\ Connecting(u)' <=> Connecting(u)
                               /\ hand'[u] = hand[u]
      /\ ~Connecting(t)'
  BY DEF InsertOk, Return, Connecting
<1>3. \A r \in Sid \ {s} : Offered(r)' <=> Offered(r)
  BY <1>2 DEF Offered
<1>4. \A r \in Sid \ {s} : (r \in Registered)' <=> r \in Registered
  BY <1>1 DEF Registered
<1>5. s \in Registered'
  BY <1>1 DEF Registered
<1>6. Phase(s) = "private" /\ Phase(s)' = "registered"
  BY <1>1, <1>2, <1>5, PhaseMeaning, PhaseMeaningPrimed DEF PhasesMean, Offered
<1>7. phase' = [phase EXCEPT ![s] = "registered"]
  BY <1>1, <1>3, <1>4, <1>6, OnePhase DEF objVars
<1>8. \A r \in Sid : phase[r] = "registered" => sname[r] # sname[s]
  <2> SUFFICES ASSUME NEW r \in Sid, phase[r] = "registered",
                      sname[r] = sname[s]
               PROVE  FALSE
    OBVIOUS
  <2>1. r \in Registered
    BY PhaseMeaning DEF PhasesMean, phase
  <2>2. PICK n \in Name : sessions[n] = r
    BY <2>1 DEF Registered
  <2>3. sname[r] = n
    BY <2>2 DEF Ownership, RegisteredLive
  <2>q. QED
    BY <1>1, <2>2, <2>3
<1>q. QED
  BY <1>1, <1>6, <1>7, <1>8 DEF Directory!Register, Directory!Move, phase, objVars

(* A disconnect withdraws a registered session.                            *)
LEMMA WithdrawMaps ==
    ASSUME IInv, IInv', NEW t \in Task, NEW s \in Sid, sessions[want[t]] = s,
           RemoveOk(t)
    PROVE  Directory!Withdraw(s)
<1> USE NoneAssumption DEF IInv, WellFormed, TypeOK, PC, Hands
<1>1. /\ want[t] \in Name
      /\ s \in Registered
      /\ sessions' = [sessions EXCEPT ![want[t]] = None]
      /\ UNCHANGED objVars
      /\ hand' = [hand EXCEPT ![t] = s]
      /\ pc' = [pc EXCEPT ![t] = "withdrawn"]
      /\ pc[t] = "remove"
  BY DEF RemoveOk, Goto, Registered
<1>2. status[s] = "open" /\ sname[s] = want[t]
  BY <1>1 DEF Ownership, RegisteredLive
<1>3. /\ \A u \in Task \ {t} : /\ Connecting(u)' <=> Connecting(u)
                               /\ hand'[u] = hand[u]
      /\ ~Connecting(t)
      /\ ~Connecting(t)'
  BY <1>1 DEF Connecting
<1>4. \A r \in Sid : Offered(r)' <=> Offered(r)
  BY <1>3 DEF Offered
<1>5. \A r \in Sid \ {s} : (r \in Registered)' <=> r \in Registered
  BY <1>1 DEF Registered
<1>6. s \notin Registered'
  <2> SUFFICES ASSUME NEW n \in Name, sessions'[n] = s
               PROVE  FALSE
    BY DEF Registered
  <2>1. n # want[t]
    BY <1>1
  <2>2. sessions[n] = s
    BY <1>1, <2>1
  <2>3. sname[s] = n
    BY <1>1, <2>2 DEF Ownership, RegisteredLive
  <2>q. QED
    BY <1>2, <2>1, <2>3
<1>7. Phase(s) = "registered" /\ ~Offered(s)
  BY <1>1, PhaseMeaning DEF PhasesMean
<1>8. Phase(s)' = "withdrawn"
  BY <1>1, <1>2, <1>4, <1>6, <1>7 DEF Phase, Offered, objVars
<1>9. phase' = [phase EXCEPT ![s] = "withdrawn"]
  BY <1>1, <1>4, <1>5, <1>8, OnePhase DEF objVars
<1>q. QED
  BY <1>1, <1>7, <1>9 DEF Directory!Withdraw, Directory!Move, phase, objVars

(* Transport::close closes a withdrawn session.                            *)
LEMMA CloseMaps ==
    ASSUME IInv, IInv', NEW t \in Task, NEW s \in Sid, hand[t] = s, Close(t)
    PROVE  Directory!Close(s)
<1> USE NoneAssumption DEF IInv, WellFormed, TypeOK, PC, Hands
<1>1. /\ status' = [status EXCEPT ![s] = "closed"]
      /\ UNCHANGED <<sessions, sname, hand>>
      /\ pc[t] = "close"
      /\ pc' = [pc EXCEPT ![t] = "closing"]
  BY DEF Close, Goto
<1>2. Disconnecting(t)
  BY <1>1 DEF Disconnecting
<1>3. status[s] = "open"
  BY <1>1, <1>2 DEF Ownership, ClosersClose
<1>4. s \notin Registered
  BY <1>1, <1>2 DEF Registered, Ownership, RegisteredLive
<1>5. \A u \in Task : (Connecting(u)' <=> Connecting(u)) /\ hand'[u] = hand[u]
  BY <1>1 DEF Connecting
<1>6. \A r \in Sid : Offered(r)' <=> Offered(r)
  BY <1>5 DEF Offered
<1>7. ~Offered(s)
  <2> SUFFICES ASSUME NEW u \in Task, Connecting(u), hand[u] = s
               PROVE  FALSE
    BY DEF Offered
  <2>1. u # t
    BY <1>1 DEF Connecting
  <2>q. QED
    BY <2>1 DEF Ownership, Private
<1>8. Phase(s) = "withdrawn"
  BY <1>3, <1>4, <1>7 DEF Phase, Offered
<1>9. Phase(s)' = "closed"
  BY <1>1, PhaseMeaningPrimed DEF PhasesMean
<1>10. phase' = [phase EXCEPT ![s] = "closed"]
  BY <1>1, <1>6, <1>9, OnePhase DEF Registered
<1>q. QED
  BY <1>1, <1>8, <1>10 DEF Directory!Close, Directory!Move, phase

(* The steps that the directory does not see: every call's beginning, and  *)
(* the waiting, looking up, listing and joining.                           *)
Unseen(t) ==
    \/ Call(t)
    \/ OpenFails(t) \/ Wake(t)
    \/ GetOk(t) \/ GetMissing(t) \/ LockForUse(t) \/ Exchange(t)
    \/ BeginTransfer(t)
    \/ RemoveMissing(t) \/ LockForClose(t)
    \/ ListStep(t)
    \/ FleetStep(t)

(* None of them moves a session from one phase to another.                 *)
LEMMA UnseenStutters ==
    ASSUME IInv, NEW t \in Task, Unseen(t)
    PROVE  UNCHANGED Directory!vars
<1> USE NoneAssumption DEF IInv, WellFormed, TypeOK, PC, Connecting
<1> DEFINE Same == \A u \in Task : /\ Connecting(u)' <=> Connecting(u)
                                   /\ Connecting(u) => hand'[u] = hand[u]
<1>1. UNCHANGED <<sessions, objVars>>
  BY DEF Unseen, Call, CallConnect, CallUse, CallDisconnect, CallList, CallFleet,
         OpenFails, Wake, GetOk, GetMissing, LockForUse, Exchange, BeginTransfer,
         RemoveMissing, LockForClose, ListStep, BeginList, LockForList, Snapshot,
         EndList, FleetStep, FleetGet, JoinAll
<1>2. CASE \/ CallList(t)
           \/ \E n \in Name : \/ CallConnect(t, n) \/ CallUse(t, n)
                              \/ CallDisconnect(t, n)
  <2>1. Same
    BY <1>2 DEF CallConnect, CallUse, CallDisconnect, CallList, Goto
  <2>q. QED
    BY <1>1, <2>1, Stutter
<1>3. CASE \E C \in SUBSET Task : \E f \in [C -> Name] : CallFleet(t, C, f)
  <2>1. Same
    BY <1>3 DEF CallFleet
  <2>q. QED
    BY <1>1, <2>1, Stutter
<1>4. CASE OpenFails(t) \/ Wake(t) \/ GetMissing(t) \/ RemoveMissing(t)
  <2>1. Same
    BY <1>4 DEF OpenFails, Wake, GetMissing, RemoveMissing, Goto, Return
  <2>q. QED
    BY <1>1, <2>1, Stutter
<1>5. CASE \/ GetOk(t) \/ LockForUse(t) \/ Exchange(t) \/ BeginTransfer(t)
           \/ LockForClose(t)
  <2>1. Same
    BY <1>5 DEF GetOk, LockForUse, Exchange, BeginTransfer, LockForClose, Goto
  <2>q. QED
    BY <1>1, <2>1, Stutter
<1>6. CASE ListStep(t)
  <2>1. Same
    BY <1>6 DEF ListStep, BeginList, LockForList, Snapshot, EndList, Goto
  <2>q. QED
    BY <1>1, <2>1, Stutter
<1>7. CASE FleetStep(t)
  <2>1. CASE FleetGet(t)
    BY <2>1, <1>1, Stutter DEF FleetGet, Goto
  <2>2. CASE JoinAll(t)
    <3>1. \A u \in Task : pc'[u] # pc[u] => /\ pc'[u] = "idle"
                                           /\ pc[u] \in {"join", "joined"}
      BY <2>2 DEF JoinAll
    <3>2. UNCHANGED hand
      BY <2>2 DEF JoinAll
    <3>3. Same
      BY <3>1, <3>2
    <3>q. QED
      BY <1>1, <3>3, Stutter
  <2>q. QED
    BY <1>7, <2>1, <2>2 DEF FleetStep
<1>q. QED
  BY <1>2, <1>3, <1>4, <1>5, <1>6, <1>7 DEF Unseen, Call

(* Every step of the registry is a step of the directory, or a stutter.    *)
LEMMA DirectoryStep ==
    IInv /\ IInv' /\ [Next]_vars => [Directory!Next]_(Directory!vars)
<1> SUFFICES ASSUME IInv, IInv', [Next]_vars
             PROVE  [Directory!Next]_(Directory!vars)
  OBVIOUS
<1> USE NoneAssumption DEF IInv, WellFormed, TypeOK, PC, Hands
<1>1. ASSUME NEW t \in Task, Unseen(t)
      PROVE  [Directory!Next]_(Directory!vars)
  BY <1>1, UnseenStutters
<1>2. ASSUME NEW t \in Task, NEW s \in Sid, NEW p \in Port \cup {None},
             OpenTransport(t, s, p)
      PROVE  [Directory!Next]_(Directory!vars)
  <2>1. want[t] \in Name
    BY <1>2 DEF OpenTransport
  <2>q. QED
    BY <1>2, <2>1, OpenMaps DEF Directory!Next
<1>3. ASSUME NEW t \in Task, WakeFails(t) \/ InsertExists(t)
      PROVE  [Directory!Next]_(Directory!vars)
  <2>1. /\ hand[t] \in Sid
        /\ Connecting(t)
        /\ DropHandle(t, hand[t])
        /\ UNCHANGED sessions
        /\ hand' = [hand EXCEPT ![t] = None]
    BY <1>3 DEF WakeFails, InsertExists, Return, Connecting
  <2>2. \E l \in {"idle", "joined"} : pc' = [pc EXCEPT ![t] = l]
    BY <1>3 DEF WakeFails, InsertExists, Return
  <2>q. QED
    BY <2>1, <2>2, DiscardMaps DEF Directory!Next
<1>4. ASSUME NEW t \in Task, InsertOk(t)
      PROVE  [Directory!Next]_(Directory!vars)
  <2>1. hand[t] \in Sid
    BY <1>4 DEF InsertOk
  <2>q. QED
    BY <1>4, <2>1, RegisterMaps DEF Directory!Next
<1>5. ASSUME NEW t \in Task, FinishUse(t) \/ EndTransfer(t) \/ FinishClose(t)
      PROVE  [Directory!Next]_(Directory!vars)
  <2>1. /\ hand[t] \in Sid
        /\ pc[t] \in {"use", "transfer", "closing"}
        /\ DropHandle(t, hand[t])
        /\ UNCHANGED sessions
        /\ hand' = [hand EXCEPT ![t] = None]
    BY <1>5 DEF FinishUse, EndTransfer, FinishClose, Return
  <2>2. \E l \in {"idle", "joined"} : pc' = [pc EXCEPT ![t] = l]
    BY <1>5 DEF FinishUse, EndTransfer, FinishClose, Return
  <2>q. QED
    BY <2>1, <2>2, DropMaps
<1>6. ASSUME NEW t \in Task, RemoveOk(t)
      PROVE  [Directory!Next]_(Directory!vars)
  <2>1. sessions[want[t]] \in Sid
    BY <1>6 DEF RemoveOk
  <2>q. QED
    BY <1>6, <2>1, WithdrawMaps DEF Directory!Next
<1>7. ASSUME NEW t \in Task, Close(t)
      PROVE  [Directory!Next]_(Directory!vars)
  <2>1. hand[t] \in Sid
    BY <1>7 DEF Close
  <2>q. QED
    BY <1>7, <2>1, CloseMaps DEF Directory!Next
<1>8. CASE UNCHANGED vars
  BY <1>8, Stutter DEF vars, taskVars, Connecting
<1>q. QED
  BY <1>1, <1>2, <1>3, <1>4, <1>5, <1>6, <1>7, <1>8
     DEF Next, Step, Answer, ConnectStep, UseStep, DisconnectStep, Unseen

(* The registry implements the directory: from its opening to its drop     *)
(* every session goes through the life cycle that SessionDirectory states. *)
THEOREM RegistryImplementsDirectory == Spec => ImplementsDirectory
BY InductiveInvariant, DirectoryInit, DirectoryStep, PTL
   DEF Spec, ImplementsDirectory, Directory!Spec

=============================================================================

