------------------------ MODULE BrokerElectionProofs -------------------------
(***************************************************************************)
(* As long as no election meets a race it cannot cope with and no live     *)
(* owner breaks off, any number of processes share one registry, whichever *)
(* of them exit.                                                           *)
(***************************************************************************)
EXTENDS BrokerElection, TLAPS

(* Each system has its own labels and its own variables.                   *)
Apart ==
    /\ system = "unix" =>
           /\ busy = {} /\ \A i \in Instance : conn[i] = "none"
           /\ \A i \in Instance : pc[i] \notin {"create", "open", "greet"}
    /\ system = "windows" =>
           \A i \in Instance :
               pc[i] \notin {"probe", "handshake", "clear", "bind", "bound"}

(* Unix: only one election at a time, and it gives way to a live owner.    *)
OneElection ==
    system = "unix" =>
        \A i, j \in Instance :
            pc[i] \in Electing /\ pc[j] \in Electing => i = j

(* Who serves is the live owner, there is one, and on Unix the path leads  *)
(* to it.                                                                  *)
OwnersServe ==
    /\ \A i \in Instance :
           /\ i \in Serving <=> pc[i] = "owner"
           /\ pc[i] = "owner" /\ system = "unix" => file = i
    /\ \A i, j \in Instance : pc[i] = "owner" /\ pc[j] = "owner" => i = j

(* An election that goes past the probe has found that there is no owner,  *)
(* and one that waits for a handshake knows who it can be.                 *)
ProbeDecides ==
    \A i \in Instance :
        /\ pc[i] \in {"clear", "bind", "bound"} => listening = {}
        /\ pc[i] = "bind" => file = None
        /\ pc[i] = "bound" => file = i
        /\ pc[i] = "handshake" => link[i] \in Instance /\ listening \subseteq {link[i]}
        /\ pc[i] \notin {"retry", "rehandshake", "local"}

(* Windows: an election that cannot make the first instance has an owner   *)
(* to go to, because no connection outlives one that is gone.              *)
PipeDecides ==
    system = "windows" =>
        \A i \in Instance :
            /\ pc[i] \in Electing /\ Serving = {} =>
                   \A j \in Instance : conn[j] = "none"
            /\ pc[i] = "open" => Serving # {}
            /\ pc[i] = "greet" => link[i] \in Serving

(* A proxy was attached to an owner, which has died if it is none now.     *)
ProxiesAttached ==
    \A i \in Instance :
        pc[i] = "proxy" => /\ link[i] \in Instance
                           /\ pc[link[i]] \in {"owner", "dead"}

Calm ==
    Apart /\ OneElection /\ OwnersServe /\ ProbeDecides /\ PipeDecides /\ ProxiesAttached

CalmInv == TypeOK /\ (~raced /\ ~faulty => Calm)

(* The initial state satisfies the invariant.                              *)
LEMMA CalmInit == Init => CalmInv
BY NoneAssumption DEF Init, CalmInv, Calm, TypeOK, OneElection, OwnersServe,
   ProbeDecides, ProxiesAttached, Electing, Settled, Apart, PipeDecides, Serving

(* No step breaks it, a step that races or breaks a live owner off         *)
(* included: that one makes a history variable true.                       *)
LEMMA CalmStep == CalmInv /\ [Next]_vars => CalmInv'
<1> SUFFICES ASSUME CalmInv, [Next]_vars PROVE CalmInv'
  OBVIOUS
<1> USE NoneAssumption DEF CalmInv, Calm, TypeOK, OneElection, OwnersServe,
        ProbeDecides, ProxiesAttached, Electing, Settled, Goto, history, pipe,
        Apart, PipeDecides, Serving
<1>1. ASSUME NEW i \in Instance, Start(i) PROVE CalmInv'
  <2>1. /\ pc[i] = "new"
        /\ pc' = [pc EXCEPT ![i] = IF system = "unix" THEN "probe" ELSE "create"]
        /\ UNCHANGED <<file, listening, link, system, busy, conn, faulty>>
    BY <1>1 DEF Start
  <2>2. raced' \in BOOLEAN /\ (~raced' => ~raced /\ ~RaceAtStart)
    BY <1>1, ZenonT(30) DEF Start
  <2>3. TypeOK'
    BY <2>1, <2>2
  <2>4. ASSUME ~raced', ~faulty' PROVE Calm'
    <3>1. Calm /\ ~RaceAtStart
      BY <2>1, <2>2, <2>4
    <3>2. CASE system = "unix"
      BY <2>1, <3>1, <3>2 DEF RaceAtStart
    <3>3. CASE system = "windows"
      BY <2>1, <3>1, <3>3 DEF RaceAtStart, PipeExists
    <3>q. QED
      BY <3>2, <3>3
  <2>q. QED
    BY <2>3, <2>4
<1>2. ASSUME NEW i \in Instance, ProbeAttach(i) PROVE CalmInv'
  BY <1>2 DEF ProbeAttach, Attach
<1>3. ASSUME NEW i \in Instance, ProbeRefused(i) PROVE CalmInv'
  BY <1>3 DEF ProbeRefused, Refused
<1>4. ASSUME NEW i \in Instance, ProbeAnswered(i) PROVE CalmInv'
  BY <1>4 DEF ProbeAnswered, HandshakeOk
<1>5. ASSUME NEW i \in Instance, ProbeBroken(i) PROVE CalmInv'
  <2>1. /\ pc[i] = "handshake" /\ pc' = [pc EXCEPT ![i] = "clear"]
        /\ link' = [link EXCEPT ![i] = None]
        /\ conn' = [conn EXCEPT ![i] = "none"]
        /\ UNCHANGED <<file, listening, system, busy, raced>>
    BY <1>5 DEF ProbeBroken, HandshakeFails
  <2>2. /\ faulty' \in BOOLEAN
        /\ ~faulty' => ~faulty /\ link[i] \notin Serving
    BY <1>5, ZenonT(30) DEF ProbeBroken, HandshakeFails
  <2>3. TypeOK'
    BY <2>1, <2>2
  <2>4. ASSUME ~raced', ~faulty' PROVE Calm'
    <3>1. Calm /\ system = "unix" /\ listening = {}
      BY <2>1, <2>2, <2>4
    <3>q. QED
      BY <2>1, <3>1
  <2>q. QED
    BY <2>3, <2>4
<1>6. ASSUME NEW i \in Instance, ClearStale(i) \/ ClearFails(i) PROVE CalmInv'
  <2>1. CASE ClearStale(i)
    BY <2>1 DEF ClearStale
  <2>2. CASE ClearFails(i)
    BY <2>2 DEF ClearFails
  <2>q. QED
    BY <1>6, <2>1, <2>2
<1>7. ASSUME NEW i \in Instance, Bind(i) PROVE CalmInv'
  BY <1>7 DEF Bind
<1>8. ASSUME NEW i \in Instance, Listen(i) PROVE CalmInv'
  BY <1>8 DEF Listen
<1>9. ASSUME NEW i \in Instance, BindFails(i) PROVE CalmInv'
  <2>1. /\ pc[i] = "bind" /\ pc' = [pc EXCEPT ![i] = "retry"]
        /\ UNCHANGED <<file, listening, link, system, busy, conn, raced>>
    BY <1>9 DEF BindFails
  <2>2. faulty' \in BOOLEAN /\ (~faulty' => ~faulty /\ file # None)
    BY <1>9, ZenonT(30) DEF BindFails
  <2>3. raced' \/ faulty'
    BY <2>1, <2>2
  <2>q. QED
    BY <2>1, <2>2, <2>3
<1>10. ASSUME NEW i \in Instance,
              \/ RetryAttach(i) \/ RetryRefused(i)
              \/ RetryAnswered(i) \/ RetryBroken(i)
       PROVE  CalmInv'
  <2>1. raced \/ faulty
    BY <1>10 DEF RetryAttach, RetryRefused, RetryAnswered, RetryBroken,
           Attach, Refused, HandshakeOk, HandshakeFails
  <2>2. TypeOK' /\ (raced' \/ faulty')
    BY <1>10, <2>1 DEF RetryAttach, RetryRefused, RetryAnswered, RetryBroken,
           Attach, Refused, HandshakeOk, HandshakeFails
  <2>q. QED
    BY <2>2
<1>11. ASSUME NEW i \in Instance, CreateFirst(i) PROVE CalmInv'
  BY <1>11 DEF CreateFirst, PipeExists
<1>12. ASSUME NEW i \in Instance, CreateFails(i) PROVE CalmInv'
  BY <1>12 DEF CreateFails, PipeExists
<1>13. ASSUME NEW i \in Instance, OpenPipe(i) PROVE CalmInv'
  BY <1>13 DEF OpenPipe
<1>14. ASSUME NEW i \in Instance, NoPipe(i) PROVE CalmInv'
  <2>1. /\ pc[i] = "open" /\ pc' = [pc EXCEPT ![i] = "local"] /\ listening = {}
        /\ UNCHANGED <<file, listening, link, system, busy, conn, raced>>
    BY <1>14 DEF NoPipe
  <2>2. faulty' \in BOOLEAN /\ (~faulty' => ~faulty /\ busy = {})
    BY <1>14, ZenonT(30) DEF NoPipe
  <2>3. raced' \/ faulty'
    BY <2>1, <2>2
  <2>q. QED
    BY <2>1, <2>2, <2>3
<1>15. ASSUME NEW i \in Instance, GreetAnswered(i) PROVE CalmInv'
  BY <1>15 DEF GreetAnswered
<1>16. ASSUME NEW i \in Instance, GreetBroken(i) PROVE CalmInv'
  <2>1. /\ pc[i] = "greet" /\ pc' = [pc EXCEPT ![i] = "local"]
        /\ link' = [link EXCEPT ![i] = None]
        /\ conn' = [conn EXCEPT ![i] = "none"]
        /\ UNCHANGED <<file, listening, system, busy, raced>>
    BY <1>16 DEF GreetBroken, HandshakeFails
  <2>2. faulty' \in BOOLEAN /\ (~faulty' => ~faulty /\ link[i] \notin Serving)
    BY <1>16, ZenonT(30) DEF GreetBroken, HandshakeFails
  <2>3. raced' \/ faulty'
    BY <2>1, <2>2
  <2>q. QED
    BY <2>1, <2>2, <2>3
<1>17. ASSUME NEW i \in Instance, NextInstance(i) PROVE CalmInv'
  BY <1>17 DEF NextInstance, Become, Taken
<1>18. ASSUME NEW i \in Instance, PipeCloses(i) PROVE CalmInv'
  BY <1>18 DEF PipeCloses
<1>19. ASSUME NEW i \in Instance, AcceptFails(i) PROVE CalmInv'
  BY <1>19 DEF AcceptFails, Become, Taken
<1>20. ASSUME NEW i \in Instance, Exit(i) PROVE CalmInv'
  <2>1. /\ Alive(i) /\ pc' = [pc EXCEPT ![i] = "dead"]
        /\ listening' = listening \ {i} /\ busy' = busy \ {i}
        /\ conn' = [j \in Instance |->
                        IF conn[j] # "none" /\ i \in {j, link[j]}
                        THEN "left" ELSE conn[j]]
        /\ UNCHANGED <<file, link, system, faulty>>
    BY <1>20 DEF Exit, Become
  <2>2. /\ raced' \in BOOLEAN
        /\ ~raced' => ~raced /\ ~(/\ system = "windows" /\ pc[i] = "owner"
                                 /\ \E j \in Instance : pc[j] \in Electing)
    BY <1>20, ZenonT(30) DEF Exit
  <2>3. TypeOK'
    BY <2>1, <2>2 DEF Alive
  <2>4. ASSUME ~raced', ~faulty' PROVE Calm'
    <3>1. Calm
      BY <2>1, <2>2, <2>4
    <3>2. (Apart /\ OneElection /\ OwnersServe /\ ProbeDecides /\ ProxiesAttached)'
      BY <2>1, <3>1 DEF Alive
    <3>3. PipeDecides'
      <4> SUFFICES ASSUME system = "windows", NEW k \in Instance,
                          pc'[k] \in Electing
                   PROVE  /\ Serving' = {} => \A j \in Instance : conn'[j] = "none"
                          /\ pc'[k] = "open" => Serving' # {}
                          /\ pc'[k] = "greet" => link'[k] \in Serving'
        BY <2>1
      <4>1. pc[k] = pc'[k] /\ k # i
        BY <2>1
      <4>2. pc[i] # "owner"
        BY <2>2, <2>4, <4>1
      <4>3. Serving' = Serving
        BY <2>1, <3>1, <4>2
      <4>q. QED
        BY <2>1, <3>1, <4>1, <4>3
    <3>q. QED
      BY <3>2, <3>3
  <2>q. QED
    BY <2>3, <2>4
<1>21. CASE UNCHANGED vars
  BY <1>21 DEF vars
<1>q. QED
  BY <1>1, <1>2, <1>3, <1>4, <1>5, <1>6, <1>7, <1>8, <1>9, <1>10, <1>11,
     <1>12, <1>13, <1>14, <1>15, <1>16, <1>17, <1>18, <1>19, <1>20, <1>21
     DEF Next, Elect

(* The state of an election is always one the code knows.                  *)
THEOREM ElectionTypes == Spec => []TypeOK
<1>1. CalmInv => TypeOK
  BY DEF CalmInv
<1>q. QED
  BY CalmInit, CalmStep, <1>1, PTL DEF Spec

(* Without such a race, all processes share one set of sessions.           *)
THEOREM ElectionsShare == Spec => []OneRegistry
<1>1. CalmInv => OneRegistry
  BY DEF CalmInv, Calm, OneRegistry, Shared, OwnersServe, ProbeDecides,
         ProxiesAttached, Registry, Settled, Alive
<1>q. QED
  BY CalmInit, CalmStep, <1>1, PTL DEF Spec

(* Then the live owner can always be reached.                              *)
THEOREM OwnersAreFound == Spec => []OwnerReachable
<1>1. CalmInv => OwnerReachable
  BY DEF CalmInv, Calm, OwnerReachable, OwnersServe
<1>q. QED
  BY CalmInit, CalmStep, <1>1, PTL DEF Spec

(* And nobody takes a serving socket off the path.                         *)
THEOREM SocketsAreKept == Spec => ServingSocketKept
<1>1. CalmInv /\ [Next]_vars =>
          [~raced /\ ~faulty' /\ file \in listening => file' = file]_vars
  <2> SUFFICES ASSUME CalmInv, [Next]_vars, ~raced, ~faulty',
                      file \in listening
               PROVE  file' = file
    OBVIOUS
  <2> USE DEF history
  <2>1. ~faulty
    BY DEF CalmInv, TypeOK, Next, Elect, vars, Start, ProbeAttach,
       RetryAttach, Attach, ProbeRefused, RetryRefused, Refused, ProbeAnswered,
       RetryAnswered, HandshakeOk, ProbeBroken, RetryBroken, HandshakeFails,
       ClearStale, ClearFails, Bind, Listen, BindFails, CreateFirst, CreateFails, OpenPipe,
       NoPipe, GreetAnswered, GreetBroken, NextInstance, PipeCloses,
       AcceptFails, Exit
  <2>2. \A i \in Instance : ~ClearStale(i) /\ ~Bind(i)
    BY <2>1, NoneAssumption
    DEF CalmInv, Calm, TypeOK, ProbeDecides, ClearStale, Bind
  <2>q. QED
    BY <2>2 DEF Next, Elect, vars, Start, ProbeAttach, RetryAttach, Attach,
       ProbeRefused, RetryRefused, Refused, ProbeAnswered, RetryAnswered,
       HandshakeOk, ProbeBroken, RetryBroken, HandshakeFails, ClearFails,
       Listen, BindFails, CreateFirst, CreateFails, OpenPipe, NoPipe, GreetAnswered,
       GreetBroken, NextInstance, PipeCloses, AcceptFails, Exit
<1>q. QED
  BY CalmInit, CalmStep, <1>1, PTL DEF Spec, ServingSocketKept

-----------------------------------------------------------------------------
(* Whatever starts overlap and whatever fails.                             *)

(* Only owners serve, and who was attached to was an owner.                *)
ForwardInv ==
    /\ TypeOK
    /\ \A i \in Serving : pc[i] = "owner"
    /\ \A i \in Instance :
           pc[i] \in {"handshake", "rehandshake", "greet", "proxy"} =>
               link[i] \in Instance /\ pc[link[i]] \in {"owner", "dead"}

(* A proxy never forwards to a proxy, nor to itself.                       *)
THEOREM ProxiesForwardToOwners == Spec => []ForwardsToOwner
<1> USE NoneAssumption
    DEF ForwardInv, TypeOK, Electing, Settled, Goto, history, pipe, Serving
<1>1. Init => ForwardInv
  BY DEF Init
<1>2. ForwardInv /\ [Next]_vars => ForwardInv'
  <2> SUFFICES ASSUME ForwardInv, [Next]_vars PROVE ForwardInv'
    OBVIOUS
  <2>1. ASSUME NEW i \in Instance, Start(i) PROVE ForwardInv'
    <3>1. /\ pc[i] = "new"
          /\ pc' = [pc EXCEPT ![i] = IF system = "unix" THEN "probe" ELSE "create"]
          /\ UNCHANGED <<file, listening, link, system, busy, conn, faulty>>
      BY <2>1 DEF Start
    <3>2. raced' \in BOOLEAN
      BY <2>1, ZenonT(30) DEF Start
    <3>q. QED
      BY <3>1, <3>2
  <2>2. ASSUME NEW i \in Instance, ProbeAttach(i) \/ RetryAttach(i)
        PROVE  ForwardInv'
    BY <2>2 DEF ProbeAttach, RetryAttach, Attach
  <2>3. ASSUME NEW i \in Instance, ProbeRefused(i) \/ RetryRefused(i)
        PROVE  ForwardInv'
    BY <2>3 DEF ProbeRefused, RetryRefused, Refused
  <2>4. ASSUME NEW i \in Instance, ProbeAnswered(i) \/ RetryAnswered(i)
        PROVE  ForwardInv'
    BY <2>4 DEF ProbeAnswered, RetryAnswered, HandshakeOk
  <2>5. ASSUME NEW i \in Instance, ProbeBroken(i) \/ RetryBroken(i) \/ GreetBroken(i)
        PROVE  ForwardInv'
    <3>1. PICK a \in {"handshake", "rehandshake", "greet"}, b \in {"clear", "local"} :
              HandshakeFails(i, a, b)
      BY <2>5 DEF ProbeBroken, RetryBroken, GreetBroken
    <3>2. faulty' \in BOOLEAN
      BY <3>1, ZenonT(30) DEF HandshakeFails
    <3>3. /\ pc[i] = a /\ pc' = [pc EXCEPT ![i] = b]
          /\ link' = [link EXCEPT ![i] = None]
          /\ conn' = [conn EXCEPT ![i] = "none"]
          /\ UNCHANGED <<file, listening, system, busy, raced>>
      BY <3>1 DEF HandshakeFails
    <3>q. QED
      BY <3>2, <3>3
  <2>6. ASSUME NEW i \in Instance,
               ClearStale(i) \/ ClearFails(i) \/ Bind(i) \/ BindFails(i)
        PROVE  ForwardInv'
    <3>1. CASE BindFails(i)
      <4>1. faulty' \in BOOLEAN
        BY <3>1, ZenonT(30) DEF BindFails
      <4>2. /\ pc[i] = "bind" /\ pc' = [pc EXCEPT ![i] = "retry"]
            /\ UNCHANGED <<file, listening, link, system, busy, conn, raced>>
        BY <3>1 DEF BindFails
      <4>q. QED
        BY <4>1, <4>2
    <3>2. CASE ClearStale(i)
      BY <3>2 DEF ClearStale
    <3>3. CASE ClearFails(i)
      BY <3>3 DEF ClearFails
    <3>4. CASE Bind(i)
      BY <3>4 DEF Bind
    <3>q. QED
      BY <2>6, <3>1, <3>2, <3>3, <3>4
  <2>7. ASSUME NEW i \in Instance, Listen(i) \/ CreateFirst(i) \/ CreateFails(i)
        PROVE  ForwardInv'
    BY <2>7 DEF Listen, CreateFirst, CreateFails
  <2>8. ASSUME NEW i \in Instance, OpenPipe(i) PROVE ForwardInv'
    BY <2>8 DEF OpenPipe
  <2>9. ASSUME NEW i \in Instance, NoPipe(i) PROVE ForwardInv'
    <3>1. faulty' \in BOOLEAN
      BY <2>9, ZenonT(30) DEF NoPipe
    <3>2. /\ pc[i] = "open" /\ pc' = [pc EXCEPT ![i] = "local"]
          /\ UNCHANGED <<file, listening, link, system, busy, conn, raced>>
      BY <2>9 DEF NoPipe
    <3>q. QED
      BY <3>1, <3>2
  <2>10. ASSUME NEW i \in Instance, GreetAnswered(i) \/ PipeCloses(i)
         PROVE  ForwardInv'
    BY <2>10 DEF GreetAnswered, PipeCloses
  <2>11. ASSUME NEW i \in Instance, NextInstance(i) PROVE ForwardInv'
    BY <2>11 DEF NextInstance, Become, Taken
  <2>12. ASSUME NEW i \in Instance, AcceptFails(i) PROVE ForwardInv'
    BY <2>12 DEF AcceptFails, Become, Taken
  <2>13. ASSUME NEW i \in Instance, Exit(i) PROVE ForwardInv'
    <3>1. raced' \in BOOLEAN
      BY <2>13, ZenonT(30) DEF Exit
    <3>2. /\ Alive(i) /\ pc' = [pc EXCEPT ![i] = "dead"]
          /\ listening' = listening \ {i} /\ busy' = busy \ {i}
          /\ conn' \in [Instance -> {"none", "taken", "served", "left"}]
          /\ UNCHANGED <<file, link, system, faulty>>
      BY <2>13 DEF Exit, Become
    <3>q. QED
      BY <3>1, <3>2 DEF Alive
  <2>14. CASE UNCHANGED vars
    BY <2>14 DEF vars
  <2>q. QED
    BY <2>1, <2>2, <2>3, <2>4, <2>5, <2>6, <2>7, <2>8, <2>9, <2>10, <2>11,
       <2>12, <2>13, <2>14 DEF Next, Elect
<1>3. ForwardInv => ForwardsToOwner
  BY DEF ForwardsToOwner
<1>q. QED
  BY <1>1, <1>2, <1>3, PTL DEF Spec

=============================================================================
