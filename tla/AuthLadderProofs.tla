--------------------------- MODULE AuthLadderProofs ---------------------------
(***************************************************************************)
(* However many credentials there are and whatever becomes of each, they   *)
(* have their turns in order, the call reports the one that worked, and    *)
(* its error accounts for all that had one.                                *)
(***************************************************************************)
EXTENDS AuthLadder, TLAPS

Early == {"lookup", "nouser", "password"}

(* The first n files, or identities, have had their turn and no others.    *)
FilesTurn(n)      == \A k \in 1..(MaxConfig + 1) :
                         fate[File(k)] # "untried" <=> k <= n
IdentitiesTurn(n) == \A k \in 1..MaxIds :
                         fate[Identity(k)] # "untried" <=> k <= n

(* The ladder has been climbed as far as file m and identity n, which is   *)
(* where i says.                                                           *)
Climbed(m, n) ==
    /\ m \in 0..files /\ n \in 0..ids
    /\ fate[Password] # "untried" <=> password
    /\ FilesTurn(m) /\ IdentitiesTurn(n)
    /\ n > 0 => m = files
    /\ stage = "file" => m = i - 1
    /\ stage \in {"agent", "identity"} => m = files
    /\ stage = "identity" => n = i - 1

Progress ==
    /\ stage \in Early => \A r \in Rungs : fate[r] = "untried"
    /\ stage \notin Early => \E m, n \in Nat : Climbed(m, n)
    /\ stage \in Early \cup {"file", "agent"} => ids = 0
    /\ stage \in Early => i = 1
    /\ stage # "done" => used = NoRung
    /\ ReportsWhatWorked
    /\ ~lost => refusals < MaxTries

LadderInv == TypeOK /\ Progress

-----------------------------------------------------------------------------
(* The rungs of a ladder are told apart by their kind and their number.    *)
LEMMA RungsDistinct ==
    /\ \A j, k : File(j) = File(k) => j = k
    /\ \A j, k : Identity(j) = Identity(k) => j = k
    /\ \A j, k : File(j) # Identity(k)
    /\ \A k : File(k) # Password /\ Identity(k) # Password
    /\ \A r \in Rungs : r # NoRung
    /\ Password \in Rungs
    /\ \A k \in 1..(MaxConfig + 1) : File(k) \in Rungs
    /\ \A k \in 1..MaxIds : Identity(k) \in Rungs
    /\ \A r \in Rungs : \/ r = Password
                        \/ \E k \in 1..(MaxConfig + 1) : r = File(k)
                        \/ \E k \in 1..MaxIds : r = Identity(k)
<1>1. \A r \in Rungs : r # NoRung
  BY DEF Rungs, Password, File, Identity, NoRung
<1>q. QED
  BY <1>1 DEF Rungs, Password, File, Identity

(* The initial state satisfies the invariant.                              *)
LEMMA LadderInit == Init => LadderInv
<1> SUFFICES ASSUME Init PROVE LadderInv
  OBVIOUS
<1>1. TypeOK
  <2>1. supplied \in BOOLEAN \X BOOLEAN \X BOOLEAN /\ lost \in BOOLEAN
    BY ZenonT(30) DEF Init, supplied
  <2>2. password \in BOOLEAN /\ useAgent \in BOOLEAN /\ explicit \in BOOLEAN
    BY DEF Init
  <2>3. /\ stage = "lookup" /\ i = 1 /\ files = 0 /\ keyAt = 0 /\ ids = 0
        /\ fate = [r \in Rungs |-> "untried"] /\ tried = {} /\ used = NoRung
        /\ refusals = 0
    BY DEF Init
  <2>q. QED
    BY <2>1, <2>2, <2>3, BoundsAssumption DEF TypeOK
<1>2. Progress
  BY RungsDistinct, BoundsAssumption
  DEF Init, Progress, Early, ReportsWhatWorked
<1>q. QED
  BY <1>1, <1>2 DEF LadderInv

(* An answer leaves the server's side as it should be.                     *)
LEMMA AnswerTyped ==
    ASSUME LadderInv, NEW answer, Answer(answer)
    PROVE  /\ refusals' \in 0..MaxTries /\ lost' \in BOOLEAN
           /\ ~lost' => refusals' < MaxTries
<1> USE DEF LadderInv, TypeOK, Progress
<1>1. CASE ~lost /\ answer = "rejected" /\ refusals' = refusals + 1
                /\ lost' = (refusals' = MaxTries)
  <2>1. lost' \in BOOLEAN /\ (~lost' => refusals' # MaxTries)
    BY <1>1, ZenonT(30)
  <2>2. refusals' \in 0..MaxTries
    BY <1>1, BoundsAssumption
  <2>q. QED
    BY <2>1, <2>2, BoundsAssumption
<1>2. CASE lost /\ UNCHANGED <<refusals, lost>>
  BY <1>2
<1>3. CASE ~lost /\ UNCHANGED <<refusals, lost>>
  BY <1>3
<1>4. CASE lost' = TRUE /\ UNCHANGED refusals
  BY <1>4
<1>q. QED
  BY <1>1, <1>2, <1>3, <1>4 DEF Answer

-----------------------------------------------------------------------------
(* A rung that has its turn was untried and is not again.  Files:          *)
LEMMA FileTurned ==
    ASSUME LadderInv, stage = "file", i <= files,
           NEW f \in Passed, NEW entry \in SUBSET (Rungs \cup {Agent}),
           Turn(File(i), f, entry, "file", i + 1),
           refusals' \in 0..MaxTries, lost' \in BOOLEAN,
           ~lost' => refusals' < MaxTries
    PROVE  LadderInv'
<1> USE DEF LadderInv
<1>1. i \in 1..(MaxConfig + 1) /\ File(i) \in Rungs /\ i + 1 <= MaxConfig + MaxIds + 2
  BY RungsDistinct, BoundsAssumption DEF TypeOK
<1>2. /\ fate' = [fate EXCEPT ![File(i)] = f]
      /\ tried' = tried \cup entry
      /\ UNCHANGED <<supplied, files, keyAt, ids>>
      /\ f = "accepted" => used' = File(i) /\ stage' = "done" /\ i' = i
      /\ f # "accepted" => used' = used /\ stage' = "file" /\ i' = i + 1
  BY DEF Turn
<1>3. PICK m \in Nat, n \in Nat : Climbed(m, n)
  BY DEF Progress, Early
<1>4. m = i - 1 /\ n = 0 /\ ids = 0 /\ used = NoRung
  BY <1>3 DEF Climbed, Progress, TypeOK
<1>5. TypeOK'
  BY <1>1, <1>2, BoundsAssumption DEF TypeOK, supplied
<1>6. PICK j \in 1..(MaxConfig + 1) : j = i
  BY <1>1
<1>7. /\ fate'[Password] = fate[Password]
      /\ \A k \in 1..MaxIds : fate'[Identity(k)] = fate[Identity(k)]
      /\ \A k \in 1..(MaxConfig + 1) :
             fate'[File(k)] = IF k = j THEN f ELSE fate[File(k)]
  BY <1>1, <1>2, <1>6, RungsDistinct DEF TypeOK
<1>8. f # "untried"
  BY DEF Passed, Offered
<1>9. FilesTurn(j)' /\ IdentitiesTurn(0)'
  BY <1>1, <1>3, <1>4, <1>6, <1>7, <1>8
  DEF Climbed, FilesTurn, IdentitiesTurn, TypeOK
<1>10. Climbed(j, 0)'
  BY <1>1, <1>2, <1>3, <1>4, <1>6, <1>7, <1>9, RungsDistinct
  DEF Climbed, supplied, TypeOK
<1>11. ReportsWhatWorked'
  BY <1>1, <1>2, <1>4, RungsDistinct DEF ReportsWhatWorked, Progress, TypeOK
<1>12. stage' \notin Early /\ j \in Nat
  BY <1>1, <1>2 DEF Early
<1>13. Progress'
  BY <1>2, <1>4, <1>10, <1>11, <1>12 DEF Progress
<1>q. QED
  BY <1>5, <1>13

(* Identities, whose turn may be the last:                                 *)
LEMMA IdentityTurned ==
    ASSUME LadderInv, stage = "identity", i <= ids,
           NEW f \in Passed, NEW entry \in SUBSET (Rungs \cup {Agent}),
           NEW s \in {"identity", "done"}, NEW next,
           Turn(Identity(i), f, entry, s, next),
           s = "identity" => next = i + 1,
           s = "done" => next = i,
           refusals' \in 0..MaxTries, lost' \in BOOLEAN,
           ~lost' => refusals' < MaxTries
    PROVE  LadderInv'
<1> USE DEF LadderInv
<1>1. i \in 1..MaxIds /\ Identity(i) \in Rungs /\ i + 1 <= MaxConfig + MaxIds + 2
  BY RungsDistinct, BoundsAssumption DEF TypeOK
<1>2. /\ fate' = [fate EXCEPT ![Identity(i)] = f]
      /\ tried' = tried \cup entry
      /\ UNCHANGED <<supplied, files, keyAt, ids>>
      /\ f = "accepted" => used' = Identity(i) /\ stage' = "done" /\ i' = i
      /\ f # "accepted" => used' = used /\ stage' = s /\ i' = next
  BY DEF Turn
<1>3. PICK m \in Nat, n \in Nat : Climbed(m, n)
  BY DEF Progress, Early
<1>4. m = files /\ n = i - 1 /\ used = NoRung
  BY <1>3 DEF Climbed, Progress, TypeOK
<1>5. TypeOK'
  BY <1>1, <1>2, BoundsAssumption DEF TypeOK, supplied
<1>6. PICK j \in 1..MaxIds : j = i
  BY <1>1
<1>7. /\ fate'[Password] = fate[Password]
      /\ \A k \in 1..(MaxConfig + 1) : fate'[File(k)] = fate[File(k)]
      /\ \A k \in 1..MaxIds :
             fate'[Identity(k)] = IF k = j THEN f ELSE fate[Identity(k)]
  BY <1>1, <1>2, <1>6, RungsDistinct DEF TypeOK
<1>8. f # "untried"
  BY DEF Passed, Offered
<1>9. FilesTurn(m)' /\ IdentitiesTurn(j)'
  BY <1>1, <1>3, <1>4, <1>6, <1>7, <1>8
  DEF Climbed, FilesTurn, IdentitiesTurn, TypeOK
<1>10. Climbed(m, j)'
  BY <1>1, <1>2, <1>3, <1>4, <1>6, <1>7, <1>9, RungsDistinct
  DEF Climbed, supplied, TypeOK
<1>11. ReportsWhatWorked'
  BY <1>1, <1>2, <1>4, RungsDistinct DEF ReportsWhatWorked, Progress, TypeOK
<1>12. stage' \notin Early \cup {"file", "agent"} /\ j \in Nat
  BY <1>1, <1>2 DEF Early
<1>13. Progress'
  BY <1>2, <1>4, <1>10, <1>11, <1>12 DEF Progress
<1>q. QED
  BY <1>5, <1>13

-----------------------------------------------------------------------------
(* Every step of the call preserves the invariant.                         *)
LEMMA LadderStep == LadderInv /\ [Next]_vars => LadderInv'
<1> SUFFICES ASSUME LadderInv, [Next]_vars PROVE LadderInv'
  OBVIOUS
<1>0. TypeOK /\ Progress
  BY DEF LadderInv
<1>1. ASSUME NEW n \in 0..MaxConfig, Resolve(n) PROVE LadderInv'
  <2>1. files' \in 0..(MaxConfig + 1) /\ keyAt' \in 0..(MaxConfig + 1)
    BY <1>1, BoundsAssumption DEF Resolve
  <2>2. TypeOK'
    BY <1>0, <1>1, <2>1 DEF Resolve, TypeOK, supplied, serverVars
  <2>3. Progress'
    BY <1>0, <1>1 DEF Resolve, Progress, Early, serverVars, ReportsWhatWorked
  <2>q. QED
    BY <2>2, <2>3 DEF LadderInv
<1>2. ASSUME NoUsername PROVE LadderInv'
  BY <1>0, <1>2 DEF NoUsername, LadderInv, TypeOK, Progress, Early, supplied,
     serverVars, ReportsWhatWorked
<1>3. ASSUME NEW answer \in Offered, PasswordTurn(answer) PROVE LadderInv'
  <2>1. /\ stage = "password" /\ password /\ ids = 0 /\ used = NoRung
        /\ fate' = [fate EXCEPT ![Password] = answer]
        /\ UNCHANGED <<supplied, files, keyAt, ids>>
        /\ answer = "accepted" => used' = Password /\ stage' = "done" /\ i' = i
        /\ answer # "accepted" => used' = used /\ stage' = "file" /\ i' = 1
        /\ tried' = tried \cup Entry(answer, Password)
    BY <1>0, <1>3 DEF PasswordTurn, Turn, Progress, Early
  <2>2. /\ refusals' \in 0..MaxTries /\ lost' \in BOOLEAN
        /\ ~lost' => refusals' < MaxTries
    BY <1>3, AnswerTyped DEF PasswordTurn
  <2>3. TypeOK'
    BY <1>0, <2>1, <2>2, RungsDistinct, BoundsAssumption
    DEF TypeOK, supplied, Entry, Passed
  <2>4. /\ fate'[Password] = answer /\ answer # "untried"
        /\ \A r \in Rungs \ {Password} : fate'[r] = "untried"
    BY <1>0, <2>1, RungsDistinct DEF TypeOK, Progress, Early, Offered
  <2>5. FilesTurn(0)' /\ IdentitiesTurn(0)'
    BY <2>4, RungsDistinct DEF FilesTurn, IdentitiesTurn
  <2>6. Climbed(0, 0)'
    BY <1>0, <2>1, <2>3, <2>4, <2>5, RungsDistinct DEF Climbed, supplied, TypeOK
  <2>7. ReportsWhatWorked'
    BY <1>0, <2>1, <2>4, RungsDistinct DEF ReportsWhatWorked
  <2>8. stage' \notin Early
    BY <2>1 DEF Early
  <2>9. Progress'
    BY <2>1, <2>2, <2>6, <2>7, <2>8 DEF Progress
  <2>q. QED
    BY <2>3, <2>9 DEF LadderInv
<1>4. ASSUME NoPassword PROVE LadderInv'
  <2>1. TypeOK'
    BY <1>0, <1>4 DEF NoPassword, TypeOK, supplied, serverVars
  <2>2. /\ stage = "password" /\ ~password /\ stage' = "file" /\ ids = 0
        /\ UNCHANGED <<i, supplied, files, keyAt, ids, fate, tried, used, serverVars>>
    BY <1>0, <1>4 DEF NoPassword, Progress, Early
  <2>3. FilesTurn(0)' /\ IdentitiesTurn(0)'
    BY <1>0, <2>2, RungsDistinct DEF FilesTurn, IdentitiesTurn, Progress, Early
  <2>4. i = 1
    BY <1>0, <2>2 DEF Progress, Early
  <2>5. Climbed(0, 0)'
    BY <1>0, <2>2, <2>3, <2>4, RungsDistinct
    DEF Climbed, supplied, TypeOK, Progress, Early
  <2>6. Progress'
    BY <1>0, <2>2, <2>5 DEF Progress, Early, ReportsWhatWorked, serverVars
  <2>q. QED
    BY <2>1, <2>6 DEF LadderInv
<1>5. ASSUME FileMissing \/ FileUnusable PROVE LadderInv'
  <2>1. PICK f \in Passed, entry \in SUBSET (Rungs \cup {Agent}) :
            Turn(File(i), f, entry, "file", i + 1)
    <3>1. i \in 1..(MaxConfig + 1)
      BY <1>0, <1>5, BoundsAssumption DEF FileMissing, FileUnusable, TypeOK
    <3>q. QED
      BY <1>5, <3>1, RungsDistinct DEF FileMissing, FileUnusable, Passed
  <2>q. QED
    BY <1>0, <1>5, <2>1, FileTurned
    DEF FileMissing, FileUnusable, serverVars, TypeOK, Progress
<1>6. ASSUME NEW answer \in Offered, FileTurn(answer) PROVE LadderInv'
  <2>1. /\ stage = "file" /\ i <= files
        /\ Turn(File(i), answer, Entry(answer, File(i)), "file", i + 1)
        /\ answer \in Passed
    BY <1>6 DEF FileTurn, Passed
  <2>2. Entry(answer, File(i)) \in SUBSET (Rungs \cup {Agent})
    BY <1>0, <2>1, RungsDistinct, BoundsAssumption DEF Entry, TypeOK
  <2>3. /\ refusals' \in 0..MaxTries /\ lost' \in BOOLEAN
        /\ ~lost' => refusals' < MaxTries
    BY <1>6, AnswerTyped DEF FileTurn
  <2>q. QED
    BY <2>1, <2>2, <2>3, FileTurned
<1>7. ASSUME FilesDone \/ NoAgent \/ AgentEmpty PROVE LadderInv'
  <2>1. TypeOK'
    BY <1>0, <1>7
    DEF FilesDone, NoAgent, AgentEmpty, TypeOK, supplied, serverVars
  <2>2. PICK m \in Nat, n \in Nat : Climbed(m, n)
    BY <1>0, <1>7 DEF FilesDone, NoAgent, AgentEmpty, Progress, Early
  <2>3. /\ UNCHANGED <<supplied, files, ids, fate, used, serverVars>>
        /\ stage' \in {"agent", "done"} /\ ids = 0 /\ used = NoRung
        /\ m = files /\ n = 0 /\ stage \in {"file", "agent"}
    BY <1>0, <1>7, <2>2
    DEF FilesDone, NoAgent, AgentEmpty, Progress, Climbed, TypeOK
  <2>4. FilesTurn(m)' /\ IdentitiesTurn(n)'
    BY <2>2, <2>3 DEF Climbed, FilesTurn, IdentitiesTurn
  <2>5. Climbed(m, n)'
    <3>1. /\ m \in 0..files /\ n \in 0..ids /\ n = ids
          /\ fate[Password] # "untried" <=> password
          /\ UNCHANGED <<files, ids, fate, password>>
      BY <2>2, <2>3, BoundsAssumption DEF Climbed, supplied
    <3>q. QED
      BY <2>2, <2>3, <2>4, <3>1 DEF Climbed
  <2>6. Progress'
    BY <1>0, <2>3, <2>5 DEF Progress, Early, ReportsWhatWorked, serverVars
  <2>q. QED
    BY <2>1, <2>6 DEF LadderInv
<1>8. ASSUME NEW k \in 1..MaxIds, AgentLists(k) PROVE LadderInv'
  <2>1. TypeOK'
    BY <1>0, <1>8, BoundsAssumption DEF AgentLists, TypeOK, supplied, serverVars
  <2>2. PICK m \in Nat, n \in Nat : Climbed(m, n)
    BY <1>0, <1>8 DEF AgentLists, Progress, Early
  <2>3. /\ UNCHANGED <<supplied, files, fate, used, serverVars>>
        /\ stage' = "identity" /\ i' = 1 /\ ids' = k /\ used = NoRung
        /\ m = files /\ n = 0
    BY <1>0, <1>8, <2>2 DEF AgentLists, Progress, Climbed, TypeOK
  <2>4. FilesTurn(m)' /\ IdentitiesTurn(n)'
    BY <2>2, <2>3 DEF Climbed, FilesTurn, IdentitiesTurn
  <2>5. Climbed(m, n)'
    <3>1. /\ m \in 0..files /\ n \in 0..ids' /\ n = 0
          /\ fate[Password] # "untried" <=> password
          /\ UNCHANGED <<files, fate, password>>
      BY <2>2, <2>3, BoundsAssumption DEF Climbed, supplied
    <3>q. QED
      BY <2>2, <2>3, <2>4, <3>1 DEF Climbed
  <2>6. Progress'
    BY <1>0, <2>3, <2>5 DEF Progress, Early, ReportsWhatWorked, serverVars
  <2>q. QED
    BY <2>1, <2>6 DEF LadderInv
<1>9. ASSUME IdentityKeyless \/ IdentityUnsigned PROVE LadderInv'
  <2>1. /\ stage = "identity" /\ i <= ids /\ UNCHANGED <<refusals, lost>>
    BY <1>9 DEF IdentityKeyless, IdentityUnsigned, serverVars
  <2>2. CASE IdentityKeyless
    <3>1. Turn(Identity(i), "keyless", {}, "identity", i + 1)
      BY <2>2 DEF IdentityKeyless
    <3>2. "keyless" \in Passed
      BY DEF Passed
    <3>q. QED
      BY <1>0, <2>1, <3>1, <3>2, IdentityTurned DEF TypeOK, Progress
  <2>3. CASE IdentityUnsigned
    <3>1. Turn(Identity(i), "unsigned", {Agent}, "done", i)
      BY <2>3 DEF IdentityUnsigned
    <3>2. "unsigned" \in Passed
      BY DEF Passed
    <3>q. QED
      BY <1>0, <2>1, <3>1, <3>2, IdentityTurned DEF TypeOK, Progress
  <2>q. QED
    BY <1>9, <2>2, <2>3
<1>10. ASSUME NEW answer \in Offered, IdentityTurn(answer) PROVE LadderInv'
  <2>1. stage = "identity" /\ i <= ids /\ answer \in Passed
    BY <1>10 DEF IdentityTurn, Passed
  <2>2. /\ refusals' \in 0..MaxTries /\ lost' \in BOOLEAN
        /\ ~lost' => refusals' < MaxTries
    BY <1>10, AnswerTyped DEF IdentityTurn
  <2>3. CASE answer = "error"
    <3>1. Turn(Identity(i), answer, {Agent}, "done", i)
      BY <1>10, <2>3 DEF IdentityTurn
    <3>q. QED
      BY <2>1, <2>2, <3>1, IdentityTurned
  <2>4. CASE answer # "error"
    <3>1. Turn(Identity(i), answer, {}, "identity", i + 1)
      BY <1>10, <2>4 DEF IdentityTurn
    <3>q. QED
      BY <2>1, <2>2, <3>1, IdentityTurned
  <2>q. QED
    BY <2>3, <2>4
<1>11. ASSUME IdentitiesDone PROVE LadderInv'
  <2>1. TypeOK'
    BY <1>0, <1>11 DEF IdentitiesDone, TypeOK, supplied, serverVars
  <2>2. PICK m \in Nat, n \in Nat : Climbed(m, n)
    BY <1>0, <1>11 DEF IdentitiesDone, Progress, Early
  <2>3. /\ UNCHANGED <<supplied, files, ids, fate, used, serverVars>>
        /\ stage' = "done" /\ used = NoRung
        /\ m = files /\ n = ids
    BY <1>0, <1>11, <2>2 DEF IdentitiesDone, Progress, Climbed, TypeOK
  <2>4. FilesTurn(m)' /\ IdentitiesTurn(n)'
    BY <2>2, <2>3 DEF Climbed, FilesTurn, IdentitiesTurn
  <2>5. Climbed(m, n)'
    <3>1. /\ m \in 0..files /\ n \in 0..ids /\ n = ids
          /\ fate[Password] # "untried" <=> password
          /\ UNCHANGED <<files, ids, fate, password>>
      BY <2>2, <2>3, BoundsAssumption DEF Climbed, supplied
    <3>q. QED
      BY <2>2, <2>3, <2>4, <3>1 DEF Climbed
  <2>6. Progress'
    BY <1>0, <2>3, <2>5 DEF Progress, Early, ReportsWhatWorked, serverVars
  <2>q. QED
    BY <2>1, <2>6 DEF LadderInv
<1>12. CASE UNCHANGED vars
  <2>1. TypeOK'
    BY <1>0, <1>12 DEF vars, supplied, serverVars, TypeOK
  <2>2. Progress'
    BY <1>0, <1>12 DEF vars, supplied, serverVars, Progress, Early, Climbed,
       FilesTurn, IdentitiesTurn, ReportsWhatWorked
  <2>q. QED
    BY <2>1, <2>2 DEF LadderInv
<1>q. QED
  BY <1>1, <1>2, <1>3, <1>4, <1>5, <1>6, <1>7, <1>8, <1>9, <1>10, <1>11, <1>12
  DEF Next

-----------------------------------------------------------------------------
(* The state of a login is always one the code knows.                      *)
THEOREM LadderTypes == Spec => []TypeOK
<1>1. LadderInv => TypeOK
  BY DEF LadderInv
<1>q. QED
  BY LadderInit, LadderStep, <1>1, PTL DEF Spec

(* The credential reported is the one the server accepted.                 *)
THEOREM LadderReports == Spec => []ReportsWhatWorked
<1>1. LadderInv => ReportsWhatWorked
  BY DEF LadderInv, Progress
<1>q. QED
  BY LadderInit, LadderStep, <1>1, PTL DEF Spec

(* Credentials have their turn in order.                                   *)
THEOREM LadderInOrder == Spec => []InOrder
<1>1. LadderInv => InOrder
  <2> SUFFICES ASSUME LadderInv, NEW q \in Ladder, NEW r \in Ladder,
                      Rank(q) < Rank(r), fate[r] # "untried"
               PROVE  fate[q] # "untried"
    BY DEF InOrder
  <2>1. TypeOK /\ Progress
    BY DEF LadderInv
  <2>2. q \in Rungs /\ r \in Rungs
    BY DEF Ladder
  <2>3. PICK m \in Nat, n \in Nat : Climbed(m, n)
    BY <2>1, <2>2 DEF Progress
  <2>4. /\ Rank(Password) = 0
        /\ \A k : Rank(File(k)) = k /\ Rank(Identity(k)) = MaxConfig + 1 + k
        /\ Password \in Ladder => password
        /\ \A k : File(k) \in Ladder => k <= files
        /\ \A k : Identity(k) \in Ladder => k <= ids
    BY DEF Rank, Password, File, Identity, Ladder
  <2>5. CASE q = Password
    BY <2>3, <2>4, <2>5 DEF Climbed
  <2>6. ASSUME NEW k \in 1..(MaxConfig + 1), q = File(k)
        PROVE  fate[q] # "untried"
    <3>1. r # Password
      BY <2>4, <2>6
    <3>2. ASSUME NEW j \in 1..(MaxConfig + 1), r = File(j)
          PROVE  fate[q] # "untried"
      BY <2>3, <2>4, <2>6, <3>2 DEF Climbed, FilesTurn
    <3>3. ASSUME NEW j \in 1..MaxIds, r = Identity(j)
          PROVE  fate[q] # "untried"
      BY <2>3, <2>4, <2>6, <3>3 DEF Climbed, FilesTurn, IdentitiesTurn
    <3>q. QED
      BY <2>2, <3>1, <3>2, <3>3, RungsDistinct
  <2>7. ASSUME NEW k \in 1..MaxIds, q = Identity(k)
        PROVE  fate[q] # "untried"
    <3>1. r # Password
      BY <2>4, <2>7, BoundsAssumption
    <3>2. ASSUME NEW j \in 1..(MaxConfig + 1) PROVE r # File(j)
      BY <2>4, <2>7, BoundsAssumption
    <3>3. ASSUME NEW j \in 1..MaxIds, r = Identity(j)
          PROVE  fate[q] # "untried"
      BY <2>3, <2>4, <2>7, <3>3, BoundsAssumption DEF Climbed, IdentitiesTurn
    <3>q. QED
      BY <2>2, <3>1, <3>2, <3>3, RungsDistinct
  <2>q. QED
    BY <2>2, <2>5, <2>6, <2>7, RungsDistinct
<1>q. QED
  BY LadderInit, LadderStep, <1>1, PTL DEF Spec

-----------------------------------------------------------------------------
(* The server's patience: before anybody but the password has been refused *)
(* the supplied key is offered, which is the first file.                   *)
Patience ==
    /\ stage \in Early => refusals = 0
    /\ stage \notin {"lookup", "nouser"} /\ explicit => keyAt = 1 /\ files >= 1
    /\ SuppliedOffered

(* The error's entries are complete for files and the password at any      *)
(* time, and for the agent when the login has failed.                      *)
Told == Passed \ {"missing", "accepted"}

Mentioned ==
    /\ password /\ fate[Password] \in Told => Password \in tried
    /\ \A k \in 1..(MaxConfig + 1) : fate[File(k)] \in Told => File(k) \in tried
    /\ stage = "done" /\ used = NoRung =>
           Agent \in tried \/ \A k \in 1..MaxIds : fate[Identity(k)] = "untried"

FullInv == LadderInv /\ Patience /\ Mentioned

(* The initial states satisfy all of it.                                   *)
LEMMA FullInit == Init => FullInv
<1> SUFFICES ASSUME Init PROVE FullInv
  OBVIOUS
<1>1. LadderInv
  BY LadderInit
<1>2. /\ stage = "lookup" /\ refusals = 0 /\ MaxTries # 0
      /\ \A r \in Rungs : fate[r] = "untried"
  BY BoundsAssumption DEF Init
<1>3. Patience
  BY <1>2 DEF Patience, Early, SuppliedOffered
<1>4. Mentioned
  BY <1>2, RungsDistinct DEF Mentioned, Told, Passed, Offered
<1>q. QED
  BY <1>1, <1>3, <1>4 DEF FullInv

(* What a turn does to the fates.                                          *)
LEMMA TurnedFate ==
    ASSUME TypeOK, NEW r \in Rungs, NEW f, NEW entry, NEW s, NEW j,
           Turn(r, f, entry, s, j)
    PROVE  /\ fate'[r] = f
           /\ \A q \in Rungs \ {r} : fate'[q] = fate[q]
           /\ tried \subseteq tried' /\ entry \subseteq tried'
           /\ UNCHANGED <<password, useAgent, explicit, files, keyAt, ids>>
           /\ f = "accepted" => used' = r /\ stage' = "done"
           /\ f # "accepted" => used' = used /\ stage' = s /\ i' = j
BY DEF Turn, TypeOK, supplied

(* After the lookup the supplied key, if there is one, is the first file,  *)
(* and whoever is at the agent has passed it.                              *)
LEMMA FirstFileTurned ==
    ASSUME LadderInv, Patience, explicit,
           stage \in {"agent", "identity"} \/ (stage = "file" /\ i > 1)
    PROVE  fate[File(1)] # "untried"
<1>1. TypeOK /\ Progress /\ stage \notin Early \cup {"lookup", "nouser"}
  BY DEF LadderInv, Early
<1>2. PICK m \in Nat, n \in Nat : Climbed(m, n)
  BY <1>1 DEF Progress
<1>3. files >= 1
  BY <1>1 DEF Patience, Early
<1>4. m >= 1
  BY <1>1, <1>2, <1>3 DEF Climbed, TypeOK
<1>5. 1 \in 1..(MaxConfig + 1)
  BY BoundsAssumption
<1>q. QED
  BY <1>2, <1>4, <1>5 DEF Climbed, FilesTurn

(* The server's patience is spent on the supplied credentials first.       *)
LEMMA PatienceStep ==
    ASSUME LadderInv, LadderInv', Patience, [Next]_vars
    PROVE  Patience'
<1>0. /\ TypeOK /\ Progress /\ TypeOK' /\ Progress'
      /\ MaxTries \in Nat /\ MaxTries >= 2 /\ 1 \in 1..(MaxConfig + 1)
  BY BoundsAssumption DEF LadderInv
<1> DEFINE Kept == UNCHANGED <<explicit, keyAt, files>>
<1>1. ASSUME stage' \notin Early, Kept,
             /\ explicit => keyAt = 1 /\ files >= 1
             /\ refusals' = MaxTries /\ explicit => fate'[File(1)] # "untried"
      PROVE  Patience'
  <2>1. PICK m \in Nat, n \in Nat : Climbed(m, n)'
    BY <1>0, <1>1 DEF Progress
  <2>2. password' => fate'[Password] # "untried"
    BY <2>1 DEF Climbed
  <2>q. QED
    BY <1>1, <2>2 DEF Patience, SuppliedOffered
<1>2. ASSUME NEW n \in 0..MaxConfig, Resolve(n) PROVE Patience'
  <2>1. /\ stage' = "password" /\ refusals = 0 /\ refusals' = refusals
        /\ explicit' = explicit
        /\ explicit => keyAt' = 1 /\ files' = n + 1
    BY <1>2 DEF Resolve, Patience, Early, serverVars, supplied
  <2>q. QED
    BY <1>0, <2>1 DEF Patience, SuppliedOffered, Early
<1>3. ASSUME NoUsername PROVE Patience'
  BY <1>0, <1>3 DEF NoUsername, Patience, SuppliedOffered, Early, serverVars
<1>4. ASSUME NEW answer \in Offered, PasswordTurn(answer) PROVE Patience'
  <2>1. /\ stage = "password" /\ refusals = 0
        /\ explicit => keyAt = 1 /\ files >= 1
    BY <1>4 DEF PasswordTurn, Patience, Early
  <2>2. refusals' # MaxTries
    BY <1>0, <1>4, <2>1 DEF PasswordTurn, Answer
  <2>3. Turn(Password, answer, Entry(answer, Password), "file", 1)
    BY <1>4 DEF PasswordTurn
  <2>4. Kept /\ stage' \in {"done", "file"}
    BY <1>0, <2>3, TurnedFate, RungsDistinct
  <2>q. QED
    BY <1>1, <2>1, <2>2, <2>4 DEF Early
<1>5. ASSUME NoPassword PROVE Patience'
  <2>1. /\ stage = "password" /\ refusals = 0 /\ stage' = "file" /\ Kept
        /\ refusals' = refusals
        /\ explicit => keyAt = 1 /\ files >= 1
    BY <1>5 DEF NoPassword, Patience, Early, supplied, serverVars
  <2>q. QED
    BY <1>0, <1>1, <2>1 DEF Early
<1>6. ASSUME NEW f, NEW entry, f # "untried", stage = "file", i <= files,
             Turn(File(i), f, entry, "file", i + 1)
      PROVE  Patience'
  <2>1. i \in 1..(MaxConfig + 1) /\ File(i) \in Rungs /\ File(1) \in Rungs
    BY <1>0, <1>6, RungsDistinct, BoundsAssumption DEF TypeOK
  <2>2. Kept /\ stage' \in {"done", "file"} /\ fate'[File(i)] = f
    BY <1>0, <1>6, <2>1, TurnedFate
  <2>3. explicit => fate'[File(1)] # "untried"
    <3>1. CASE i = 1
      BY <1>6, <2>2, <3>1
    <3>2. CASE i > 1 /\ explicit
      <4>1. fate[File(1)] # "untried"
        BY <1>6, <3>2, FirstFileTurned
      <4>2. File(1) # File(i)
        BY <3>2, RungsDistinct
      <4>3. fate'[File(1)] = fate[File(1)]
        BY <1>0, <1>6, <2>1, <4>2, TurnedFate
      <4>q. QED
        BY <4>1, <4>3
    <3>q. QED
      BY <2>1, <3>1, <3>2
  <2>4. explicit => keyAt = 1 /\ files >= 1
    BY <1>6 DEF Patience
  <2>q. QED
    BY <1>1, <2>2, <2>3, <2>4 DEF Early
<1>7. ASSUME FileMissing \/ FileUnusable \/ \E answer \in Offered : FileTurn(answer)
      PROVE  Patience'
  BY <1>6, <1>7 DEF FileMissing, FileUnusable, FileTurn, Offered
<1>8. ASSUME stage \in {"agent", "identity"}, stage' \notin Early, Kept,
             explicit => fate'[File(1)] = fate[File(1)]
      PROVE  Patience'
  <2>1. explicit => keyAt = 1 /\ files >= 1
    BY <1>8 DEF Patience
  <2>q. QED
    BY <1>1, <1>8, <2>1, FirstFileTurned
<1>9. ASSUME FilesDone PROVE Patience'
  <2>1. /\ stage = "file" /\ i > files /\ stage' = "agent" /\ Kept
        /\ fate' = fate
        /\ explicit => keyAt = 1 /\ files >= 1
    BY <1>9 DEF FilesDone, Patience, supplied
  <2>2. explicit => i > 1
    BY <1>0, <2>1 DEF TypeOK
  <2>q. QED
    BY <1>1, <2>1, <2>2, FirstFileTurned DEF Early
<1>10. ASSUME NoAgent \/ AgentEmpty \/ IdentitiesDone \/ \E n \in 1..MaxIds : AgentLists(n)
       PROVE  Patience'
  <2>1. /\ stage \in {"agent", "identity"} /\ stage' \in {"done", "identity"}
        /\ Kept /\ fate' = fate
    BY <1>10 DEF NoAgent, AgentEmpty, AgentLists, IdentitiesDone, supplied
  <2>q. QED
    BY <1>8, <2>1 DEF Early
<1>11. ASSUME NEW f, NEW entry, NEW s \in {"identity", "done"}, NEW j,
              stage = "identity", i <= ids, Turn(Identity(i), f, entry, s, j)
       PROVE  Patience'
  <2>1. Identity(i) \in Rungs /\ File(1) \in Rungs /\ File(1) # Identity(i)
    BY <1>0, <1>11, RungsDistinct, BoundsAssumption DEF TypeOK
  <2>2. Kept /\ stage' \in {"done", "identity"} /\ fate'[File(1)] = fate[File(1)]
    BY <1>0, <1>11, <2>1, TurnedFate
  <2>q. QED
    BY <1>8, <1>11, <2>2 DEF Early
<1>12. ASSUME \/ IdentityKeyless \/ IdentityUnsigned
              \/ \E answer \in Offered : IdentityTurn(answer)
       PROVE  Patience'
  BY <1>11, <1>12 DEF IdentityKeyless, IdentityUnsigned, IdentityTurn
<1>13. CASE UNCHANGED vars
  BY <1>13 DEF vars, supplied, serverVars, Patience, SuppliedOffered
<1>q. QED
  BY <1>2, <1>3, <1>4, <1>5, <1>7, <1>9, <1>10, <1>12, <1>13 DEF Next

(* A turn mentions a file, or the password, unless it worked or the file   *)
(* is missing; and never takes an entry back.                              *)
LEMMA MentionedStep ==
    ASSUME LadderInv, LadderInv', Mentioned, [Next]_vars
    PROVE  Mentioned'
<1>0. /\ TypeOK /\ Progress /\ TypeOK' /\ Progress'
      /\ "untried" \notin Told /\ "accepted" \notin Told /\ "missing" \notin Told
  BY DEF LadderInv, Told, Passed, Offered
<1> DEFINE FilesTold == \A k \in 1..(MaxConfig + 1) :
                            fate[File(k)] \in Told => File(k) \in tried
           AgentTold == stage = "done" /\ used = NoRung =>
               Agent \in tried \/ \A k \in 1..MaxIds : fate[Identity(k)] = "untried"
<1>1. ASSUME password' = password, fate' = fate, tried \subseteq tried', AgentTold'
      PROVE  Mentioned'
  BY <1>1 DEF Mentioned
<1>2. ASSUME \/ NoUsername \/ NoPassword \/ FilesDone
             \/ \E n \in 0..MaxConfig : Resolve(n)
             \/ \E n \in 1..MaxIds : AgentLists(n)
      PROVE  Mentioned'
  <2>1. /\ stage' # "done" /\ UNCHANGED <<password, fate, tried>>
    BY <1>2 DEF NoUsername, NoPassword, FilesDone, Resolve, AgentLists, supplied
  <2>q. QED
    BY <1>1, <2>1
<1>3. ASSUME AgentEmpty \/ IdentitiesDone PROVE Mentioned'
  <2>1. /\ Agent \in tried' /\ UNCHANGED <<password, fate>>
        /\ tried \subseteq tried'
    BY <1>3 DEF AgentEmpty, IdentitiesDone, supplied
  <2>q. QED
    BY <1>1, <2>1
<1>4. ASSUME NoAgent PROVE Mentioned'
  <2>1. stage = "agent" /\ UNCHANGED <<password, fate, tried>>
    BY <1>4 DEF NoAgent, supplied
  <2>2. PICK m \in Nat, n \in Nat : Climbed(m, n)
    BY <1>0, <2>1 DEF Progress, Early
  <2>3. n = 0
    BY <1>0, <2>1, <2>2 DEF Climbed, Progress
  <2>4. \A k \in 1..MaxIds : fate[Identity(k)] = "untried"
    BY <2>2, <2>3 DEF Climbed, IdentitiesTurn
  <2>q. QED
    BY <1>1, <2>1, <2>4
<1>5. ASSUME NEW answer \in Offered, PasswordTurn(answer) PROVE Mentioned'
  <2>1. Turn(Password, answer, Entry(answer, Password), "file", 1)
    BY <1>5 DEF PasswordTurn
  <2>2. /\ fate'[Password] = answer
        /\ \A k \in 1..(MaxConfig + 1) : fate'[File(k)] = fate[File(k)]
        /\ tried \subseteq tried' /\ Entry(answer, Password) \subseteq tried'
        /\ stage' # "done" \/ used' # NoRung
    BY <1>0, <2>1, TurnedFate, RungsDistinct
  <2>3. answer \in Told => Password \in tried'
    BY <1>0, <2>2 DEF Entry
  <2>q. QED
    BY <2>2, <2>3 DEF Mentioned
<1>6. ASSUME NEW f, NEW entry, f \in Told => File(i) \in entry,
             stage = "file", i <= files, Turn(File(i), f, entry, "file", i + 1)
      PROVE  Mentioned'
  <2>1. i \in 1..(MaxConfig + 1) /\ File(i) \in Rungs
    BY <1>0, <1>6, RungsDistinct, BoundsAssumption DEF TypeOK
  <2>2. /\ fate'[File(i)] = f /\ \A q \in Rungs \ {File(i)} : fate'[q] = fate[q]
        /\ tried \subseteq tried' /\ entry \subseteq tried' /\ password' = password
        /\ stage' # "done" \/ used' # NoRung
    BY <1>0, <1>6, <2>1, TurnedFate, RungsDistinct
  <2>3. ASSUME NEW k \in 1..(MaxConfig + 1), fate'[File(k)] \in Told
        PROVE  File(k) \in tried'
    BY <1>6, <2>1, <2>2, <2>3, RungsDistinct DEF Mentioned
  <2>4. password' /\ fate'[Password] \in Told => Password \in tried'
    BY <2>2, RungsDistinct DEF Mentioned
  <2>q. QED
    BY <2>2, <2>3, <2>4 DEF Mentioned
<1>7. ASSUME FileMissing \/ FileUnusable \/ \E answer \in Offered : FileTurn(answer)
      PROVE  Mentioned'
  <2>1. CASE FileMissing
    BY <1>0, <1>6, <2>1 DEF FileMissing
  <2>2. CASE FileUnusable
    BY <1>6, <2>2 DEF FileUnusable
  <2>3. ASSUME NEW answer \in Offered, FileTurn(answer) PROVE Mentioned'
    BY <1>0, <1>6, <2>3 DEF FileTurn, Entry
  <2>q. QED
    BY <1>7, <2>1, <2>2, <2>3
<1>8. ASSUME NEW f, NEW entry, NEW s \in {"identity", "done"}, NEW j,
             s = "done" /\ f # "accepted" => Agent \in entry,
             stage = "identity", i <= ids, Turn(Identity(i), f, entry, s, j)
      PROVE  Mentioned'
  <2>1. Identity(i) \in Rungs
    BY <1>0, <1>8, RungsDistinct, BoundsAssumption DEF TypeOK
  <2>2. /\ \A k \in 1..(MaxConfig + 1) : fate'[File(k)] = fate[File(k)]
        /\ fate'[Password] = fate[Password] /\ password' = password
        /\ tried \subseteq tried' /\ entry \subseteq tried'
        /\ f = "accepted" => used' = Identity(i)
        /\ f # "accepted" => stage' = s
    BY <1>0, <1>8, <2>1, TurnedFate, RungsDistinct
  <2>3. stage' = "done" /\ used' = NoRung => Agent \in tried'
    BY <1>8, <2>1, <2>2, RungsDistinct
  <2>q. QED
    BY <2>2, <2>3 DEF Mentioned
<1>9. ASSUME \/ IdentityKeyless \/ IdentityUnsigned
             \/ \E answer \in Offered : IdentityTurn(answer)
      PROVE  Mentioned'
  BY <1>8, <1>9 DEF IdentityKeyless, IdentityUnsigned, IdentityTurn
<1>10. CASE UNCHANGED vars
  BY <1>10 DEF vars, supplied, Mentioned
<1>q. QED
  BY <1>2, <1>3, <1>4, <1>5, <1>7, <1>9, <1>10 DEF Next

(* Every step keeps all of it.                                             *)
LEMMA FullStep == FullInv /\ [Next]_vars => FullInv'
BY LadderStep, PatienceStep, MentionedStep DEF FullInv

(* However many keys the config names, what the caller supplied is offered *)
(* before the server has lost its patience.                                *)
THEOREM SuppliedIsOffered == Spec => []SuppliedOffered
<1>1. FullInv => SuppliedOffered
  BY DEF FullInv, Patience
<1>q. QED
  BY FullInit, FullStep, <1>1, PTL DEF Spec

(* And the error of a failed login leaves out nothing that was offered or  *)
(* could not be used.                                                      *)
THEOREM ErrorIsComplete == Spec => []ErrorAccounts
<1>1. FullInv => ErrorAccounts
  <2> SUFFICES ASSUME FullInv, stage = "done", used = NoRung,
                      NEW r \in Rungs, fate[r] \in Passed \ {"missing"}
               PROVE  (IF r[1] = "agent" THEN Agent ELSE r) \in tried
    BY DEF ErrorAccounts
  <2>1. TypeOK /\ Progress /\ Mentioned
    BY DEF FullInv, LadderInv
  <2>2. fate[r] \in Told /\ fate[r] # "untried"
    BY <2>1, RungsDistinct DEF Progress, ReportsWhatWorked, Told, Passed, Offered
  <2>3. PICK m \in Nat, n \in Nat : Climbed(m, n)
    BY <2>1 DEF Progress, Early
  <2>4. /\ Password[1] # "agent"
        /\ \A k : File(k)[1] # "agent" /\ Identity(k)[1] = "agent"
    BY DEF Password, File, Identity
  <2>5. CASE r = Password
    BY <2>1, <2>2, <2>3, <2>4, <2>5 DEF Climbed, Mentioned
  <2>6. CASE \E k \in 1..(MaxConfig + 1) : r = File(k)
    BY <2>1, <2>2, <2>4, <2>6 DEF Mentioned
  <2>7. CASE \E k \in 1..MaxIds : r = Identity(k)
    BY <2>1, <2>2, <2>4, <2>7 DEF Mentioned
  <2>q. QED
    BY <2>5, <2>6, <2>7, RungsDistinct
<1>q. QED
  BY FullInit, FullStep, <1>1, PTL DEF Spec

=============================================================================
