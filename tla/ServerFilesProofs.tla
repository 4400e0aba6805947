-------------------------- MODULE ServerFilesProofs --------------------------
(***************************************************************************)
(* However many calls, connections and sites there are: the cron table     *)
(* loses no entry but for the reasons EntriesKept gives, what an exit      *)
(* status reports done is done, and a configuration that is left broken is *)
(* accounted for.                                                          *)
(***************************************************************************)
EXTENDS ServerFiles, TLAPS

Results == {"waiting", "ok", "failed", "timeout"}

(* What a call is doing is part of its job, and its caller waits for it    *)
(* unless it is over, has timed out or has lost its channel.               *)
StepFits ==
    \A c \in Call :
        /\ step[c] = "unborn" <=> job[c] = NoJob
        /\ step[c] \in {"create", "fill", "cp", "copying", "rm"}
               => job[c].kind = "write"
        /\ step[c] \in {"link", "unlink", "test", "reload"}
               => job[c].kind \in {"enable", "disable"}
        /\ step[c] = "restart" => job[c].kind = "restart"
        /\ step[c] \in {"read", "install"} => job[c].kind \in CronKinds
        /\ told[c] \in {"ok", "failed"} => step[c] = "over" \/ c \in lost
        /\ c \in lost => told[c] = "ok"
        /\ step[c] = "unborn" => told[c] = "waiting" /\ met[c] = {}

(* Calls that are at work know of each other, and of no unborn one.        *)
MeetingsKnown ==
    \A c, d \in Call :
        /\ AtWork(c) /\ AtWork(d) /\ c # d => d \in met[c]
        /\ d \in met[c] => Begun(d)

(* Until another edit comes between, a pipeline holds the edited table.    *)
TableFresh ==
    \A c \in Call :
        step[c] = "install" /\ told[c] # "timeout" /\ c \notin lost /\ Undisturbed(c)
            => table[c] = Edit(c, cron)

FilesInv == TypeOK /\ StepFits /\ MeetingsKnown /\ TableFresh /\ EntriesKept

-----------------------------------------------------------------------------
(* The jobs there are.                                                     *)
LEMMA JobFields ==
    /\ NoJob \notin Jobs
    /\ \A j \in Jobs :
           /\ j.kind \in NginxKinds \cup CronKinds
           /\ j.kind \in {"write", "enable", "disable"} => j.site \in Site
           /\ j.good \in BOOLEAN /\ j.conn \in Conn /\ j.drops \subseteq Entries
BY DEF Jobs, NoJob, NginxKinds, CronKinds, Entries

(* The texts there are.                                                    *)
LEMMA TextsTyped ==
    /\ Missing \in Contents /\ Partial \in Contents
    /\ \A e \in Entries, g \in BOOLEAN : Text(e, g) \in Contents
    /\ Text(Old, TRUE) \in Contents
<1>1. \A e \in Entries, g \in BOOLEAN : Text(e, g) \in Contents
  BY DEF Contents, Texts, Text
<1>2. Old \in Entries /\ Missing \in Contents
  BY DEF Entries, Contents
<1>q. QED
  BY <1>1, <1>2 DEF Partial

(* The initial states satisfy the invariant.                               *)
LEMMA FilesInit == Init => FilesInv
<1> SUFFICES ASSUME Init PROVE FilesInv
  OBVIOUS
<1>1. TypeOK
  <2>1. /\ available \in [Site -> Contents]
        /\ enabled \subseteq Site
        /\ Missing \in Contents
    BY TextsTyped DEF Init
  <2>2. running \in [Site -> Contents]
    BY <2>1 DEF Init, Linked
  <2>3. handle \in [Call -> BOOLEAN] /\ up \in BOOLEAN
    BY DEF Init
  <2>q. QED
    BY <2>1, <2>2, <2>3 DEF Init, TypeOK, Steps, Entries
<1>2. StepFits /\ MeetingsKnown /\ TableFresh
  BY JobFields DEF Init, StepFits, MeetingsKnown, TableFresh, AtWork, Begun
<1>3. EntriesKept
  BY NamesAssumption DEF Init, EntriesKept, Entries
<1>q. QED
  BY <1>1, <1>2, <1>3 DEF FilesInv

-----------------------------------------------------------------------------
(* A step of a call that has begun: the call goes on to x, its caller is   *)
(* told t.                                                                 *)
Move(c, x, t) ==
    /\ AtWork(c)
    /\ step' = [step EXCEPT ![c] = x] /\ told' = [told EXCEPT ![c] = t]
    /\ UNCHANGED <<job, met>>
    /\ \/ lost' = lost
       \/ lost' = lost \cup {c} /\ told[c] = "waiting" /\ t = "ok"
    /\ x \in Steps \ {"unborn"} /\ t \in Results
    /\ told[c] # "waiting" => t = told[c]
    /\ t \in {"ok", "failed"} => x = "over" \/ c \in lost'
    /\ x # step[c] /\ x # "over" =>
           \/ {x, step[c]} \subseteq {"create", "fill", "cp", "copying", "rm"}
           \/ {x, step[c]} \subseteq {"link", "unlink", "test", "reload"}
           \/ {x, step[c]} \subseteq {"read", "install"}

(* Going on to the next part is such a step.                               *)
LEMMA GotoMoves ==
    ASSUME TypeOK, StepFits, NEW c \in Call, AtWork(c), NEW x \in Steps, Goto(c, x),
           \/ {x, step[c]} \subseteq {"create", "fill", "cp", "copying", "rm"}
           \/ {x, step[c]} \subseteq {"link", "unlink", "test", "reload"}
           \/ {x, step[c]} \subseteq {"read", "install"}
    PROVE  Move(c, x, told[c])
BY DEF TypeOK, StepFits, Goto, Move, AtWork, Results, Steps

(* The end of a call is one.                                               *)
LEMMA EndMoves ==
    ASSUME TypeOK, StepFits, NEW c \in Call, AtWork(c),
           NEW r \in Results \ {"waiting"}, End(c, r)
    PROVE  /\ Move(c, "over", IF told[c] = "waiting" THEN r ELSE told[c])
           /\ (IF told[c] = "waiting" THEN r ELSE told[c]) \in Results
BY DEF TypeOK, StepFits, End, Move, AtWork, Results, Steps

(* What such a step does to the invariants of calls.                       *)
LEMMA MovesKeep ==
    ASSUME FilesInv, NEW c \in Call, NEW x, NEW t, Move(c, x, t)
    PROVE  /\ step' \in [Call -> Steps] /\ told' \in [Call -> Results]
           /\ StepFits' /\ MeetingsKnown'
           /\ \A d \in Call : Undisturbed(d)' <=> Undisturbed(d)
           /\ lost' \subseteq Call /\ lost \subseteq lost'
<1> USE DEF FilesInv, Move
<1>1. step' \in [Call -> Steps] /\ told' \in [Call -> Results]
  BY DEF TypeOK, Results
<1>2. StepFits'
  BY <1>1 DEF StepFits, TypeOK, AtWork
<1>3. \A d \in Call : (AtWork(d)' => AtWork(d)) /\ (Begun(d)' <=> Begun(d))
  BY DEF AtWork, Begun, TypeOK
<1>4. MeetingsKnown'
  BY <1>3 DEF MeetingsKnown
<1>6. lost' \subseteq Call /\ lost \subseteq lost'
  BY DEF TypeOK
<1>7. \A d \in Call : Undisturbed(d)' <=> Undisturbed(d)
  BY DEF Undisturbed, Clash
<1>q. QED
  BY <1>1, <1>2, <1>4, <1>6, <1>7

(* And to the cron table's, when it is not about the cron table.           *)
LEMMA MovesKeepCron ==
    ASSUME FilesInv, NEW c \in Call, NEW x, NEW t, Move(c, x, t),
           UNCHANGED <<table, cron>>, x = "install" => x = step[c],
           t = "ok" /\ told[c] # "ok" => job[c].kind \notin CronKinds \/ c \in lost'
    PROVE  TableFresh' /\ EntriesKept'
<1> USE DEF FilesInv, Move
<1>1. \A d \in Call : /\ Undisturbed(d)' <=> Undisturbed(d)
                      /\ told[d] = "timeout" => told'[d] = "timeout"
                      /\ step'[d] = "install" => step[d] = "install"
                      /\ d \in lost => d \in lost'
  BY MovesKeep DEF TypeOK
<1>2. TableFresh'
  BY <1>1 DEF TableFresh, Edit
<1>3. ASSUME NEW e \in Entries, e = Old \/ (told'[e] = "ok" /\ job[e].kind = "add")
      PROVE  \/ e = Old \/ (told[e] = "ok" /\ job[e].kind = "add")
             \/ e \in Call /\ e \in lost' /\ job[e].kind \in CronKinds
  BY <1>3 DEF TypeOK, Entries, CronKinds
<1>4. EntriesKept'
  BY <1>1, <1>3 DEF EntriesKept
<1>q. QED
  BY <1>2, <1>4

-----------------------------------------------------------------------------
(* The types of the files and of what a call holds of them.                *)
FilesTyped ==
    /\ carry \in [Call -> Contents] /\ table \in [Call -> SUBSET Entries]
    /\ handle \in [Call -> BOOLEAN]
    /\ tmp \in [Site -> Contents] /\ available \in [Site -> Contents]
    /\ running \in [Site -> Contents]
    /\ enabled \subseteq Site /\ up \in BOOLEAN
    /\ cron \subseteq Entries

(* Every step keeps them.                                                  *)
LEMMA FilesKeepType ==
    ASSUME FilesInv, NEW c \in Call,
           \/ \E j \in Jobs : Start(c, j)
           \/ Fails(c) \/ Timeout(c) \/ ChannelEnds(c)
           \/ Killed(c) \/ ReaderKilled(c)
           \/ Create(c) \/ Fill(c)
           \/ CopyBegins(c) \/ CopyEnds(c) \/ CopyFails(c) \/ Remove(c)
           \/ Link(c) \/ Unlink(c) \/ TestFails(c) \/ TestPasses(c)
           \/ Reload(c) \/ Restart(c)
           \/ ReadTable(c) \/ Install(c) \/ InstallFails(c)
    PROVE  FilesTyped'
<1>0. FilesTyped /\ StepFits
  BY DEF FilesInv, TypeOK, FilesTyped
<1>s. step[c] \in {"create", "fill", "cp", "copying", "rm", "link", "unlink"}
          => job[c].site \in Site
  BY <1>0, JobFields DEF FilesInv, TypeOK, StepFits, NoJob
<1>1. ASSUME NEW j \in Jobs, Start(c, j) PROVE FilesTyped'
  BY <1>0, <1>1 DEF Start, Begin, FilesTyped, ownVars, webVars
<1>2. CASE Fails(c) \/ Timeout(c) \/ ChannelEnds(c) \/ Killed(c) \/ CopyFails(c)
           \/ TestFails(c) \/ TestPasses(c) \/ InstallFails(c)
  BY <1>0, <1>2 DEF Fails, Timeout, ChannelEnds, Killed, CopyFails, TestFails,
                    TestPasses, InstallFails, FilesTyped, ownVars, webVars
<1>3. CASE ReaderKilled(c)
  BY <1>0, <1>3 DEF ReaderKilled, FilesTyped, webVars
<1>4. CASE Create(c)
  <2>1. tmp' \in [Site -> Contents]
    BY <1>0, <1>4, TextsTyped DEF Create, FilesTyped
  <2>2. handle' \in [Call -> BOOLEAN]
    BY <1>0, <1>4, ZenonT(30) DEF Create, FilesTyped
  <2>q. QED
    BY <1>0, <1>4, <2>1, <2>2 DEF Create, FilesTyped
<1>5. CASE Fill(c)
  <2>j. job[c] \in Jobs \/ job[c] = NoJob
    BY DEF FilesInv, TypeOK
  <2>n. NoJob.good = TRUE
    BY DEF NoJob
  <2>g. job[c].good \in BOOLEAN
    BY <2>j, <2>n, JobFields, ZenonT(30)
  <2>1. Text(c, job[c].good) \in Contents
    BY <2>g, TextsTyped DEF Entries
  <2>2. tmp' \in [Site -> Contents]
    BY <1>0, <1>5, <2>1, TextsTyped DEF Fill, FilesTyped
  <2>q. QED
    BY <1>0, <1>5, <2>2 DEF Fill, FilesTyped, ownVars
<1>6. CASE CopyBegins(c)
  BY <1>0, <1>s, <1>6, TextsTyped DEF CopyBegins, FilesTyped
<1>7. CASE CopyEnds(c)
  BY <1>0, <1>7 DEF CopyEnds, FilesTyped, ownVars
<1>8. CASE Remove(c)
  <2>1. tmp' \in [Site -> Contents]
    BY <1>0, <1>8, TextsTyped DEF Remove, FilesTyped
  <2>2. handle' \in [Call -> BOOLEAN]
    BY <1>0, <1>8, ZenonT(30) DEF Remove, FilesTyped
  <2>q. QED
    BY <1>0, <1>8, <2>1, <2>2 DEF Remove, FilesTyped
<1>9. CASE Link(c) \/ Unlink(c)
  BY <1>0, <1>s, <1>9 DEF Link, Unlink, FilesTyped, ownVars
<1>10. Linked \in [Site -> Contents] /\ [s \in Site |-> Missing] \in [Site -> Contents]
  BY <1>0, TextsTyped DEF Linked, FilesTyped
<1>11. CASE Reload(c)
  BY <1>0, <1>10, <1>11 DEF Reload, FilesTyped, ownVars
<1>12. CASE Restart(c)
  <2>1. running' \in [Site -> Contents]
    BY <1>0, <1>10, <1>12 DEF Restart, FilesTyped
  <2>2. Valid \in BOOLEAN
    BY ZenonT(30) DEF Valid
  <2>3. up' \in BOOLEAN
    BY <1>12, <2>2, ZenonT(30) DEF Restart
  <2>q. QED
    BY <1>0, <1>12, <2>1, <2>3 DEF Restart, FilesTyped, ownVars
<1>13. CASE ReadTable(c)
  <2>1. Edit(c, cron) \subseteq Entries
    BY <1>0 DEF Edit, FilesTyped, Entries
  <2>q. QED
    BY <1>0, <1>13, <2>1 DEF ReadTable, FilesTyped, webVars
<1>14. CASE Install(c)
  BY <1>0, <1>14 DEF Install, FilesTyped, ownVars, webVars
<1>q. QED
  BY <1>1, <1>2, <1>3, <1>4, <1>5, <1>6, <1>7, <1>8, <1>9, <1>11, <1>12, <1>13, <1>14

-----------------------------------------------------------------------------
(* All steps but the ones of a new call and of a cron pipeline are moves   *)
(* that leave the cron table alone.                                        *)
LEMMA QuietSteps ==
    ASSUME FilesInv, NEW c \in Call,
           \/ Fails(c) \/ Timeout(c) \/ ChannelEnds(c) \/ Killed(c)
           \/ Create(c) \/ Fill(c)
           \/ CopyBegins(c) \/ CopyEnds(c) \/ CopyFails(c) \/ Remove(c)
           \/ Link(c) \/ Unlink(c) \/ TestFails(c) \/ TestPasses(c)
           \/ Reload(c) \/ Restart(c) \/ InstallFails(c)
    PROVE  \E x, t : /\ Move(c, x, t)
                     /\ UNCHANGED <<table, cron>>
                     /\ x = "install" => x = step[c]
                     /\ t = "ok" /\ told[c] # "ok" =>
                            job[c].kind \notin CronKinds \/ c \in lost'
<1>0. TypeOK /\ StepFits
  BY DEF FilesInv
<1>1. CASE Fails(c) \/ Killed(c) \/ CopyFails(c) \/ TestFails(c) \/ InstallFails(c)
  <2>1. AtWork(c) /\ UNCHANGED <<table, cron>> /\ End(c, "failed")
    BY <1>1 DEF Fails, Killed, CopyFails, TestFails, InstallFails, Abandoned, AtWork,
                ownVars
  <2>2. Move(c, "over", IF told[c] = "waiting" THEN "failed" ELSE told[c])
    BY <1>0, <2>1, EndMoves DEF Results
  <2>q. QED
    BY <2>1, <2>2
<1>2. CASE Timeout(c)
  <2>1. Move(c, step[c], "timeout")
    BY <1>0, <1>2 DEF Timeout, Move, TypeOK, AtWork, Results
  <2>q. QED
    BY <1>2, <2>1 DEF Timeout, ownVars
<1>5. CASE ChannelEnds(c)
  <2>1. Move(c, step[c], "ok")
    BY <1>0, <1>5 DEF ChannelEnds, Move, TypeOK, AtWork, Results
  <2>2. c \in lost'
    BY <1>5 DEF ChannelEnds
  <2>q. QED
    BY <1>5, <2>1, <2>2 DEF ChannelEnds, ownVars
<1>3. CASE Create(c) \/ Fill(c) \/ CopyBegins(c) \/ CopyEnds(c)
           \/ Link(c) \/ Unlink(c) \/ TestPasses(c)
  <2>1. PICK x \in Steps :
            /\ Goto(c, x) /\ AtWork(c) /\ x # "install"
            /\ \/ {x, step[c]} \subseteq {"create", "fill", "cp", "copying", "rm"}
               \/ {x, step[c]} \subseteq {"link", "unlink", "test", "reload"}
    BY <1>3 DEF Create, Fill, CopyBegins, CopyEnds, Link, Unlink, TestPasses,
                AtWork, Steps
  <2>2. Move(c, x, told[c])
    BY <1>0, <2>1, GotoMoves
  <2>3. UNCHANGED <<table, cron>>
    BY <1>3 DEF Create, Fill, CopyBegins, CopyEnds, Link, Unlink, TestPasses,
                ownVars
  <2>q. QED
    BY <2>1, <2>2, <2>3
<1>4. CASE Remove(c) \/ Reload(c) \/ Restart(c)
  <2>1. /\ AtWork(c) /\ UNCHANGED <<table, cron>>
        /\ step[c] \in {"rm", "reload", "restart"}
        /\ End(c, "ok") \/ End(c, "failed")
    BY <1>4 DEF Remove, Reload, Restart, AtWork, ownVars
  <2>2. job[c].kind \notin CronKinds
    BY <1>0, <2>1 DEF StepFits, CronKinds
  <2>3. PICK r \in {"ok", "failed"} :
            Move(c, "over", IF told[c] = "waiting" THEN r ELSE told[c])
    BY <1>0, <2>1, EndMoves DEF Results
  <2>q. QED
    BY <2>1, <2>2, <2>3
<1>q. QED
  BY <1>1, <1>2, <1>3, <1>4, <1>5

(* The reading half of a pipeline, whole or cut short.                     *)
LEMMA ReadingKeeps ==
    ASSUME FilesInv, NEW c \in Call, ReadTable(c) \/ ReaderKilled(c)
    PROVE  /\ Move(c, "install", told[c])
           /\ TableFresh' /\ EntriesKept'
<1>0. TypeOK /\ StepFits
  BY DEF FilesInv
<1>1. AtWork(c) /\ Goto(c, "install") /\ step[c] = "read" /\ cron' = cron
  BY DEF ReadTable, ReaderKilled, AtWork
<1>2. Move(c, "install", told[c])
  BY <1>0, <1>1, GotoMoves DEF Steps
<1>3. \A d \in Call : /\ Undisturbed(d)' <=> Undisturbed(d)
                      /\ told'[d] = told[d] /\ job'[d] = job[d]
                      /\ d # c => step'[d] = step[d] /\ table'[d] = table[d]
  <2>1. \A d \in Call : Undisturbed(d)' <=> Undisturbed(d)
    BY <1>2, MovesKeep
  <2>2. \A d \in Call : told'[d] = told[d] /\ job'[d] = job[d]
    BY <1>1 DEF Goto
  <2>3. \A d \in Call : d # c => step'[d] = step[d] /\ table'[d] = table[d]
    BY <1>0, <1>1 DEF Goto, TypeOK, ReadTable, ReaderKilled
  <2>q. QED
    BY <2>1, <2>2, <2>3
<1>4. TableFresh'
  <2>1. told[c] # "timeout" /\ c \notin lost => table'[c] = Edit(c, cron)
    BY <1>0 DEF ReadTable, ReaderKilled, Abandoned, TypeOK, StepFits
  <2>2. Edit(c, cron)' = Edit(c, cron)
    BY <1>1, <1>3 DEF Edit
  <2>3. ASSUME NEW d \in Call,
               (step[d] = "install" /\ told[d] # "timeout" /\ d \notin lost
                                    /\ Undisturbed(d))'
        PROVE  table'[d] = Edit(d, cron)'
    <3>0. told' = told /\ lost' = lost /\ job' = job /\ Undisturbed(d)
      BY <1>1, <1>3, <2>3 DEF Goto
    <3>1. CASE d = c
      BY <2>1, <2>2, <2>3, <3>0, <3>1
    <3>2. CASE d # c
      <4>1. step'[d] = step[d] /\ table'[d] = table[d]
        BY <1>0, <1>1, <3>2 DEF Goto, TypeOK, ReadTable, ReaderKilled
      <4>2. table[d] = Edit(d, cron)
        BY <2>3, <3>0, <4>1 DEF FilesInv, TableFresh
      <4>3. Edit(d, cron)' = Edit(d, cron)
        BY <1>1, <3>0 DEF Edit
      <4>q. QED
        BY <4>1, <4>2, <4>3
    <3>q. QED
      BY <3>1, <3>2
  <2>q. QED
    BY <2>3 DEF TableFresh
<1>5. EntriesKept'
  <2>1. told' = told /\ job' = job /\ cron' = cron /\ lost' = lost
    BY <1>1 DEF Goto
  <2>q. QED
    BY <1>3, <2>1 DEF FilesInv, EntriesKept
<1>q. QED
  BY <1>2, <1>4, <1>5

-----------------------------------------------------------------------------
(* The writing half: what it overwrites, it has read, unless another edit  *)
(* came between.                                                           *)
LEMMA InstallKeeps ==
    ASSUME FilesInv, NEW c \in Call, Install(c)
    PROVE  /\ \E t : Move(c, "over", t)
           /\ TableFresh' /\ EntriesKept'
<1> DEFINE t == IF told[c] = "waiting" THEN "ok" ELSE told[c]
<1>0. TypeOK /\ StepFits
  BY DEF FilesInv
<1>1. AtWork(c) /\ End(c, "ok") /\ step[c] = "install" /\ cron' = table[c]
      /\ table' = table /\ job' = job /\ lost' = lost
      /\ told' = [told EXCEPT ![c] = t]
  BY DEF Install, AtWork, ownVars, End
<1>2. Move(c, "over", t)
  BY <1>0, <1>1, EndMoves DEF Results
<1>3. \A d \in Call : Undisturbed(d)' <=> Undisturbed(d)
  BY <1>2, MovesKeep
<1>4. TableFresh'
  <2>1. ASSUME NEW d \in Call, step'[d] = "install", Undisturbed(d)
        PROVE  FALSE
    <3>1. d # c /\ step[d] = "install"
      BY <1>0, <1>1, <2>1 DEF End, TypeOK
    <3>2. c \in met[d]
      BY <1>1, <3>1 DEF FilesInv, MeetingsKnown, AtWork
    <3>3. job[c].kind \in CronKinds /\ job[d].kind \in CronKinds
      BY <1>0, <1>1, <3>1 DEF StepFits
    <3>q. QED
      BY <2>1, <3>2, <3>3 DEF Undisturbed, Clash
  <2>q. QED
    BY <1>3, <2>1 DEF TableFresh
<1>5. EntriesKept'
  <2>1. SUFFICES ASSUME NEW e \in Entries,
                        e = Old \/ (told'[e] = "ok" /\ job[e].kind = "add")
                 PROVE  \/ e \in table[c]
                        \/ \E d \in Call :
                               /\ job[d].kind \in CronKinds
                               /\ \/ e \in job[d].drops
                                  \/ ~Undisturbed(d)
                                  \/ told'[d] = "timeout" \/ d \in lost
    BY <1>1, <1>3 DEF EntriesKept
  <2>2. job[c].kind \in CronKinds
    BY <1>0, <1>1 DEF StepFits
  <2>3. told'[c] = t /\ (told[c] \in {"waiting", "timeout"} \/ c \in lost)
    BY <1>0, <1>1 DEF TypeOK, StepFits
  <2>4. CASE told[c] = "timeout" \/ c \in lost \/ ~Undisturbed(c)
    BY <2>2, <2>3, <2>4
  <2>5. CASE told[c] = "waiting" /\ c \notin lost /\ Undisturbed(c)
    <3>1. table[c] = Edit(c, cron)
      BY <1>1, <2>5 DEF FilesInv, TableFresh
    <3>2. CASE e = c
      <4>1. job[c].kind = "add"
        BY <2>1, <3>2, NamesAssumption
      <4>q. QED
        BY <3>1, <3>2, <4>1 DEF Edit
    <3>3. CASE e # c
      <4>1. e = Old \/ (told[e] = "ok" /\ job[e].kind = "add")
        BY <1>0, <1>1, <2>1, <3>3 DEF TypeOK, Entries
      <4>2. CASE e \in cron
        BY <2>2, <3>1, <4>2 DEF Edit, CronKinds
      <4>3. CASE e \notin cron
        <5>1. PICK d \in Call :
                  /\ job[d].kind \in CronKinds
                  /\ \/ e \in job[d].drops
                     \/ ~Undisturbed(d)
                     \/ told[d] = "timeout" \/ d \in lost
          BY <4>1, <4>3 DEF FilesInv, EntriesKept
        <5>2. told[d] = "timeout" => told'[d] = "timeout"
          BY <1>0, <1>1 DEF TypeOK
        <5>q. QED
          BY <5>1, <5>2
      <4>q. QED
        BY <4>2, <4>3
    <3>q. QED
      BY <3>2, <3>3
  <2>q. QED
    BY <2>3, <2>4, <2>5
<1>q. QED
  BY <1>2, <1>4, <1>5

(* A new call meets those at work.                                         *)
LEMMA StartKeeps ==
    ASSUME FilesInv, NEW c \in Call, NEW j \in Jobs, Start(c, j)
    PROVE  /\ job' \in [Call -> Jobs \cup {NoJob}]
           /\ step' \in [Call -> Steps] /\ told' \in [Call -> Results]
           /\ met' \in [Call -> SUBSET Call]
           /\ lost' = lost
           /\ StepFits' /\ MeetingsKnown' /\ TableFresh' /\ EntriesKept'
<1>0. TypeOK /\ StepFits /\ MeetingsKnown
  BY DEF FilesInv
<1>1. /\ step[c] = "unborn" /\ told[c] = "waiting" /\ met[c] = {}
      /\ job[c] = NoJob /\ told' = told /\ table' = table /\ cron' = cron
      /\ lost' = lost /\ c \notin lost
  BY <1>0 DEF Start, Begin, StepFits, ownVars
<1>2. FirstStep(j.kind) \in Steps \ {"unborn", "over", "install"}
  BY DEF FirstStep, Steps
<1>3. /\ job' \in [Call -> Jobs \cup {NoJob}]
      /\ step' \in [Call -> Steps] /\ told' \in [Call -> Results]
      /\ met' \in [Call -> SUBSET Call]
  BY <1>0, <1>1, <1>2 DEF Start, Begin, TypeOK, Results
<1>4. /\ job'[c] = j /\ step'[c] = FirstStep(j.kind)
      /\ met'[c] = {e \in Call : AtWork(e)}
      /\ \A d \in Call \ {c} :
             /\ job'[d] = job[d] /\ step'[d] = step[d]
             /\ met'[d] = IF AtWork(d) THEN met[d] \cup {c} ELSE met[d]
  BY <1>0 DEF Start, Begin, TypeOK
<1>5. \A d \in Call : \A e \in met[d] : d # c /\ e # c /\ e \in Call
  BY <1>0, <1>1 DEF MeetingsKnown, Begun, TypeOK
<1>6. StepFits'
  <2>1. StepFits!(c)'
    BY <1>1, <1>2, <1>4, JobFields DEF FirstStep, NginxKinds, CronKinds
  <2>2. ASSUME NEW d \in Call \ {c} PROVE StepFits!(d)'
    BY ZenonT(60), <1>0, <1>1, <1>4, <2>2 DEF StepFits, AtWork
  <2>q. QED
    BY <2>1, <2>2 DEF StepFits
<1>7. MeetingsKnown'
  <2>1. \A d \in Call : /\ Begun(d)' <=> Begun(d) \/ d = c
                        /\ AtWork(d)' <=> AtWork(d) \/ d = c
    BY <1>2, <1>4 DEF Begun, AtWork
  <2>2. \A d \in Call : AtWork(d) => Begun(d)
    BY DEF Begun, AtWork
  <2>3. ASSUME NEW d \in Call, NEW e \in Call, AtWork(d)', AtWork(e)', d # e
        PROVE  e \in met'[d]
    BY <1>0, <1>4, <2>1, <2>3 DEF MeetingsKnown
  <2>4. ASSUME NEW d \in Call, NEW e \in Call, e \in met'[d]
        PROVE  Begun(e)'
    BY <1>0, <1>4, <2>1, <2>2, <2>4 DEF MeetingsKnown
  <2>q. QED
    BY <2>3, <2>4 DEF MeetingsKnown
<1>10. \A d \in Call \ {c} : Undisturbed(d)' => Undisturbed(d)
  <2>1. ASSUME NEW d \in Call \ {c}, NEW e \in met[d], Clash(d, e)
        PROVE  e \in met'[d] /\ Clash(d, e)'
    <3>1. e \in Call \ {c} /\ job'[d] = job[d] /\ job'[e] = job[e]
      BY <1>4, <1>5
    <3>2. e \in met'[d]
      BY <1>4
    <3>q. QED
      BY <2>1, <3>1, <3>2 DEF Clash
  <2>q. QED
    BY <2>1 DEF Undisturbed
<1>11. TableFresh'
  <2>1. SUFFICES ASSUME NEW d \in Call, step'[d] = "install",
                        told[d] # "timeout", d \notin lost, Undisturbed(d)'
                 PROVE  table[d] = Edit(d, cron)'
    BY <1>1 DEF TableFresh
  <2>2. d # c
    BY <1>2, <1>4, <2>1
  <2>3. table[d] = Edit(d, cron)
    BY <1>4, <1>10, <2>1, <2>2 DEF FilesInv, TableFresh
  <2>q. QED
    BY <1>1, <1>4, <2>2, <2>3 DEF Edit
<1>12. EntriesKept'
  <2>1. SUFFICES ASSUME NEW e \in Entries,
                        e = Old \/ (told[e] = "ok" /\ job'[e].kind = "add"),
                        e \notin cron
                 PROVE  \E d \in Call :
                           /\ job'[d].kind \in CronKinds
                           /\ \/ e \in job'[d].drops
                              \/ ~Undisturbed(d)'
                              \/ told[d] = "timeout" \/ d \in lost
    BY <1>1 DEF EntriesKept
  <2>2. e = Old \/ (told[e] = "ok" /\ job[e].kind = "add")
    BY <1>1, <1>4, <2>1 DEF Entries
  <2>3. PICK d \in Call :
            /\ job[d].kind \in CronKinds
            /\ \/ e \in job[d].drops
               \/ ~Undisturbed(d)
               \/ told[d] = "timeout" \/ d \in lost
    BY <2>1, <2>2 DEF FilesInv, EntriesKept
  <2>4. d # c
    BY <1>1, <2>3 DEF NoJob, CronKinds
  <2>q. QED
    BY <1>4, <1>10, <2>3, <2>4
<1>q. QED
  BY <1>1, <1>3, <1>6, <1>7, <1>11, <1>12

-----------------------------------------------------------------------------
(* Every step keeps the invariant.                                         *)
LEMMA FilesStep == FilesInv /\ [Next]_vars => FilesInv'
<1> SUFFICES ASSUME FilesInv, [Next]_vars PROVE FilesInv'
  OBVIOUS
<1>1. CASE UNCHANGED vars
  <2> USE <1>1 DEF vars, callVars, ownVars, webVars, FilesInv
  <2>1. TypeOK' /\ StepFits'
    BY DEF TypeOK, StepFits
  <2>2. MeetingsKnown'
    BY DEF MeetingsKnown, AtWork, Begun
  <2>3. \A c \in Call : Undisturbed(c)' <=> Undisturbed(c)
    BY DEF Undisturbed, Clash
  <2>4. TableFresh' /\ EntriesKept'
    BY <2>3 DEF TableFresh, EntriesKept, Edit
  <2>q. QED
    BY <2>1, <2>2, <2>4
<1>2. ASSUME NEW c \in Call, NEW j \in Jobs, Start(c, j) PROVE FilesInv'
  BY <1>2, FilesKeepType, StartKeeps DEF FilesInv, TypeOK, FilesTyped, Results
<1>3. ASSUME NEW c \in Call,
             FilesTyped', TableFresh', EntriesKept', \E x, t : Move(c, x, t)
      PROVE  FilesInv'
  <2>1. PICK x, t : Move(c, x, t)
    BY <1>3
  <2>2. job' = job /\ met' = met
    BY <2>1 DEF Move
  <2>q. QED
    BY <1>3, <2>1, <2>2, MovesKeep DEF FilesInv, TypeOK, FilesTyped, Results
<1>4. ASSUME NEW c \in Call, ReaderKilled(c) \/ ReadTable(c) \/ Install(c)
      PROVE  FilesInv'
  <2>1. FilesTyped'
    BY <1>4, FilesKeepType
  <2>2. TableFresh' /\ EntriesKept' /\ \E x, t : Move(c, x, t)
    BY <1>4, ReadingKeeps, InstallKeeps
  <2>q. QED
    BY <1>3, <2>1, <2>2
<1>5. ASSUME NEW c \in Call,
             \/ Fails(c) \/ Timeout(c) \/ ChannelEnds(c) \/ Killed(c)
             \/ Create(c) \/ Fill(c)
             \/ CopyBegins(c) \/ CopyEnds(c) \/ CopyFails(c) \/ Remove(c)
             \/ Link(c) \/ Unlink(c) \/ TestFails(c) \/ TestPasses(c)
             \/ Reload(c) \/ Restart(c) \/ InstallFails(c)
      PROVE  FilesInv'
  <2>1. FilesTyped'
    BY <1>5, FilesKeepType
  <2>2. PICK x, t : /\ Move(c, x, t)
                    /\ UNCHANGED <<table, cron>>
                    /\ x = "install" => x = step[c]
                    /\ t = "ok" /\ told[c] # "ok" =>
                           job[c].kind \notin CronKinds \/ c \in lost'
    BY <1>5, QuietSteps
  <2>3. TableFresh' /\ EntriesKept'
    BY <2>2, MovesKeepCron
  <2>q. QED
    BY <1>3, <2>1, <2>2, <2>3
<1>q. QED
  BY <1>1, <1>2, <1>4, <1>5 DEF Next

(* The invariant holds throughout.                                         *)
LEMMA FilesAlways == Spec => []FilesInv
BY FilesInit, FilesStep, PTL DEF Spec

(* The variables keep their types.                                         *)
THEOREM FilesTypes == Spec => []TypeOK
<1>1. FilesInv => TypeOK
  BY DEF FilesInv
<1>q. QED
  BY <1>1, FilesAlways, PTL

(* vps_cron loses nobody's entry that contains none of the patterns to     *)
(* remove, unless two edits overlap or one of them times out or loses its  *)
(* channel.                                                                *)
THEOREM CronEntriesKept == Spec => []EntriesKept
<1>1. FilesInv => EntriesKept
  BY DEF FilesInv
<1>q. QED
  BY <1>1, FilesAlways, PTL

-----------------------------------------------------------------------------
(* What a call that nobody disturbs has done so far.                       *)
Carried(c) ==
    LET s == job[c].site IN
    /\ step[c] = "fill"    => handle[c] /\ tmp[s] = Partial
    /\ step[c] = "cp"      => tmp[s] = Text(c, job[c].good)
    /\ step[c] = "copying" => carry[c] = Text(c, job[c].good)
    /\ step[c] = "rm"      => available[s] = Text(c, job[c].good)
    /\ step[c] = "link"    => job[c].kind = "enable"
    /\ step[c] = "unlink"  => job[c].kind = "disable"
    /\ step[c] \in {"test", "reload"} => (s \in enabled <=> job[c].kind = "enable")

Intact == \A c \in Call : Undisturbed(c) => Carried(c)

(* The file of a site is in order.                                         *)
Sound(s) == available[s].good

(* What accounts for one that is not.                                      *)
Excuse(c) == Known(c) \/ c \in lost

(* Without that, a call is on its way to put it in order, or to be told.   *)
Mends(c, s) == job[c].site = s /\ step[c] \in {"copying", "test"}
BreakMended ==
    \/ \E c \in Call : Excuse(c)
    \/ \A s \in enabled : Sound(s) \/ \E c \in Call : Mends(c, s)

WorkInv == FilesInv /\ Intact /\ BreakMended

(* A step of a call that has begun.                                        *)
Acts(c) ==
    \/ Fails(c) \/ Timeout(c) \/ ChannelEnds(c) \/ Killed(c) \/ ReaderKilled(c)
    \/ Create(c) \/ Fill(c)
    \/ CopyBegins(c) \/ CopyEnds(c) \/ CopyFails(c) \/ Remove(c)
    \/ Link(c) \/ Unlink(c) \/ TestFails(c) \/ TestPasses(c)
    \/ Reload(c) \/ Restart(c)
    \/ ReadTable(c) \/ Install(c) \/ InstallFails(c)

(* It moves the call.                                                      *)
LEMMA ActsMove ==
    ASSUME FilesInv, NEW c \in Call, Acts(c)
    PROVE  \E x, t : Move(c, x, t)
<1>1. CASE ReaderKilled(c) \/ ReadTable(c)
  BY <1>1, ReadingKeeps
<1>2. CASE Install(c)
  BY <1>2, InstallKeeps
<1>3. CASE ~(ReaderKilled(c) \/ ReadTable(c) \/ Install(c))
  BY <1>3, QuietSteps DEF Acts
<1>q. QED
  BY <1>1, <1>2, <1>3

(* What a move leaves alone.                                               *)
LEMMA MoveFrame ==
    ASSUME FilesInv, NEW c \in Call, NEW x, NEW t, Move(c, x, t)
    PROVE  /\ job' = job /\ AtWork(c)
           /\ \A d \in Call : Undisturbed(d)' <=> Undisturbed(d)
           /\ \A d \in Call \ {c} : step'[d] = step[d] /\ told'[d] = told[d]
           /\ told[c] # "waiting" => told'[c] = told[c]
           /\ \A d \in Call : d \in lost => d \in lost'
BY MovesKeep DEF FilesInv, TypeOK, Move

(* Calls at work together that do not disturb each other are apart.        *)
LEMMA Apart ==
    ASSUME FilesInv, NEW c \in Call, NEW d \in Call, c # d,
           AtWork(c), AtWork(d), Undisturbed(d)
    PROVE  /\ job[c].kind = "write" /\ job[d].kind = "write"
                  => job[c].site # job[d].site
           /\ ~({job[c].kind, job[d].kind} \subseteq {"enable", "disable"})
<1>1. c \in met[d]
  BY DEF FilesInv, MeetingsKnown
<1>2. ~Clash(d, c)
  BY <1>1 DEF Undisturbed
<1>q. QED
  BY <1>2 DEF Clash, NginxKinds

(* A job at work has a site, if it is about one.                           *)
LEMMA SiteOfWork ==
    ASSUME FilesInv, NEW c \in Call,
           step[c] \in {"create", "fill", "cp", "copying", "rm", "link", "unlink",
                        "test", "reload"}
    PROVE  job[c].site \in Site
BY JobFields DEF FilesInv, TypeOK, StepFits, NoJob

(* A call's step leaves what another has done that it does not disturb.    *)
LEMMA OthersCarried ==
    ASSUME FilesInv, NEW c \in Call, Acts(c),
           NEW d \in Call \ {c}, Undisturbed(d), Carried(d)
    PROVE  Carried(d)'
<1>1. PICK x, t : Move(c, x, t)
  BY ActsMove
<1>2. job' = job /\ AtWork(c) /\ step'[d] = step[d]
  BY <1>1, MoveFrame
<1>3. TypeOK /\ StepFits
  BY DEF FilesInv
<1>4. step[d] \in {"fill", "cp", "copying", "rm"} =>
          /\ job[d].kind = "write"
          /\ job[c].kind = "write" => job[c].site # job[d].site
  BY <1>2, <1>3, Apart DEF StepFits, AtWork
<1>5. step[d] \in {"test", "reload"} => job[c].kind \notin {"enable", "disable"}
  BY <1>2, <1>3, Apart DEF StepFits, AtWork
<1>6. step[d] \in {"fill", "cp", "copying", "rm"} => job[d].site \in Site
  BY SiteOfWork
<1>7. carry'[d] = carry[d]
  BY <1>3 DEF Acts, TypeOK, Fails, Timeout, ChannelEnds, InstallFails, Killed, ReaderKilled,
              Create, Fill,
              CopyBegins, CopyEnds, CopyFails, Remove, Link, Unlink, TestFails,
              TestPasses, Reload, Restart, ReadTable, Install, ownVars
<1>8. step[d] \in {"fill", "cp"} =>
          tmp'[job[d].site] = tmp[job[d].site] /\ handle'[d] = handle[d]
  <2> SUFFICES ASSUME step[d] \in {"fill", "cp"}
               PROVE  tmp'[job[d].site] = tmp[job[d].site] /\ handle'[d] = handle[d]
    OBVIOUS
  <2>1. CASE Create(c) \/ Fill(c)
    <3>1. job[c].site # job[d].site /\ job[d].site \in Site
      BY <1>3, <1>4, <1>6, <2>1 DEF Create, Fill, StepFits
    <3>2. tmp \in [Site -> Contents] /\ handle \in [Call -> BOOLEAN]
      BY <1>3 DEF TypeOK
    <3>3. CASE Create(c)
      BY <3>1, <3>2, <3>3 DEF Create
    <3>4. CASE Fill(c)
      <4>1. PICK y : tmp' = [tmp EXCEPT ![job[c].site] = y] \/ tmp' = tmp
        BY <3>4 DEF Fill
      <4>q. QED
        BY <3>1, <3>2, <3>4, <4>1 DEF Fill, ownVars
    <3>q. QED
      BY <2>1, <3>3, <3>4
  <2>2. CASE Remove(c)
    <3>1. ~Writes(d, job[c].site) /\ job[d].site # job[c].site
      BY <1>3, <1>4, <2>2 DEF Remove, StepFits, Writes
    <3>2. handle'[d] = handle[d]
      BY <2>2, <3>1 DEF Remove
    <3>3. tmp'[job[d].site] = tmp[job[d].site]
      BY <1>3, <2>2, <3>1 DEF Remove, TypeOK
    <3>q. QED
      BY <3>2, <3>3
  <2>3. CASE ~(Create(c) \/ Fill(c) \/ Remove(c))
    BY <2>3 DEF Acts, Fails, Timeout, ChannelEnds, InstallFails, Killed, ReaderKilled,
                CopyBegins, CopyEnds, CopyFails, Link, Unlink, TestFails,
                TestPasses, Reload, Restart, ReadTable, Install, ownVars, webVars
  <2>q. QED
    BY <2>1, <2>2, <2>3
<1>9. step[d] = "rm" => available'[job[d].site] = available[job[d].site]
  <2> SUFFICES ASSUME step[d] = "rm"
               PROVE  available'[job[d].site] = available[job[d].site]
    OBVIOUS
  <2>1. CASE CopyBegins(c) \/ CopyEnds(c)
    <3>1. job[c].site # job[d].site /\ job[d].site \in Site
      BY <1>3, <1>4, <1>6, <2>1 DEF CopyBegins, CopyEnds, StepFits
    <3>2. available \in [Site -> Contents]
      BY <1>3 DEF TypeOK
    <3>3. PICK y : available' = [available EXCEPT ![job[c].site] = y]
      BY <2>1 DEF CopyBegins, CopyEnds
    <3>q. QED
      BY <3>1, <3>2, <3>3
  <2>2. CASE ~(CopyBegins(c) \/ CopyEnds(c))
    BY <2>2 DEF Acts, Fails, Timeout, ChannelEnds, InstallFails, Killed, ReaderKilled,
                Create, Fill,
                CopyFails, Remove, Link, Unlink, TestFails,
                TestPasses, Reload, Restart, ReadTable, Install, webVars
  <2>q. QED
    BY <2>1, <2>2
<1>10. step[d] \in {"test", "reload"} => enabled' = enabled
  <2> SUFFICES ASSUME step[d] \in {"test", "reload"} PROVE enabled' = enabled
    OBVIOUS
  <2>1. ~(Link(c) \/ Unlink(c))
    BY <1>3, <1>5 DEF Link, Unlink, StepFits
  <2>q. QED
    BY <2>1 DEF Acts, Fails, Timeout, ChannelEnds, InstallFails, Killed, ReaderKilled,
                Create, Fill,
                CopyBegins, CopyEnds, CopyFails, Remove, TestFails,
                TestPasses, Reload, Restart, ReadTable, Install, webVars
<1>q. QED
  BY <1>2, <1>7, <1>8, <1>9, <1>10 DEF Carried

(* Nor does a call's own step, if nobody disturbs it.                      *)
LEMMA OwnCarried ==
    ASSUME FilesInv, NEW c \in Call, Acts(c), Carried(c)
    PROVE  Carried(c)'
<1>1. PICK x, t : Move(c, x, t)
  BY ActsMove
<1>2. job' = job /\ TypeOK
  BY <1>1 DEF Move, FilesInv
<1>3. step[c] \in {"create", "fill", "cp", "copying", "rm", "link", "unlink",
                   "test", "reload"} => job[c].site \in Site
  BY SiteOfWork
<1>4. CASE Fails(c) \/ Killed(c) \/ CopyFails(c) \/ Remove(c) \/ TestFails(c)
           \/ Reload(c) \/ Restart(c) \/ Install(c) \/ InstallFails(c)
  <2>1. step'[c] = "over"
    BY <1>2, <1>4 DEF TypeOK, Fails, Killed, CopyFails, Remove, TestFails,
                      Reload, Restart, Install, InstallFails, End
  <2>q. QED
    BY <2>1 DEF Carried
<1>5. CASE ReaderKilled(c) \/ ReadTable(c)
  <2>1. step'[c] = "install"
    BY <1>2, <1>5 DEF TypeOK, ReaderKilled, ReadTable, Goto
  <2>q. QED
    BY <2>1 DEF Carried
<1>6. CASE Timeout(c) \/ ChannelEnds(c)
  BY <1>2, <1>6 DEF Timeout, ChannelEnds, Carried, ownVars, webVars
<1>7. CASE Create(c)
  <2>1. step'[c] = "fill" /\ job[c].site \in Site
    BY <1>2, <1>3, <1>7 DEF TypeOK, Create, Goto
  <2>2. tmp'[job[c].site] = Partial
    BY <1>2, <1>7, <2>1 DEF TypeOK, Create
  <2>3. handle' = [handle EXCEPT ![c] = TRUE] /\ handle \in [Call -> BOOLEAN]
    BY <1>2, <1>7 DEF Create, TypeOK
  <2>4. handle'[c]
    BY <2>3, ZenonT(30)
  <2>q. QED
    BY <1>2, <2>1, <2>2, <2>4 DEF Carried
<1>8. CASE Fill(c)
  <2>1. step[c] = "fill" /\ step'[c] = "cp" /\ job[c].site \in Site
    BY <1>2, <1>3, <1>8 DEF TypeOK, Fill, Goto
  <2>2. handle[c] /\ tmp[job[c].site] = Partial
    BY <2>1 DEF Carried
  <2>3. tmp' = [tmp EXCEPT ![job[c].site] = Text(c, job[c].good)]
    BY <1>8, <2>2 DEF Fill
  <2>4. tmp'[job[c].site] = Text(c, job[c].good)
    BY <1>2, <2>1, <2>3 DEF TypeOK
  <2>q. QED
    BY <1>2, <2>1, <2>4 DEF Carried
<1>9. CASE CopyBegins(c)
  <2>1. step[c] = "cp" /\ step'[c] = "copying" /\ carry'[c] = tmp[job[c].site]
    BY <1>2, <1>9 DEF TypeOK, CopyBegins, Goto
  <2>q. QED
    BY <1>2, <2>1 DEF Carried
<1>10. CASE CopyEnds(c)
  <2>1. /\ step[c] = "copying" /\ step'[c] = "rm" /\ job[c].site \in Site
        /\ available'[job[c].site] = carry[c]
    BY <1>2, <1>3, <1>10 DEF TypeOK, CopyEnds, Goto
  <2>q. QED
    BY <1>2, <2>1 DEF Carried
<1>11. CASE Link(c) \/ Unlink(c)
  <2>1. /\ step'[c] = "test"
        /\ \/ step[c] = "link" /\ job[c].site \in enabled'
           \/ step[c] = "unlink" /\ job[c].site \notin enabled'
    BY <1>2, <1>11 DEF TypeOK, Link, Unlink, Goto
  <2>q. QED
    BY <1>2, <2>1 DEF Carried
<1>12. CASE TestPasses(c)
  <2>1. step[c] = "test" /\ step'[c] = "reload" /\ enabled' = enabled
    BY <1>2, <1>12 DEF TypeOK, TestPasses, Goto, webVars
  <2>q. QED
    BY <1>2, <2>1 DEF Carried
<1>q. QED
  BY <1>4, <1>5, <1>6, <1>7, <1>8, <1>9, <1>10, <1>11, <1>12 DEF Acts

(* Nor a new call.                                                         *)
LEMMA StartFrame ==
    ASSUME FilesInv, NEW c \in Call, NEW j \in Jobs, Start(c, j)
    PROVE  /\ told' = told /\ told[c] = "waiting" /\ ~AtWork(c)
           /\ UNCHANGED <<lost, ownVars, webVars, cron>>
           /\ job[c] = NoJob /\ Undisturbed(c) /\ c \notin lost
           /\ job'[c] = j /\ step'[c] = FirstStep(j.kind)
           /\ \A d \in Call \ {c} : job'[d] = job[d] /\ step'[d] = step[d]
           /\ \A d \in Call : Undisturbed(d)' => Undisturbed(d)
<1>0. TypeOK /\ StepFits /\ MeetingsKnown
  BY DEF FilesInv
<1>1. /\ step[c] = "unborn" /\ told[c] = "waiting" /\ met[c] = {}
      /\ job[c] = NoJob /\ told' = told /\ c \notin lost
      /\ UNCHANGED <<lost, ownVars, webVars, cron>>
  BY <1>0 DEF Start, Begin, StepFits
<1>2. /\ job'[c] = j /\ step'[c] = FirstStep(j.kind)
      /\ \A d \in Call \ {c} :
             /\ job'[d] = job[d] /\ step'[d] = step[d]
             /\ met'[d] = IF AtWork(d) THEN met[d] \cup {c} ELSE met[d]
  BY <1>0 DEF Start, Begin, TypeOK
<1>3. \A d \in Call : \A e \in met[d] : e # c /\ e \in Call
  BY <1>0, <1>1 DEF MeetingsKnown, Begun, TypeOK
<1>4. Undisturbed(c) /\ ~AtWork(c)
  BY <1>1 DEF Undisturbed, AtWork
<1>5. \A d \in Call \ {c} : Undisturbed(d)' => Undisturbed(d)
  <2>1. ASSUME NEW d \in Call \ {c}, NEW e \in met[d], Clash(d, e)
        PROVE  e \in met'[d] /\ Clash(d, e)'
    <3>1. e \in Call \ {c} /\ job'[d] = job[d] /\ job'[e] = job[e]
      BY <1>2, <1>3
    <3>2. e \in met'[d]
      BY <1>2
    <3>q. QED
      BY <2>1, <3>1, <3>2 DEF Clash
  <2>q. QED
    BY <2>1 DEF Undisturbed
<1>q. QED
  BY <1>1, <1>2, <1>4, <1>5

(* So what undisturbed calls have done stays done.                         *)
LEMMA IntactStep == FilesInv /\ Intact /\ [Next]_vars => Intact'
<1> SUFFICES ASSUME FilesInv, Intact, [Next]_vars PROVE Intact'
  OBVIOUS
<1>1. ASSUME NEW c \in Call, NEW j \in Jobs, Start(c, j) PROVE Intact'
  <2>1. Carried(c)'
    <3>1. job'[c] = j /\ step'[c] = FirstStep(j.kind)
      BY <1>1, StartFrame
    <3>2. /\ step'[c] \notin {"fill", "cp", "copying", "rm", "test", "reload"}
          /\ step'[c] = "link" => j.kind = "enable"
          /\ step'[c] = "unlink" => j.kind = "disable"
      BY <3>1 DEF FirstStep
    <3>q. QED
      BY <3>1, <3>2 DEF Carried
  <2>2. ASSUME NEW d \in Call \ {c}, Undisturbed(d)' PROVE Carried(d)'
    <3>1. /\ Undisturbed(d) /\ job'[d] = job[d] /\ step'[d] = step[d]
          /\ UNCHANGED <<carry, handle, tmp, available, enabled>>
      BY <1>1, <2>2, StartFrame DEF ownVars, webVars
    <3>2. Carried(d)
      BY <3>1 DEF Intact
    <3>q. QED
      BY <3>1, <3>2 DEF Carried
  <2>q. QED
    BY <2>1, <2>2 DEF Intact
<1>2. ASSUME NEW c \in Call, Acts(c) PROVE Intact'
  <2>1. \A d \in Call : Undisturbed(d)' <=> Undisturbed(d)
    BY <1>2, ActsMove, MovesKeep
  <2>2. ASSUME NEW d \in Call, Undisturbed(d) PROVE Carried(d)'
    <3>1. Carried(d)
      BY <2>2 DEF Intact
    <3>q. QED
      BY <1>2, <2>2, <3>1, OthersCarried, OwnCarried
  <2>q. QED
    BY <2>1, <2>2 DEF Intact
<1>3. CASE UNCHANGED vars
  <2> USE <1>3 DEF vars, callVars, ownVars, webVars
  <2>1. \A d \in Call : Undisturbed(d)' <=> Undisturbed(d)
    BY DEF Undisturbed, Clash
  <2>2. \A d \in Call : Carried(d) => Carried(d)'
    BY DEF Carried
  <2>q. QED
    BY <2>1, <2>2 DEF Intact
<1>q. QED
  BY <1>1, <1>2, <1>3 DEF Next, Acts

-----------------------------------------------------------------------------
(* What accounts for a broken file does so for ever.                       *)
LEMMA ExcuseStays ==
    ASSUME FilesInv, [Next]_vars, NEW d \in Call, Excuse(d)
    PROVE  Excuse(d)'
<1>1. ASSUME NEW c \in Call, NEW j \in Jobs, Start(c, j) PROVE Excuse(d)'
  <2>1. d # c
    <3>1. NoJob.good
      BY DEF NoJob
    <3>2. job[c].good
      <4>1. job[c] = NoJob
        BY <1>1, StartFrame
      <4>q. QED
        BY <3>1, <4>1, ZenonT(30)
    <3>3. ~Excuse(c)
      BY <1>1, <3>2, StartFrame DEF Excuse, Known
    <3>q. QED
      BY <3>3
  <2>2. /\ job'[d] = job[d] /\ told' = told /\ (Undisturbed(d)' => Undisturbed(d))
        /\ lost' = lost
    BY <1>1, <2>1, StartFrame
  <2>q. QED
    BY <2>2, ZenonT(30) DEF Excuse, Known
<1>2. ASSUME NEW c \in Call, Acts(c) PROVE Excuse(d)'
  <2>1. /\ job' = job /\ (Undisturbed(d)' <=> Undisturbed(d))
        /\ told[d] # "waiting" => told'[d] = told[d]
        /\ d \in lost => d \in lost'
    BY <1>2, ActsMove, MoveFrame
  <2>q. QED
    BY <2>1 DEF Excuse, Known
<1>3. CASE UNCHANGED vars
  BY <1>3 DEF vars, callVars, Excuse, Known, Undisturbed, Clash
<1>q. QED
  BY <1>1, <1>2, <1>3 DEF Next, Acts

(* Whoever has left a file broken mends it, or somebody is told.           *)
LEMMA MendedStep ==
    ASSUME FilesInv, Intact, BreakMended, [Next]_vars
    PROVE  BreakMended'
<1>0. TypeOK /\ StepFits
  BY DEF FilesInv
<1> SUFFICES ASSUME \A d \in Call : ~Excuse(d)', NEW s \in enabled', ~Sound(s)'
             PROVE  \E d \in Call : Mends(d, s)'
  BY DEF BreakMended
<1>1. \A d \in Call : ~Excuse(d)
  BY ExcuseStays
<1>2. s \in enabled => Sound(s) \/ \E d \in Call : Mends(d, s)
  BY <1>1 DEF BreakMended
<1>3. \A d \in Call : /\ told[d] \notin {"failed", "timeout"}
                      /\ told'[d] \notin {"failed", "timeout"}
                      /\ Undisturbed(d) /\ job[d].good
                      /\ d \notin lost /\ d \notin lost'
  BY <1>1 DEF Excuse, Known
<1>a. ASSUME available' = available PROVE ~Sound(s)
  BY <1>a DEF Sound
<1>4. ASSUME NEW c \in Call, NEW j \in Jobs, Start(c, j)
      PROVE  \E d \in Call : Mends(d, s)'
  <2>1. available' = available /\ enabled' = enabled
    BY <1>4, StartFrame DEF webVars
  <2>2. PICK d \in Call : Mends(d, s)
    BY <1>2, <1>a, <2>1
  <2>3. d # c
    BY <1>4, <2>2, StartFrame DEF Mends, AtWork
  <2>4. job'[d] = job[d] /\ step'[d] = step[d]
    BY <1>4, <2>3, StartFrame
  <2>q. QED
    BY <2>2, <2>4 DEF Mends
<1>5. ASSUME NEW c \in Call, Acts(c), available' = available, enabled' \subseteq enabled,
             step[c] \notin {"copying", "test"}
      PROVE  \E d \in Call : Mends(d, s)'
  <2>1. PICK d \in Call : Mends(d, s)
    BY <1>2, <1>5, <1>a
  <2>2. d # c
    BY <1>5, <2>1 DEF Mends
  <2>3. job' = job /\ step'[d] = step[d]
    BY <1>5, <2>2, ActsMove, MoveFrame
  <2>q. QED
    BY <2>1, <2>3 DEF Mends
<1>6. ASSUME NEW c \in Call,
             Fails(c) \/ Timeout(c) \/ ChannelEnds(c) \/ Killed(c) \/ ReaderKilled(c)
             \/ CopyFails(c) \/ TestFails(c) \/ InstallFails(c)
      PROVE  FALSE
  <2>1. told[c] \in {"waiting", "ok"}
    BY <1>0, <1>3 DEF TypeOK
  <2>2. CASE Fails(c) \/ CopyFails(c) \/ TestFails(c) \/ InstallFails(c)
    <3>1. End(c, "failed") /\ step[c] # "over" /\ c \notin lost
      BY <1>3, <2>2 DEF Fails, CopyFails, TestFails, InstallFails
    <3>2. told[c] = "waiting"
      BY <1>0, <2>1, <3>1 DEF StepFits
    <3>3. told'[c] = "failed"
      BY <1>0, <3>1, <3>2 DEF End, TypeOK
    <3>q. QED
      BY <1>3, <3>3
  <2>3. CASE Timeout(c)
    <3>1. told'[c] = "timeout"
      BY <1>0, <2>3 DEF Timeout, TypeOK
    <3>q. QED
      BY <1>3, <3>1
  <2>4. CASE Killed(c) \/ ReaderKilled(c)
    <3>1. AtWork(c) /\ told[c] # "waiting"
      BY <2>4 DEF Killed, ReaderKilled, Abandoned
    <3>q. QED
      BY <1>0, <1>3, <2>1, <3>1 DEF StepFits, AtWork
  <2>5. CASE ChannelEnds(c)
    BY <1>3, <2>5 DEF ChannelEnds
  <2>q. QED
    BY <1>6, <2>2, <2>3, <2>4, <2>5
<1>7. ASSUME NEW c \in Call,
             Create(c) \/ Fill(c) \/ Remove(c) \/ Unlink(c)
             \/ Reload(c) \/ Restart(c) \/ ReadTable(c) \/ Install(c)
      PROVE  \E d \in Call : Mends(d, s)'
  <2>1. /\ available' = available /\ enabled' \subseteq enabled
        /\ step[c] \notin {"copying", "test"}
    BY <1>7 DEF Create, Fill, Remove, Unlink, Reload, Restart, ReadTable, Install,
                webVars
  <2>2. Acts(c)
    BY <1>7 DEF Acts
  <2>q. QED
    BY <1>5, <2>1, <2>2
<1>8. ASSUME NEW c \in Call, CopyBegins(c) PROVE \E d \in Call : Mends(d, s)'
  <2>1. /\ job' = job /\ step[c] = "cp" /\ step'[c] = "copying" /\ enabled' = enabled
        /\ \A d \in Call \ {c} : step'[d] = step[d]
    BY <1>0, <1>8 DEF CopyBegins, Goto, TypeOK
  <2>2. CASE s = job[c].site
    BY <2>1, <2>2 DEF Mends
  <2>3. CASE s # job[c].site
    <3>1. available'[s] = available[s]
      BY <1>0, <1>8, <2>1, <2>3 DEF CopyBegins, TypeOK
    <3>2. ~Sound(s)
      BY <3>1 DEF Sound
    <3>3. PICK d \in Call : Mends(d, s)
      BY <1>2, <2>1, <3>2
    <3>q. QED
      BY <2>1, <3>3 DEF Mends
  <2>q. QED
    BY <2>2, <2>3
<1>9. ASSUME NEW c \in Call, CopyEnds(c) PROVE \E d \in Call : Mends(d, s)'
  <2>1. /\ job' = job /\ step[c] = "copying" /\ enabled' = enabled
        /\ \A d \in Call \ {c} : step'[d] = step[d]
    BY <1>0, <1>9 DEF CopyEnds, Goto, TypeOK
  <2>2. s # job[c].site
    <3> SUFFICES ASSUME s = job[c].site PROVE FALSE
      OBVIOUS
    <3>1. carry[c] = Text(c, job[c].good)
      BY <1>3, <2>1 DEF Intact, Carried
    <3>2. available'[s] = Text(c, job[c].good)
      BY <1>0, <1>9, <2>1, <3>1 DEF CopyEnds, TypeOK
    <3>3. Text(c, job[c].good).good = job[c].good
      BY DEF Text
    <3>4. job[c].good
      BY <1>3
    <3>5. available'[s].good = job[c].good
      BY <3>2, <3>3
    <3>6. Sound(s)'
      BY <3>4, <3>5, ZenonT(30) DEF Sound
    <3>q. QED
      BY <3>6
  <2>3. available'[s] = available[s]
    BY <1>0, <1>9, <2>1, <2>2 DEF CopyEnds, TypeOK
  <2>4. ~Sound(s)
    BY <2>3 DEF Sound
  <2>5. PICK d \in Call : Mends(d, s)
    BY <1>2, <2>1, <2>4
  <2>q. QED
    BY <2>1, <2>2, <2>5 DEF Mends
<1>10. ASSUME NEW c \in Call, Link(c) PROVE \E d \in Call : Mends(d, s)'
  <2>1. /\ job' = job /\ step[c] = "link" /\ step'[c] = "test"
        /\ available' = available /\ enabled' = enabled \cup {job[c].site}
        /\ \A d \in Call \ {c} : step'[d] = step[d]
    BY <1>0, <1>10 DEF Link, Goto, TypeOK
  <2>2. CASE s = job[c].site
    BY <2>1, <2>2 DEF Mends
  <2>3. CASE s # job[c].site
    <3>1. PICK d \in Call : Mends(d, s)
      BY <1>2, <1>a, <2>1, <2>3
    <3>q. QED
      BY <2>1, <3>1 DEF Mends
  <2>q. QED
    BY <2>2, <2>3
<1>11. ASSUME NEW c \in Call, TestPasses(c) PROVE FALSE
  <2>1. available' = available /\ enabled' = enabled /\ Valid
    BY <1>11 DEF TestPasses, webVars
  <2>2. Sound(s)
    BY <2>1 DEF Valid, Sound
  <2>q. QED
    BY <1>a, <2>1, <2>2
<1>12. ASSUME UNCHANGED vars PROVE \E d \in Call : Mends(d, s)'
  <2>1. UNCHANGED <<job, step, available, enabled>>
    BY <1>12 DEF vars, callVars, webVars
  <2>q. QED
    BY <1>2, <1>a, <2>1 DEF Mends
<1>q. QED
  BY <1>4, <1>6, <1>7, <1>8, <1>9, <1>10, <1>11, <1>12 DEF Next

(* The initial states are in order.                                        *)
LEMMA WorkInit == Init => WorkInv
<1> SUFFICES ASSUME Init PROVE WorkInv
  OBVIOUS
<1>1. Intact
  BY DEF Init, Intact, Carried
<1>2. BreakMended
  <2> SUFFICES ASSUME NEW s \in enabled PROVE Sound(s)
    BY DEF BreakMended
  <2>1. available[s] = Text(Old, TRUE)
    BY DEF Init
  <2>2. Text(Old, TRUE).good = TRUE
    BY DEF Text
  <2>3. available[s].good = TRUE
    BY <2>1, <2>2
  <2>q. QED
    BY <2>3, ZenonT(30) DEF Sound
<1>q. QED
  BY <1>1, <1>2, FilesInit DEF WorkInv

(* The inductive invariant of the sites' files.                            *)
LEMMA WorkStep == WorkInv /\ [Next]_vars => WorkInv'
BY FilesStep, IntactStep, MendedStep DEF WorkInv

(* It holds throughout.                                                    *)
LEMMA WorkAlways == Spec => []WorkInv
BY WorkInit, WorkStep, PTL DEF Spec

(* When nobody is at work, a configuration that nginx would not load, and  *)
(* so the next restart not survive, is accounted for: a call failed, timed *)
(* out, lost its channel, overlapped another or wrote a bad text           *)
(* (vps_nginx_config).                                                     *)
THEOREM BrokenSitesAreAccounted == Spec => []BrokenIsAccounted
<1>1. WorkInv => BrokenIsAccounted
  <2> SUFFICES ASSUME BreakMended, ~Valid, \A c \in Call : ~AtWork(c)
               PROVE  \E c \in Call : Excuse(c)
    BY DEF WorkInv, BrokenIsAccounted, LeftBroken, Excuse
  <2>1. PICK s \in enabled : ~Sound(s)
    BY DEF Valid, Sound
  <2>2. \A c \in Call : ~Mends(c, s)
    BY DEF Mends, AtWork
  <2>q. QED
    BY <2>1, <2>2 DEF BreakMended
<1>q. QED
  BY <1>1, WorkAlways, PTL

(* A call that reports success has done all that it was asked for, however *)
(* long its command line, unless another call was at work on its files     *)
(* meanwhile or its channel ended without an exit status (exec_command,    *)
(* service_tools.rs, file_tools.rs).                                       *)
THEOREM SuccessIsDone == Spec => OkMeansDone
<1>1. ASSUME WorkInv, [Next]_vars, NEW c \in Call,
             told[c] = "waiting", told'[c] = "ok", Undisturbed(c)', c \notin lost'
      PROVE  Done(c)'
  <2>0. FilesInv /\ TypeOK /\ StepFits /\ Intact
    BY <1>1 DEF WorkInv, FilesInv
  <2>1. Acts(c)
    <3>1. ASSUME NEW d \in Call, NEW j \in Jobs, Start(d, j) PROVE FALSE
      BY <1>1, <2>0, <3>1, StartFrame
    <3>2. ASSUME NEW d \in Call, Acts(d) PROVE d = c
      BY <1>1, <2>0, <3>2, ActsMove, MoveFrame
    <3>3. ~UNCHANGED vars
      BY <1>1 DEF vars, callVars
    <3>q. QED
      BY <1>1, <3>1, <3>2, <3>3 DEF Next, Acts
  <2>2. /\ job' = job /\ Undisturbed(c)
    BY <1>1, <2>0, <2>1, ActsMove, MoveFrame
  <2>3. Carried(c)
    BY <2>0, <2>2 DEF Intact
  <2>4. CASE Remove(c)
    <3>1. step[c] = "rm" /\ available' = available /\ job[c].kind = "write"
      BY <2>0, <2>4 DEF Remove, StepFits
    <3>q. QED
      BY <2>2, <2>3, <3>1 DEF Carried, Done
  <2>5. CASE Reload(c)
    <3>1. /\ step[c] = "reload" /\ job[c].kind \in {"enable", "disable"}
          /\ UNCHANGED <<available, enabled>> /\ job[c].site \in Site
      BY <2>0, <2>5, SiteOfWork DEF Reload, StepFits
    <3>2. Valid /\ up
      <4>1. told'[c] = IF Valid /\ up THEN "ok" ELSE "failed"
        BY <1>1, <2>0, <2>5 DEF Reload, End, TypeOK
      <4>q. QED
        BY <1>1, <4>1
    <3>3. running'[job[c].site] =
              IF job[c].site \in enabled THEN available[job[c].site] ELSE Missing
      BY <2>5, <3>1, <3>2 DEF Reload, Linked
    <3>q. QED
      BY <2>2, <2>3, <3>1, <3>3 DEF Carried, Done
  <2>6. CASE Restart(c)
    <3>1. /\ step[c] = "restart" /\ job[c].kind = "restart"
          /\ UNCHANGED <<available, enabled>>
      BY <2>0, <2>6 DEF Restart, StepFits
    <3>2. Valid
      <4>1. told'[c] = IF Valid THEN "ok" ELSE "failed"
        BY <1>1, <2>0, <2>6 DEF Restart, End, TypeOK
      <4>q. QED
        BY <1>1, <4>1
    <3>3. up' /\ running' = Linked
      BY <2>6, <3>2 DEF Restart
    <3>4. Linked' = Linked
      BY <3>1 DEF Linked
    <3>q. QED
      BY <2>2, <3>1, <3>3, <3>4 DEF Done
  <2>7. CASE Install(c)
    <3>1. step[c] = "install" /\ cron' = table[c] /\ job[c].kind \in CronKinds
      BY <2>0, <2>7 DEF Install, StepFits
    <3>2. c \notin lost
      BY <1>1, <2>0, <2>1, <2>2 DEF StepFits
    <3>3. table[c] = Edit(c, cron)
      BY <1>1, <2>0, <2>2, <3>1, <3>2 DEF FilesInv, TableFresh
    <3>q. QED
      BY <2>2, <3>1, <3>3 DEF Edit, Done, CronKinds
  <2>8. CASE ~(Remove(c) \/ Reload(c) \/ Restart(c) \/ Install(c))
    <3>1. told'[c] # "ok"
      BY <1>1, <2>0, <2>1, <2>8
         DEF Acts, TypeOK, Fails, Timeout, ChannelEnds, InstallFails, Killed, ReaderKilled,
              Create, Fill,
             CopyBegins, CopyEnds, CopyFails, Link, Unlink, TestFails, TestPasses,
             ReadTable, Goto, End
    <3>q. QED
      BY <1>1, <3>1
  <2>q. QED
    BY <2>4, <2>5, <2>6, <2>7, <2>8
<1>2. WorkInv /\ [Next]_vars =>
          [\A c \in Call :
              told[c] = "waiting" /\ told'[c] = "ok" /\ Undisturbed(c)' /\ c \notin lost'
                  => Done(c)']_vars
  BY <1>1
<1>q. QED
  BY <1>2, WorkAlways, PTL DEF Spec, OkMeansDone

=============================================================================
