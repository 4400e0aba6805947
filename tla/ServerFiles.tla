----------------------------- MODULE ServerFiles -----------------------------
(***************************************************************************)
(* What concurrent tool calls do to the files of one server:               *)
(* vps_nginx_config (tools/service_tools.rs) writes, enables and disables  *)
(* sites, ubuntu_service_control restarts nginx, and vps_cron              *)
(* (tools/file_tools.rs) edits the cron table.                             *)
(*                                                                         *)
(* A call sends one command line, whose parts run one after the other on   *)
(* the server.  Calls take turns on a connection, but a command that times *)
(* out is only asked to end, and there may be several connections to the   *)
(* server: then the parts of two command lines interleave.                 *)
(***************************************************************************)
EXTENDS Naturals, FiniteSets

CONSTANTS
    Call,   \* tool calls
    Conn,   \* pooled connections to the server
    Site,   \* names of sites
    None,   \* no file, no site, no connection
    Old     \* whoever was there before

ASSUME NamesAssumption ==
    /\ None \notin Call \cup Site \cup Conn \cup {Old}
    /\ Old \notin Call

VARIABLES
    job,        \* what each call is to do
    step,       \* the part of it that is next
    told,       \* what its caller has been told
    met,        \* history: the calls that were at work at the same time
    lost,       \* history: the calls whose channel ended without an exit status
    carry,      \* the text cp has read and has yet to write
    table,      \* the cron table a pipeline has yet to write
    handle,     \* is the temporary file the call has open still the one in /tmp?
    tmp,        \* [Site -> Contents]: /tmp/.nginx_cfg_<site>
    available,  \* [Site -> Contents]: sites-available
    enabled,    \* the sites linked from sites-enabled
    running,    \* [Site -> Contents]: the configuration nginx has loaded
    up,         \* does nginx run?
    cron        \* the entries of the cron table

callVars == <<job, step, told, met, lost>>
webVars  == <<tmp, available, enabled, running, up>>
ownVars  == <<carry, table, handle>>
vars     == <<callVars, ownVars, webVars, cron>>

Entries == Call \cup {Old}

(* A configuration is known by its author and by whether nginx accepts it. *)
Text(c, good) == [by |-> c, good |-> good]
Texts    == [by : Entries, good : BOOLEAN]
Partial  == Text(Old, FALSE)    \* empty, cut short, or a mix of two
Missing  == Text(None, FALSE)
Contents == Texts \cup {Missing}

(* The pattern of a removal is known by the entries that contain it.       *)
NginxKinds == {"write", "enable", "disable", "restart"}
CronKinds  == {"add", "remove"}
Jobs ==
    [kind : {"write"}, conn : Conn, site : Site, good : BOOLEAN, drops : {{}}]
    \cup [kind : {"enable", "disable"}, conn : Conn, site : Site,
          good : {TRUE}, drops : {{}}]
    \cup [kind : {"restart", "add"}, conn : Conn, site : {None}, good : {TRUE},
          drops : {{}}]
    \cup [kind : {"remove"}, conn : Conn, site : {None}, good : {TRUE},
          drops : SUBSET Entries]
NoJob == [kind |-> "none", conn |-> None, site |-> None, good |-> TRUE, drops |-> {}]

Steps == {"unborn", "create", "fill", "cp", "copying", "rm", "link", "unlink",
          "test", "reload", "restart", "read", "install", "over"}

TypeOK ==
    /\ job \in [Call -> Jobs \cup {NoJob}]
    /\ step \in [Call -> Steps]
    /\ told \in [Call -> {"waiting", "ok", "failed", "timeout"}]
    /\ met \in [Call -> SUBSET Call] /\ lost \subseteq Call
    /\ carry \in [Call -> Contents] /\ table \in [Call -> SUBSET Entries]
    /\ handle \in [Call -> BOOLEAN]
    /\ tmp \in [Site -> Contents] /\ available \in [Site -> Contents]
    /\ running \in [Site -> Contents]
    /\ enabled \subseteq Site /\ up \in BOOLEAN
    /\ cron \subseteq Entries

(* nginx -t: every linked file is there and in order.                      *)
Valid == \A s \in enabled : available[s].good

Linked == [s \in Site |-> IF s \in enabled THEN available[s] ELSE Missing]

(* A server that works, with some sites set up before.                     *)
Init ==
    /\ job = [c \in Call |-> NoJob]
    /\ step = [c \in Call |-> "unborn"] /\ told = [c \in Call |-> "waiting"]
    /\ met = [c \in Call |-> {}] /\ lost = {}
    /\ carry = [c \in Call |-> Missing] /\ table = [c \in Call |-> {}]
    /\ handle = [c \in Call |-> FALSE]
    /\ tmp = [s \in Site |-> Missing]
    /\ available \in [Site -> {Missing, Text(Old, TRUE)}]
    /\ enabled \in SUBSET {s \in Site : available[s] # Missing}
    /\ running = Linked /\ up = TRUE
    /\ cron = {Old}

-----------------------------------------------------------------------------
(* Calls.                                                                  *)

Begun(c)  == step[c] # "unborn"
AtWork(c) == step[c] \notin {"unborn", "over"}
Writes(c, s) == job[c].kind = "write" /\ job[c].site = s

(* Faulty variant: one action falls through to another's command, which    *)
(* needs a site.                                                           *)
FirstStepMistaken(kind) ==
    CASE kind = "write" -> "create"
      [] kind \in {"enable", "restart"} -> "link"
      [] kind = "disable" -> "unlink"
      [] OTHER -> "read"

FirstStep(kind) ==
    CASE kind = "write"   -> "create"
      [] kind = "enable"  -> "link"
      [] kind = "disable" -> "unlink"
      [] kind = "restart" -> "restart"
      [] OTHER            -> "read"

(* The call has a job and its connection's lock.                           *)
Begin(c, j) ==
    /\ step[c] = "unborn"
    /\ job' = [job EXCEPT ![c] = j]
    /\ step' = [step EXCEPT ![c] = FirstStep(j.kind)]
    /\ met' = [d \in Call |-> IF d = c THEN {e \in Call : AtWork(e)}
                              ELSE IF AtWork(d) THEN met[d] \cup {c} ELSE met[d]]
    /\ UNCHANGED <<told, lost, ownVars, webVars, cron>>

Start(c, j) ==
    /\ \A d \in Call : Begun(d) /\ job[d].conn = j.conn => told[d] # "waiting"
    /\ Begin(c, j)

(* The command goes on with its next part, or ends with that exit code.    *)
Goto(c, s) == step' = [step EXCEPT ![c] = s] /\ UNCHANGED <<job, told, met, lost>>

End(c, result) ==
    /\ step' = [step EXCEPT ![c] = "over"]
    /\ told' = [told EXCEPT ![c] = IF @ = "waiting" THEN result ELSE @]
    /\ UNCHANGED <<job, met, lost>>

(* The upload breaks off, the command line does not reach the server, or   *)
(* its first part is not permitted.                                        *)
Fails(c) ==
    /\ step[c] \in {"create", "fill", "cp", "link", "unlink", "restart", "read"}
    /\ told[c] = "waiting"
    /\ End(c, "failed")
    /\ UNCHANGED <<ownVars, webVars, cron>>

(* exec_command gives up waiting and asks the remote command to end.       *)
Timeout(c) ==
    /\ AtWork(c) /\ told[c] = "waiting"
    /\ step[c] \notin {"create", "fill"}
    /\ told' = [told EXCEPT ![c] = "timeout"]
    /\ UNCHANGED <<job, step, met, lost, ownVars, webVars, cron>>

(* The channel ends without an exit status, because the link is lost or    *)
(* the remote shell is killed: exec_command returns exit code 0.           *)
ChannelEnds(c) ==
    /\ AtWork(c) /\ told[c] = "waiting"
    /\ step[c] \notin {"create", "fill"}
    /\ told' = [told EXCEPT ![c] = "ok"]
    /\ lost' = lost \cup {c}
    /\ UNCHANGED <<job, step, met, ownVars, webVars, cron>>

(* Nobody waits any more for a remote command that is still at work.  It   *)
(* may end between two of its parts or in the middle of a copy ...         *)
Abandoned(c) == AtWork(c) /\ told[c] # "waiting"

Killed(c) ==
    /\ Abandoned(c)
    /\ End(c, "failed")
    /\ UNCHANGED <<ownVars, webVars, cron>>

(* ... or only the reading half of the cron pipeline: the other half takes *)
(* what it got for the whole table.                                        *)
ReaderKilled(c) ==
    /\ step[c] = "read" /\ Abandoned(c)
    /\ \E kept \in SUBSET cron : table' = [table EXCEPT ![c] = kept]
    /\ Goto(c, "install")
    /\ UNCHANGED <<carry, handle, webVars, cron>>

-----------------------------------------------------------------------------
(* vps_nginx_config, write: an SFTP upload to /tmp, then cp and rm.        *)

(* Opened and truncated: whoever has the same file open shares it.         *)
Create(c) ==
    /\ step[c] = "create"
    /\ tmp' = [tmp EXCEPT ![job[c].site] = Partial]
    /\ handle' = [handle EXCEPT ![c] = TRUE]
    /\ Goto(c, "fill")
    /\ UNCHANGED <<carry, table, available, enabled, running, up, cron>>

(* The text is written over what the file holds, if it is still there: on  *)
(* somebody else's text it leaves a mix.                                   *)
Fill(c) ==
    LET s == job[c].site IN
    /\ step[c] = "fill"
    /\ \/ /\ handle[c]
          /\ tmp' = [tmp EXCEPT ![s] = IF @ = Partial THEN Text(c, job[c].good)
                                       ELSE Partial]
       \/ ~handle[c] /\ UNCHANGED tmp
    /\ Goto(c, "cp")
    /\ UNCHANGED <<ownVars, available, enabled, running, up, cron>>

(* cp reads the temporary file and truncates the site's ...                *)
CopyBegins(c) ==
    LET s == job[c].site IN
    /\ step[c] = "cp" /\ tmp[s] # Missing
    /\ carry' = [carry EXCEPT ![c] = tmp[s]]
    /\ available' = [available EXCEPT ![s] = Partial]
    /\ Goto(c, "copying")
    /\ UNCHANGED <<table, handle, tmp, enabled, running, up, cron>>

(* ... and writes it.                                                      *)
CopyEnds(c) ==
    /\ step[c] = "copying"
    /\ available' = [available EXCEPT ![job[c].site] = carry[c]]
    /\ Goto(c, "rm")
    /\ UNCHANGED <<ownVars, tmp, enabled, running, up, cron>>

(* Faulty variant: the exit code of a failing cp is lost (; for &&).       *)
CopyFailsUnseen(c) ==
    /\ \/ step[c] = "cp" /\ tmp[job[c].site] = Missing
       \/ step[c] = "copying"
    /\ End(c, "ok")
    /\ UNCHANGED <<ownVars, webVars, cron>>

(* The temporary file is gone, or the disk is full.                        *)
CopyFails(c) ==
    /\ \/ step[c] = "cp" /\ tmp[job[c].site] = Missing
       \/ step[c] = "copying"
    /\ End(c, "failed")
    /\ UNCHANGED <<ownVars, webVars, cron>>

Remove(c) ==
    LET s == job[c].site IN
    /\ step[c] = "rm"
    /\ tmp' = [tmp EXCEPT ![s] = Missing]
    /\ handle' = [d \in Call |-> IF Writes(d, s) THEN FALSE ELSE handle[d]]
    /\ End(c, "ok")
    /\ UNCHANGED <<carry, table, available, enabled, running, up, cron>>

-----------------------------------------------------------------------------
(* enable, disable: the link, nginx -t, the reload, joined by &&.          *)

Link(c) ==
    /\ step[c] = "link"
    /\ enabled' = enabled \cup {job[c].site}
    /\ Goto(c, "test")
    /\ UNCHANGED <<ownVars, tmp, available, running, up, cron>>

Unlink(c) ==
    /\ step[c] = "unlink"
    /\ enabled' = enabled \ {job[c].site}
    /\ Goto(c, "test")
    /\ UNCHANGED <<ownVars, tmp, available, running, up, cron>>

(* The configuration is refused; the link stays as it is now.              *)
TestFails(c) ==
    /\ step[c] = "test" /\ ~Valid
    /\ End(c, "failed")
    /\ UNCHANGED <<ownVars, webVars, cron>>

TestPasses(c) ==
    /\ step[c] = "test" /\ Valid
    /\ Goto(c, "reload")
    /\ UNCHANGED <<ownVars, webVars, cron>>

(* Faulty variant: the test is all there is.                               *)
ReloadForgotten(c) ==
    /\ step[c] = "reload"
    /\ End(c, "ok")
    /\ UNCHANGED <<ownVars, webVars, cron>>

(* nginx goes on with what it has if the configuration does not load.      *)
Reload(c) ==
    /\ step[c] = "reload"
    /\ running' = IF Valid /\ up THEN Linked ELSE running
    /\ End(c, IF Valid /\ up THEN "ok" ELSE "failed")
    /\ UNCHANGED <<ownVars, tmp, available, enabled, up, cron>>

(* ubuntu_service_control, restart: nothing is tested before the stop.     *)
Restart(c) ==
    /\ step[c] = "restart"
    /\ up' = Valid
    /\ running' = IF Valid THEN Linked ELSE [s \in Site |-> Missing]
    /\ End(c, IF Valid THEN "ok" ELSE "failed")
    /\ UNCHANGED <<ownVars, tmp, available, enabled, cron>>

-----------------------------------------------------------------------------
(* vps_cron: the table is read, edited and written back by one pipeline.   *)

(* Faulty variant: an entry replaces the table.                            *)
EditAlone(c, lines) ==
    IF job[c].kind = "add" THEN {c} ELSE lines \ job[c].drops

(* grep -vF takes out every line that contains the pattern.                *)
Edit(c, lines) ==
    IF job[c].kind = "add" THEN lines \cup {c} ELSE lines \ job[c].drops

ReadTable(c) ==
    /\ step[c] = "read"
    /\ table' = [table EXCEPT ![c] = Edit(c, cron)]
    /\ Goto(c, "install")
    /\ UNCHANGED <<carry, handle, webVars, cron>>

Install(c) ==
    /\ step[c] = "install"
    /\ cron' = table[c]
    /\ End(c, "ok")
    /\ UNCHANGED <<ownVars, webVars>>

(* crontab finds an error in the table and leaves the old one.             *)
InstallFails(c) ==
    /\ step[c] = "install"
    /\ End(c, "failed")
    /\ UNCHANGED <<ownVars, webVars, cron>>

-----------------------------------------------------------------------------
Next ==
    \E c \in Call :
        \/ \E j \in Jobs : Start(c, j)
        \/ Fails(c) \/ Timeout(c) \/ ChannelEnds(c)
        \/ Killed(c) \/ ReaderKilled(c)
        \/ Create(c) \/ Fill(c)
        \/ CopyBegins(c) \/ CopyEnds(c) \/ CopyFails(c) \/ Remove(c)
        \/ Link(c) \/ Unlink(c) \/ TestFails(c) \/ TestPasses(c)
        \/ Reload(c) \/ Restart(c)
        \/ ReadTable(c) \/ Install(c) \/ InstallFails(c)

Spec == Init /\ [][Next]_vars

-----------------------------------------------------------------------------
(* The two calls work on the same files.                                   *)
Clash(c, d) ==
    LET kinds == {job[c].kind, job[d].kind} IN
    \/ kinds \subseteq CronKinds
    \/ /\ kinds \subseteq NginxKinds
       /\ kinds = {"write"} => job[c].site = job[d].site

(* No other call was at work on its files while this one was.              *)
Undisturbed(c) == \A d \in met[c] : ~Clash(c, d)

Done(c) ==
    LET s == job[c].site IN
    CASE job[c].kind = "write"   -> available[s] = Text(c, job[c].good)
      [] job[c].kind = "enable"  -> running[s] = available[s] /\ s \in enabled
      [] job[c].kind = "disable" -> running[s] = Missing /\ s \notin enabled
      [] job[c].kind = "restart" -> up /\ running = Linked
      [] job[c].kind = "add"     -> c \in cron
      [] OTHER                   -> cron \cap job[c].drops = {}

(* A call that reports success has done all of what it was asked for, the  *)
(* parts that other parts of its command line depend on included, unless   *)
(* another call was at work on the same files meanwhile or its channel     *)
(* ended without an exit status.                                           *)
OkMeansDone ==
    [][\A c \in Call :
          told[c] = "waiting" /\ told'[c] = "ok" /\ Undisturbed(c)' /\ c \notin lost'
              => Done(c)']_vars

(* Edits of the cron table lose nobody's entry that contains none of the   *)
(* patterns to remove, unless two edits overlap or one may have been       *)
(* killed half-way.                                                        *)
EntriesKept ==
    \A e \in Entries :
        (e = Old \/ (told[e] = "ok" /\ job[e].kind = "add")) =>
            \/ e \in cron
            \/ \E c \in Call : /\ job[c].kind \in CronKinds
                               /\ \/ e \in job[c].drops
                                  \/ ~Undisturbed(c)
                                  \/ told[c] = "timeout" \/ c \in lost

(* Somebody was told of something that may leave a file broken, or has     *)
(* asked for it, or two calls overlapped.                                  *)
Known(c) ==
    told[c] \in {"failed", "timeout"} \/ ~Undisturbed(c) \/ ~job[c].good

(* No call is at work, and the configuration is one that nginx would not   *)
(* load and the next restart not survive.                                  *)
LeftBroken == ~Valid /\ \A c \in Call : ~AtWork(c)

(* It is left like that only if that is known, or the channel of a command *)
(* line ended without an exit status.                                      *)
BrokenIsAccounted ==
    LeftBroken => \E c \in Call : Known(c) \/ c \in lost

-----------------------------------------------------------------------------
(* What the documentation says and the code does not do.                   *)

(* vps-management/SKILL.md:12: use the exit code to decide success: if all *)
(* calls report success, none has written a bad text and no two overlapped *)
(* then nothing is left broken.                                            *)
BrokenIsTold == LeftBroken => \E c \in Call : Known(c)

=============================================================================
