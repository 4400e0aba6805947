--------------------------- MODULE ConsoleSession ----------------------------
(***************************************************************************)
(* One interactive session and its device (transport/mod.rs): run_command  *)
(* with its pager, run_commands, enable, login and expect_send, all built  *)
(* on read_until_prompt, and what the switch tools make of an output.      *)
(* Calls come one at a time: SessionRegistry shows that the session's lock *)
(* sees to that.                                                           *)
(*                                                                         *)
(* What the device writes is a stream of tokens: lines of text, some of    *)
(* them rejections ("% Invalid input"), and the four things it can wait    *)
(* at.  They arrive in chunks of any size and at any time, so a read can   *)
(* time out with the answer on its way, and a chunk can end within a line. *)
(* A line of which some beginning would pass for one of the four things is *)
(* two tokens: that beginning, a sham of what it looks like, and the rest. *)
(* "snmp-server contact <admin>" is one with DEFAULT_PROMPT.               *)
(***************************************************************************)
EXTENDS Naturals, Sequences, SequencesExt

CONSTANTS
    MaxPages,   \* MAX_PAGES: pages advanced for one command
    Cap,        \* MAX_OUTPUT_BYTES, in tokens
    Looks,      \* bound: what beginnings of lines look like, a set of Waits
    MaxText,    \* bound: lines, and beginnings, the device answers an input with
    MaxCalls    \* bound: commands and other calls on the session

ASSUME BoundsAssumption ==
    {MaxPages, Cap, MaxText, MaxCalls} \subseteq Nat

VARIABLES
    at,     \* what the device is waiting at, or will be after its output
    inbox,  \* what was written to the device and it has not yet read
    wire,   \* its answers, as far as the session has not yet read them
    op,     \* the call under way, "none" between two calls
    stage,  \* how far it is
    call,   \* its number, 1 for the first; every command of a batch has one
    asked,  \* commands of the batch, 0 if it is none
    results,    \* of those that ended: number and outcome
    raw,    \* read_until_prompt's buffer
    acc,    \* the pages before
    pages,  \* how many there were
    last,   \* outcome of the last call or command, until the next begins
    late,   \* history: may session and device be out of step, because a read
            \* was cut short or took a sham for what it looks like?
    sure,   \* history: were they in step when the command under way began?
    answered,   \* history: the device's answer to it, its pages together
    stray   \* history: has the device taken an input for something else?

deviceVars == <<at, inbox, wire, stray, answered>>
readVars   == <<raw, acc, pages>>
callVars   == <<op, stage, call, asked, results, sure>>
vars       == <<deviceVars, readVars, callVars, last, late>>

Ops    == {"run", "batch", "enable", "login", "expect"}
Waits  == {"prompt", "password", "username", "more"}
Lines  == {"text", "reject"}
Pieces == [kind : Lines, sham : {FALSE}] \cup [kind : Looks, sham : {TRUE}]
Tokens == [kind : Waits \cup Lines, sham : BOOLEAN]
Inputs == {"line", "next", "space", "username", "secret", "reply"}
Ends   == Waits \cup {"timeout", "truncated", "error", "match"}

ASSUME LooksAssumption == Looks \subseteq Waits

TypeOK ==
    /\ at \in Waits
    /\ wire \in Seq(Tokens) /\ answered \in Seq(Tokens)
    /\ raw \in Seq(Tokens) /\ acc \in Seq(Tokens)
    /\ inbox \in Seq(Inputs)
    /\ op \in Ops \cup {"none"}
    /\ stage \in {"start", "between", "first", "username", "secret"}
    /\ call \in 0..MaxCalls /\ asked \in 0..MaxCalls
    /\ results \in Seq([of : 1..MaxCalls, end : Ends])
    /\ pages \in 0..MaxPages
    /\ last.op \in Ops \cup {"none"} /\ last.end \in Ends
    /\ last.output \in Seq(Tokens) /\ last.sure \in BOOLEAN
    /\ late \in BOOLEAN /\ sure \in BOOLEAN /\ stray \in BOOLEAN

(* The answer to an input: some text, then the device waits at k.          *)
Answer(text, k) == Append(text, [kind |-> k, sham |-> FALSE])

(* A device that waits silently, or one that is about to greet.            *)
Init ==
    /\ at \in {"prompt", "username"}
    /\ wire \in {<<>>, Answer(<<>>, at)}
    /\ inbox = <<>>
    /\ op = "none" /\ stage = "start" /\ call = 0
    /\ asked = 0 /\ results = <<>>
    /\ raw = <<>> /\ acc = <<>> /\ pages = 0
    /\ last = [op |-> "none", end |-> at, output |-> <<>>, sure |-> FALSE]
    /\ late = (wire # <<>>) /\ sure = FALSE
    /\ answered = <<>> /\ stray = FALSE

-----------------------------------------------------------------------------
(* The device: any device that answers every input and then waits.         *)

(* What an input of the session is meant for.  A line is the caller's own  *)
(* choice, but the further lines of a batch are sent unseen.               *)
Fits(what, w) ==
    CASE what = "space"    -> w = "more"
      [] what = "username" -> w = "username"
      [] what = "secret"   -> w = "password"
      [] what = "next"     -> w = "prompt"
      [] OTHER             -> TRUE

(* An input is answered.  When the answer is sent and how long it takes to *)
(* arrive need no steps of their own: a read may get any beginning of what *)
(* is on the wire, and a deadline may pass before it.                      *)
DeviceReads(text, k) ==
    /\ inbox # <<>>
    /\ wire' = wire \o Answer(text, k)
    /\ stray' = (stray \/ ~Fits(Head(inbox), at))
    /\ answered' = IF sure THEN answered \o Answer(text, k) ELSE answered
    /\ at' = k
    /\ inbox' = Tail(inbox)
    /\ UNCHANGED <<readVars, callVars, last, late>>

-----------------------------------------------------------------------------
(* The session.                                                            *)

Write(what) == inbox' = Append(inbox, what)

Begins(s) ==
    /\ call < MaxCalls
    /\ stage' = s /\ call' = call + 1
    /\ raw' = <<>> /\ acc' = <<>> /\ pages' = 0
    /\ sure' = ~late /\ answered' = <<>>
    /\ last' = [op |-> "none", end |-> "prompt", output |-> <<>>, sure |-> FALSE]
    /\ UNCHANGED <<at, stray, late>>

CallBegins(o, n) ==
    /\ op = "none"
    /\ op' = o /\ asked' = n /\ results' = <<>>
    /\ Begins("first")

(* run_command_inner: one read of what is already there, at most one chunk *)
(* of it, is thrown away; then the line is sent.                           *)
Command(what) ==
    /\ \E n \in 0..Len(wire) : wire' = SubSeq(wire, n + 1, Len(wire))
    /\ Write(what)

(* run_command, the first half of enable, the first of a batch's commands. *)
CallCommand(o, n) == CallBegins(o, n) /\ Command("line")

(* run_commands: the next command.                                         *)
NextCommand ==
    /\ op = "batch" /\ stage = "between"
    /\ Begins("first") /\ Command("next")
    /\ UNCHANGED <<op, asked, results>>

(* login: an empty line elicits the challenge, nothing is drained.         *)
CallLogin ==
    /\ CallBegins("login", 0)
    /\ Write("line")
    /\ UNCHANGED wire

(* expect_send: only reads at first.                                       *)
CallExpect ==
    /\ CallBegins("expect", 0)
    /\ UNCHANGED <<inbox, wire>>

(* Faulty variant: a command that times out ends the batch.                *)
MoreAborting(end) ==
    op = "batch" /\ end \notin {"error", "timeout"} /\ Len(results) + 1 < asked

(* Has the batch more commands to send?  Only an error ends it early.      *)
More(end) == op = "batch" /\ end # "error" /\ Len(results) + 1 < asked

(* The call, or a command of it, ends so, with this output; what it has    *)
(* not read is left.  A batch that fails returns no results at all.        *)
Finish(end, output) ==
    /\ op' = (IF More(end) THEN op ELSE "none")
    /\ stage' = (IF More(end) THEN "between" ELSE "start")
    /\ results' = IF op # "batch" \/ end = "error" THEN <<>>
                  ELSE Append(results, [of |-> call, end |-> end])
    /\ last' = [op |-> op, end |-> end, output |-> output, sure |-> sure]
    /\ raw' = <<>> /\ acc' = <<>> /\ pages' = 0
    /\ UNCHANGED <<call, asked, sure>>

(* Faulty variant: what looks like a prompt counts wherever it was read.   *)
VerdictAnywhere(buffer) ==
    IF Len(buffer) > Cap THEN "truncated"
    ELSE IF op = "expect"
    THEN IF \E i \in DOMAIN buffer : buffer[i].kind = "password"
         THEN "match" ELSE "open"
    ELSE IF \E i \in DOMAIN buffer : buffer[i].kind = "prompt" THEN "prompt"
    ELSE IF Last(buffer).kind \in Lines THEN "open" ELSE Last(buffer).kind

(* read_until_prompt's verdict on a buffer: "truncated" comes first, then  *)
(* the last line alone counts, except for expect_send, whose pattern (here *)
(* a password challenge) may be anywhere.  "open": go on reading.  The     *)
(* last line is judged as far as it has come: a sham that the chunk ends   *)
(* with is not told from the real thing.                                   *)
Verdict(buffer) ==
    IF Len(buffer) > Cap THEN "truncated"
    ELSE IF op = "expect"
    THEN IF \E i \in DOMAIN buffer : buffer[i].kind = "password"
         THEN "match" ELSE "open"
    ELSE IF Last(buffer).kind \in Lines THEN "open" ELSE Last(buffer).kind

(* Faulty variant: enable sends the password whatever the device asked.    *)
ReplyUnasked(v) ==
    IF op = "enable" /\ stage = "first" THEN "secret" ELSE "none"

(* Faulty variant: a pager is advanced for ever.                           *)
ReplyUncapped(v) ==
    IF stage = "first" /\ op = "run" /\ v = "more" THEN "space" ELSE "none"

(* What comes after a verdict v in the given stage of the call: a reply to *)
(* the device and the stage it leads to.                                   *)
Reply(v) ==
    CASE stage = "first" /\ op \in {"run", "batch", "enable"} /\ v = "more"
             /\ pages < MaxPages                        -> "space"
      [] op = "enable" /\ stage = "first" /\ v = "password"    -> "secret"
      [] op = "login" /\ stage = "first" /\ v = "username"     -> "username"
      [] op = "login" /\ stage \in {"first", "username"}
             /\ v = "password"                          -> "secret"
      [] OTHER                                          -> "none"

NextStage(reply) == IF reply = "space" THEN "first" ELSE reply

(* Faulty variant: a page replaces the pages before it.                    *)
StitchLast(buffer) == buffer

(* What the pages so far and the one just read amount to.                  *)
Stitch(buffer) == acc \o buffer

(* One chunk is read and judged.  After an end that leaves the device at   *)
(* something else than its prompt, a batch goes on nevertheless.  A reply  *)
(* to a sham, or an end at one, puts session and device out of step.       *)
Read(n) ==
    /\ op # "none" /\ stage # "between"
    /\ wire' = SubSeq(wire, n + 1, Len(wire))
    /\ LET buffer == raw \o SubSeq(wire, 1, n)
           v      == Verdict(buffer)
           reply  == Reply(v)
           sham   == Last(buffer).sham
       IN \/ /\ v = "open"
             /\ raw' = buffer
             /\ UNCHANGED <<inbox, answered, callVars, acc, pages, last, late>>
          \/ /\ v # "open" /\ reply # "none"
             /\ Write(reply)
             /\ stage' = NextStage(reply)
             /\ pages' = IF reply = "space" THEN pages + 1 ELSE pages
             /\ acc' = IF reply = "space" THEN Stitch(buffer) ELSE <<>>
             /\ answered' = IF reply = "space" THEN answered ELSE <<>>
             /\ raw' = <<>>
             /\ late' = (late \/ sham) /\ sure' = (sure /\ ~sham)
             /\ UNCHANGED <<op, call, asked, results, last>>
          \/ /\ v # "open" /\ reply = "none"
             /\ Finish(v, Stitch(buffer))
             /\ IF op = "expect" THEN Write("reply") ELSE UNCHANGED inbox
             /\ late' = \/ late \/ sham \/ v = "truncated" \/ op = "expect"
                        \/ More(v) /\ v # "prompt"
             /\ UNCHANGED answered
    /\ UNCHANGED <<at, stray>>

(* Faulty variant: a page that times out is waited for once more.          *)
TimeoutWaits ==
    /\ op # "none" /\ stage # "between"
    /\ raw' = <<>>
    /\ UNCHANGED <<deviceVars, acc, pages, callVars, last, late>>

(* The deadline of this read_until_prompt has passed.                      *)
Timeout ==
    /\ op # "none" /\ stage # "between"
    /\ Finish("timeout", Stitch(raw))
    /\ late' = TRUE
    /\ UNCHANGED deviceVars

(* A write or a read fails on a broken connection: the call ends in an     *)
(* error, its output is lost, and the device may never read what was sent. *)
Fails ==
    /\ op # "none"
    /\ Finish("error", <<>>)
    /\ late' = TRUE
    /\ UNCHANGED deviceVars

-----------------------------------------------------------------------------
(* What the switch tools make of the outcome of a command.                 *)

HasRejection(output) == \E i \in DOMAIN output : output[i].kind = "reject"

(* clean_output and strip_pager leave the lines and what other than the    *)
(* prompt the command stopped at.                                          *)
Blank(o) == \A i \in DOMAIN o.output :
                \/ o.output[i].kind = "more"
                \/ o.end = "prompt" /\ i = Len(o.output)

(* Faulty variant: what was captured is saved whatever it says.            *)
BackupUnchecked(o) == IF Blank(o) THEN "empty" ELSE "ok"

(* switch_backup_config: the capture is saved, and the backup "ok", unless *)
(* it has a rejection in it or nothing.                                    *)
Backup(o) ==
    IF HasRejection(o.output) THEN "rejected"
    ELSE IF Blank(o) THEN "empty" ELSE "ok"

(* switch_network_diagnostics: "ok" unless rejected.                       *)
DiagnosisOk(o) == ~HasRejection(o.output)

-----------------------------------------------------------------------------
Device ==
    \E n \in 0..MaxText : \E text \in [1..n -> Pieces], k \in Waits :
        DeviceReads(text, k)

NewCall ==
    \/ CallCommand("run", 0) \/ CallCommand("enable", 0)
    \/ \E n \in 1..(MaxCalls - call) : CallCommand("batch", n)
    \/ CallLogin
    \/ CallExpect

Session ==
    \/ \E n \in 1..Len(wire) : Read(n)
    \/ NextCommand
    \/ Timeout

Next == Device \/ NewCall \/ Session \/ Fails

Spec == Init /\ [][Next]_vars

(* A read that gets no answer ends at its deadline: the session's task can *)
(* always go on.  The device owes nothing, and no failure is owed.         *)
FairSpec == Spec /\ WF_vars(Session)

-----------------------------------------------------------------------------
(* Did it end at a sham, for what it looks like?                           *)
Misled(o) == o.end \in Waits /\ Last(o.output).sham

(* After a call that was answered, session and device agree: nothing is    *)
(* left to read or to be answered, and the device waits at what the        *)
(* outcome says (run_command_inner, enable, login).                        *)
InStep ==
    (op = "none" \/ stage = "between") /\ ~late =>
        /\ wire = <<>> /\ inbox = <<>>
        /\ at = last.end

(* What a command, enable or login returns is what the device has answered *)
(* to it, its pages stitched together with nothing lost, doubled or from   *)
(* another call: all of it if it was answered, the beginning of it if it   *)
(* was cut short by the deadline, the cap or a sham.                       *)
OutputIsAnswer ==
    (op = "none" \/ stage = "between") /\ last.sure =>
        /\ last.end \in Waits \cup {"timeout", "truncated"} =>
               IsPrefix(last.output, answered)
        /\ last.end \in Waits /\ ~Misled(last) => last.output = answered

(* A password is read at a password challenge, a user name at a user name  *)
(* challenge, a space by the pager and a batch's next command at the       *)
(* prompt: none of them is ever taken for anything else, unless session    *)
(* and device were out of step before, or the batch's results show that a  *)
(* command did not end at the prompt.                                      *)
RepliesFit == stray => late

(* run_commands returns a result for every command it was given, in their  *)
(* order, also when commands time out in between.                          *)
BatchAccounted ==
    op = "none" /\ last.op = "batch" /\ last.end # "error" =>
        /\ Len(results) = asked
        /\ \A j \in DOMAIN results : results[j].of = call - asked + j

(* A backup or a diagnosis is refused if and only if the device rejected   *)
(* the command, whatever pages the rejection came in; only a read that was *)
(* cut short can have missed it.                                           *)
RejectionsSeen ==
    op = "none" /\ last.op = "run" /\ last.sure =>
        /\ Backup(last) = "rejected" \/ ~DiagnosisOk(last) => HasRejection(answered)
        /\ HasRejection(answered) /\ (Backup(last) = "ok" \/ DiagnosisOk(last)) =>
               Misled(last) \/ last.end \in {"timeout", "truncated", "error"}

(* Every call ends: the deadline bounds a page, MAX_PAGES the pages.       *)
CallsEnd == op # "none" ~> op = "none"

-----------------------------------------------------------------------------
(* What the documentation says and the code does not do.                   *)

(* The device waits at a challenge and all it wrote has been read.         *)
Challenging == at = "password" /\ wire = <<>> /\ inbox = <<>>

(* interactive_tools.rs:194 and switch-management/SKILL.md:244: where      *)
(* run_command has returned with a sub-prompt, expect_send responds to it, *)
(* and it sends once the expected text has appeared.                       *)
ExpectAnswers ==
    op = "none" /\ last.op = "expect" =>
        /\ last.end = "timeout" => ~Challenging
        /\ last.end \in {"match", "truncated"} =>
               \E i \in DOMAIN last.output : last.output[i].kind = "password"

(* mod.rs:337 and :98: testing only the last line avoids false hits on a   *)
(* line that looks like a prompt, and a matched prompt is the device's: a  *)
(* result that shows neither time-out nor truncation is the whole answer.  *)
PromptedIsWhole ==
    op = "none" /\ last.op = "run" /\ last.sure /\ last.end = "prompt" =>
        last.output = answered

(* mod.rs:19: the cap is on the output of a single command.                *)
OutputCapped ==
    op = "none" /\ last.op = "run" /\ last.end # "truncated" =>
        Len(last.output) <= Cap

=============================================================================
