# TLA+ models of SSH-Connect

SSH-Connect is an MCP server that lets tool calls work on remote machines in two
styles: interactive console sessions (SSH shell, Telnet, serial) and server
operations (one SSH channel for every command, and SFTP).  Tool calls run
concurrently on one async runtime, several processes elect one owner among them,
and the devices at the other end answer late, partly or not at all.  This
directory holds the models of that concurrency, what TLC checks of them, and what
TLAPS proves.

## Inventory

| part | source | state it keeps | operations | modules |
|---|---|---|---|---|
| interactive session registry | `transport/manager.rs`, `tools/session_tools.rs`, `tools/interactive_tools.rs` | map name -> session behind a mutex, a mutex and a reference count for every session, who has which serial port | insert, get, remove, list; connect, disconnect, list_sessions, run_command(s), enable, login, expect_send, run_on_fleet, uploads and downloads | `SessionRegistry`, `SessionDirectory` |
| console session, switch tools | `transport/mod.rs`, `tools/switch_tools.rs` | nothing between two calls but what the device has still to say | run_command with its pager, run_commands, enable, login, expect_send; backup and diagnostics | `ConsoleSession` |
| telnet transport | `transport/telnet.rs` | the option parser, across reads | process, reply_negotiation, read_chunk | `TelnetNegotiation` |
| other transports | `transport/ssh.rs`, `serial.rs` | a channel, a port | open, read_chunk, write_all, close, SFTP | in the first two |
| broker | `broker.rs`, `main.rs`, `server.rs` | socket file or named pipe, listener, role of each process | elect, serve_owner, call_tool, exit | `BrokerElection` |
| SSH login | `ssh_config.rs`, `tools/ssh_tools.rs` | the credentials of one login and what became of each | ssh_connect's resolution, authenticate, try_identity_file, agent_auth | `AuthLadder` |
| host keys | `state.rs` | known_hosts, shared by processes | check_server_key | `KnownHosts` |
| server operations | `state.rs`, `tools/ssh_tools.rs` | map id -> connection behind a mutex, a mutex and a reference count for every connection; commands on the server | insert, get, remove, exec_command, SFTP | `ServerOps` |
| server tools | `tools/{ubuntu,service,file,system,database,extras,health}_tools.rs` | none; the files of the server | each a sequence of commands and transfers; nginx sites, the cron table | `ServerOps`, `ServerFiles` |
| inventory, port discovery, errors | `config.rs`, `discovery/`, `error.rs` | none that changes | parsing, formatting, enumeration | not modelled |

How they interact.  `call_tool` runs a tool in the process that owns the registries,
or forwards it there (BrokerElection).  An interactive call takes a handle from the
registry, then the session's lock (SessionRegistry), and what it does with the device
while it has the lock is ConsoleSession: SessionRegistry shows that calls on one
session do not overlap, which is what ConsoleSession assumes.  Over telnet its bytes
pass the option parser; TelnetNegotiation shows that the session gets the device's
data unchanged and in order, which is what ConsoleSession's wire is.  A server
connection is made by ssh_connect: the server's key is checked (KnownHosts), the login
authenticated (AuthLadder), and the connection pooled (ServerOps).  Calls take turns on
it, except that commands may outlive their call; ServerFiles takes that over as "the
first has timed out, or they use two connections" and asks what becomes of the files.

What is hard here: locks awaited while another is held; handles used after the
session was removed; sessions dropped by reference count rather than by close;
answers cut short by a deadline that arrive afterwards; elections by way of an
endpoint that outlives its process; commands that outlive their channel; files read
and then written with nothing in between to stop others.  PROJECT.json lists the
hazards with their lines.

## SessionRegistry and SessionDirectory

A *task* is a tool call.  `pc` says where it is in its handler, one label for every
await at which another task can get in; the code between two awaits is one action.
A tokio mutex is FIFO, so it is a queue (`mapQ`, `sessQ`) whose head is the owner; to
ask for a lock and to own it are two moments.  A session object lives as long as the
map or a task refers to it (`DropHandle`), and with it its serial port: this is how the
code closes serial sessions (serial.rs:91).  `close()` is the status "closed".  The
sequence remove, lock, close, return of disconnect, and list's walk over the sessions
with the map's lock in hand, are the code's, step by step.  What a device answers is
abstracted: an exchange counts (`sent`), and the call may end after any of them.

`SessionDirectory` is what the registry promises of each session, with no tasks and
locks: free, private to the connect that opened it, registered under a name nobody else
has, withdrawn, closed, free again.  `ImplementsDirectory` says that SessionRegistry
implements it, under the mapping `phase`.

Safety: `Ownership` (handles never dangle, what get() finds is open and nobody is
connecting or disconnecting it, a connect has its session for itself until insert, of
racing disconnects one closes, once), `CallsNotInterleaved` (no command and no close
between the commands of another call), `ListIsSnapshot`, `FleetWaits`.  Liveness:
`CallReturns`, CallsReturn for one task; tasks are interchangeable.  That a closed session
is silent (`ClosedIsSilent`, session_tools.rs:200 and mod.rs:125) does not hold of serial
ones: in `SessionClosed.cfg` a call waits for the session while disconnect closes it, and
then sends its command.

Fairness: every task that can take a step takes it (the runtime polls it), where a step
is what needs nobody else: a lock that has become free, code without an await, and reads,
which all have a deadline (a write is taken to be accepted by the device).  `Answer` has
no fairness: SSH login and shell requests (ssh.rs:132-157; only the TCP connect before
them has a timeout) and SFTP transfers wait without one.  `CallReturns` therefore
assumes that no task stays in them for ever, and nothing else.

Bounds: three tasks, which is what it takes for a holder, a waiter and somebody who
changes the map, or for a fleet of two; two names and two session objects, so that a name
can be contended and a list has two to visit; one port; one exchange that counts.

## BrokerElection

One process runs `elect` once; a restarted client is another instance.  `Exit` is an
exit or a crash at any point.  `system` is the operating system, chosen at the start.

Unix: the path names the socket that was bound to it last; `listening` are the processes
with an open listener.  bind and listen are two steps, as in the operating system, and
connect is refused in between.  The file outlives its process.  The unlink of a stale file
may fail, which is ignored, and a bind may fail for any reason, all of which are taken for a
lost race.  A handshake is answered or breaks.

Windows: a process makes the first instance of the pipe, or finds that there is one and
tries to open it (`OpenPipe`), in up to 40 attempts of which the model has the last
(`NoPipe`).  An instance takes one client, and until the owner has made the next one
(`busy`, `NextInstance`) nobody else gets in.  An instance exists as long as either end
of it is open (`conn`): after the owner is gone the pipe lingers until its clients have
noticed (`PipeCloses`), and a process that starts then finds a pipe nobody serves.

Two history variables say when the election may go wrong: `faulty` when an accept of, or
an attachment to, a live owner fails, or an unlink or a bind for another reason than a
socket that is there; `raced` when, on Unix, a process starts during
another's election, and when, on Windows, an owner goes during an election or has gone
and its pipe is still there.  Without either, all processes share one registry
(`OneRegistry`) and a live owner can be reached (`OwnerReachable`); on Windows that
includes any number of simultaneous starts.  With them what remains is `ForwardsToOwner`,
that calls take one hop to a process that was elected, and `ElectionEnds`.  Without the
restriction to what is not `raced` the README's claim fails: the counterexample of
`split_brain` is two simultaneous starts on Unix, that of `BrokerAlone.cfg` a process on
Windows whose owner goes during its election and which then stays alone for ever, beside
whoever starts next.

Fairness: a process goes on with its own election.  A handshake with an owner has no
deadline in the code; that a live owner answers or the connection breaks is assumed for
`ElectionEnds` only.  Bounds: three processes, an owner and two that compete for its place.

## ConsoleSession

The device is any device that answers each input with some text, perhaps a rejection, and
then waits: at its prompt, a user name or password challenge, or a pager.  What it answers
is on the `wire` until the session has read it: a read gets any beginning of that, or
passes its deadline first, so output arrives in pieces of any size at any time.  `Read` is
one turn of read_until_prompt's loop: a chunk, the output cap, then the last line
(`Verdict`); what follows from the verdict is `Reply` and the stage it leads to.  A batch
is run_commands; each command of it has its number and its entry in `results`.  `Backup`
and `DiagnosisOk` are what switch_tools.rs makes of an outcome.  Prompt matching is
abstracted to the kind of the token the buffer ends with; `[confirm]` and `[yes/no]`,
which no call answers, behave as a challenge the call does not expect.  ANSI codes and the
echo of the command are left out, and so is output that a device writes unasked after its
greeting (a log line): it would break `InStep` at once, and the code has no means against
it but the drain.

The last line is judged as far as it has come (mod.rs:384-396), so a chunk that ends in
"enable secret 5 $" or "<admin>" ends the command.  A line with such a beginning is two
tokens, the beginning, a *sham* of what it looks like, and the rest; a buffer that ends with
a sham is not told from one that ends with the real thing.  What beginnings of lines look
like is the constant `Looks`.

`late` says that something was cut short or misread before (a timeout, an error, a
truncation, a sham that was replied to or ended the command, an expect_send whose reply
nobody reads, a batch that went on although a command did not end at the prompt).  Until
then, after each call nothing is left over and the device waits where the outcome says
(`InStep`), and no password, user name, pager space or next command of a batch is taken for
something else (`RepliesFit`).  A call that began in step (`sure`, which a sham that is
replied to takes back) returns what the device answered, its pages stitched, or the beginning
of it if it was cut short or misled (`OutputIsAnswer`).  A backup or a diagnosis is refused
only if the answer has a rejection, and one that is not refused has missed a rejection only
by a read that was cut short or misled (`RejectionsSeen`).  Always: results come for every
command in order (`BatchAccounted`), and each call ends (`CallsEnd`; its deadlines bound each
page, the page cap their number).  Once `late` the code gives no guarantee, since its drain
is one read of one chunk (mod.rs:204).

Three claims of the documentation do not hold.  `PromptedIsWhole` (mod.rs:98 and 338): what
ended at the prompt is the whole answer; `ConsolePrompted.cfg` has a line that begins like a
prompt.  Nothing in the outcome shows it: a capture that was cut so is saved as a backup and
reported ok (switch_tools.rs:128).  `OutputCapped` (mod.rs:19): the cap is on the output of
a command; `ConsoleCapped.cfg` has pages that add up beyond it.  `ExpectAnswers`
(switch-management/SKILL.md:244), of expect_send after a sub-prompt: in run `expect_answers`
run_command has read the prompt that expect_send goes on to wait for.

Bounds: two calls or commands, so that the second meets what the first left; one page before
the page cap and an output cap of two tokens, so that both caps are reached; one token of
text before the device waits.  In `console` lines may begin like a prompt, which ends
whatever call reads it so; the proofs are for any `Looks`, so that a line may also look like
a pager or a challenge, which the code replies to.  Fairness: the session's task runs on;
the device owes nothing.

## TelnetNegotiation

The client is IacParser byte by byte, with `EndChunk` at any point: reads cut the stream
anywhere, data and replies leave the transport when a chunk ends, the parser's state stays.
The peer writes well-formed telnet and negotiates by RFC 854: one bit for each side of
an option, requests only for changes, an acknowledgement when it likes, and a change or a
refusal when it hears one.  The client keeps no bit: it answers everything.

`DataIntact`: the caller gets the peer's data, every byte and no other.  `ViewsAgree`: when
nothing is under way both ends hold the same options enabled.  `NegotiationSettles`: it
comes to that, unless the peer takes a request back before it was answered (`hasty`), which
RFC 1143 warns of.  Fairness: calls go on reading, and the peer reads what it is sent.
Bounds: two requests and two other things the peer sends, two options, of which the
client enables one.

## AuthLadder

One login: ssh_connect's list of credentials (`Resolve`; the supplied key file comes before
those of the client config), then authenticate with its early returns: the password, each
file (missing, unusable or offered), each identity of the agent (without a key, not signed
with, or offered).  A server may accept, ask for a second factor, refuse, or hang up; after
`MaxTries` refusals it does.  The rungs' outcomes are `fate`, the error's entries `tried`.

`SuppliedOffered`: the configured keys and the agent's do not use up the server's patience
before what the caller supplied was offered.  `ErrorAccounts`: the error mentions whatever
was offered or unusable.  Two claims of the documentation do not hold: that the supplied key
overrides the alias's files (`SuppliedOverrides`, ssh_tools.rs:51; `AuthOverrides.cfg` has
a login with a file of the alias), and that the agent's identities are offered
(`AgentOffered`, README.md:136; in `AuthAgent.cfg` one that the agent does not sign with
ends the login before the next, ssh_config.rs:301).  Bounds: a supplied and two configured
files, two identities, two refusals, so that the supplied credentials and the limit meet.

## KnownHosts

check_server_key for concurrent connections of any number of processes.  known_hosts is a
sequence of fragments, because writeln! on a File writes "host:port", the space, the key
and the newline one by one: each write is atomic (append mode), the line is not.  `Pin` is
how the code reads the file: the first line, trimmed and split at its first space, that
names the host.  A write may fail (the code ignores that), a process may die between two
writes, and a host may get another key.  A file that cannot be read counts as one without a
pin (state.rs:70): the connection learns the host again and accepts its key (`unread`).

As long as hosts are learned one at a time and no learning breaks off (`Orderly`), a key
accepted by a connection that could read the file is the pinned one, then and for ever,
whatever those that could not have appended (`AcceptedIsPinned`), and a host that has kept
its key is not refused (`NotRefusedInVain`).  The claims of state.rs:11 and 12 do not hold:
run `first_key_recorded` has two lines that mix, and in `KnownHostsUnread.cfg` a failed read
accepts another key than the recorded one (`MismatchRefused`).  Bounds: three connections,
two hosts, two keys that can be compared and one that cannot be encoded, one change of a
key; connections, hosts and keys are symmetric.

## ServerOps

A call's `plan` is the sequence of commands and SFTP transfers its tool makes, and it
holds its connection's mutex from the first to the last.  The pool's mutex is never held
across an await, so a pool operation is one step.  ssh_connect overwrites an id and
ssh_disconnect drops it; the connection goes when no call has it either.  A remote command
(`remote`) runs on its own: it may end with exit status zero or nonzero or be killed,
before or after its channel is gone.  `ExecTimeout` is the deadline; the SIGTERM it sends
may be ignored, as the code's comment says.  `LinkBreaks` is the network.

`OneCallPerConnection`, `StepsDoNotOverlap` (a call does not start a step beside its own
timed out command; a deployment does go on after a backup that was skipped or has failed,
ubuntu_tools.rs:378), `CallsReturn`.  The health check is exempt from the second: its
probes only read, and go on after a failure (health_tools.rs:48).  `ZeroMeansSuccess` is
vps-management/SKILL.md:33, which the run `exit_code_zero` refutes.  Fairness: a call polls;
its deadline passes.  Opening a channel and transfers have no deadline (state.rs:164), so
`CallsReturn` assumes that servers answer those.

Bounds: two tasks, one id, two connections (one in the pool, one that was replaced while
a call still has it), plans of up to three commands, of two for a health check.

## ServerFiles

What the command lines of vps_nginx_config (write, enable, disable), the restart of nginx
and vps_cron (add, remove) do to the server, part by part: the upload to one temporary file
for each site, cp, rm; the link, `nginx -t`, the reload; crontab's read and write as the
two ends of a pipeline.  Calls take turns on a connection (what ServerOps shows); two
connections, or a command that has timed out and goes on, let the parts interleave.  A
timed out command may be killed between two parts, in the middle of a copy, or only at the
reading end of its pipeline, whose other end then takes the beginning for the whole table.
A channel may end without an exit status, by the loss of the link or of the remote shell
(`ChannelEnds`; `lost` remembers it): the call then reports success, exit code 0, while its
command goes on, or is dead (state.rs:169).  A removal takes every entry that contains its
pattern (`drops`), and crontab may refuse a table.
A configuration is known by its author and by whether nginx accepts it; what is truncated
or mixed is `Partial`.

`OkMeansDone`: a reported success has done everything, unless another call was at work on the
same files or the channel ended without an exit status.  `EntriesKept`: a cron entry is lost
only by a remove whose pattern it contains, such an overlap, a timeout or such an end.
`BrokenIsAccounted`: when all is quiet, a configuration that nginx would not load is there
only if somebody was told of a failure or a timeout, calls overlapped, somebody wrote a bad
text, or a channel ended without an exit status (enable leaves its link behind when the test
fails, service_tools.rs:145).  Without the last of these it is `BrokenIsTold`, what
vps-management/SKILL.md:12 relies on, and `ServerFilesTold.cfg` refutes it: the link is made,
the channel ends, and the call reports exit code 0.

Bounds: two calls on one or two connections, two sites, one old cron entry; all of them
symmetric.  Three calls are out of TLC's reach; the proofs cover any number.

## Runs

| run | checks | result |
|---|---|---|
| `registry` | the registry's invariants, that it implements SessionDirectory, that calls return | 439 thousand states |
| `broker` | one registry unless raced or faulty, one hop, elections end | 10 thousand states |
| `console` | session and device in step; outputs, results, rejections; calls end | 763 thousand states |
| `server_ops` | calls on connections that come and go | 233 thousand states |
| `telnet` | data intact, both ends agree, negotiation ends | 137 thousand states |
| `known_hosts` | accepted keys are pinned, no host refused in vain | 2404 thousand states |
| `auth` | the supplied ones in time, the error complete | 17 thousand states |
| `server_files` | successes done, entries kept, broken configurations accounted for | 768 thousand states |
| `split_brain` | README.md:149 and 154, the broker's promise | violated: a live owner's socket is unlinked |
| `exit_code_zero` | SKILL.md:33 "Check exit_code == 0 for success" | violated: no exit status reads as 0 |
| `first_key_recorded` | state.rs:11 "the first key seen for a host is recorded" | violated: lines mix, the pin is no key |
| `expect_answers` | SKILL.md:244, expect_send after a sub-prompt | violated: the prompt has been read already |

Beside the runs there are configurations for further claims of the documentation that the
code does not keep.  `tlc -config <cfg>.cfg <module>` prints the counterexample.

| cfg, module | claim | counterexample |
|---|---|---|
| `SessionClosed`, `SessionRegistry` | `ClosedIsSilent`, session_tools.rs:200: disconnect closes a session | a serial one is used on (serial.rs:91) |
| `BrokerAlone`, `BrokerElection` | `PipeElectsCorrectly`, README.md:154, on Windows | who lost its owner stays alone (broker.rs:92) |
| `ConsolePrompted`, `ConsoleSession` | `PromptedIsWhole`, mod.rs:98 and 338: a matched prompt is the device's | a chunk ends within a line like one (mod.rs:390) |
| `ConsoleCapped`, `ConsoleSession` | `OutputCapped`, mod.rs:19: the cap on a command's output | it counts page by page (mod.rs:370) |
| `KnownHostsUnread`, `KnownHosts` | `MismatchRefused`, state.rs:12: any later mismatch refuses the connection | an unreadable file has no pins (state.rs:70) |
| `ServerFilesTold`, `ServerFiles` | `BrokenIsTold`, SKILL.md:12: use the exit code to decide success | a broken site, exit code 0 (state.rs:169) |
| `AuthOverrides`, `AuthLadder` | `SuppliedOverrides`, ssh_tools.rs:51: the key overrides the alias's | those are offered too (ssh_tools.rs:142) |
| `AuthAgent`, `AuthLadder` | `AgentOffered`, README.md:136: the agent's identities are offered | one not signed with ends it (ssh_config.rs:301) |

Deadlock is checked for the registry and for server operations.  Elsewhere the system may
stop: all processes dead, all calls made, the login over, the peer silent.

Every property of a passing run has a faulty variant of the code in its module ("Faulty
variant") that violates it.

## Proofs

`SessionRegistryProofs` proves every safety property of `registry`, for any sets of
tasks, names, sessions and ports.  None is inductive alone.  `IInv` adds what they lean
on: which labels go with a handle (`Hands`), that an open session is registered or on its
way (`OpenAccounted`: why a session is never dropped before it is closed), who owns which
lock (`LocksHeld`), and what list() has seen (`ListProgress`).  Its step is proved in four
lemmas, one for each group of conjuncts (`WellFormed`, `Ownership`, `OpenAccounted`,
`Locking`), each with one step for every action; that locks exclude follows from one fact,
that a queue has one head.  `NamesNotStolen` and `RegistryImplementsDirectory` follow from
`IInv` action by action: every step is a step of SessionDirectory or leaves its variables
alone.  TLC checked `IInv` as an invariant before it was proved.

`BrokerElectionProofs` proves `TypeOK`, `OneRegistry`, `OwnerReachable` and
`ServingSocketKept` for any set of processes.  The invariant `Calm` (of states neither raced
nor faulty) says that an election past its probe has found no owner, that on Unix there is
one election at a time, and that on Windows no connection outlives an owner while there is
an election, so that who cannot make the first instance has an owner to go to.
`ForwardsToOwner` needs none of that.

`ServerOpsProofs` proves `OneCallPerConnection`, `StepsDoNotOverlap` and `AbandonedIsError`
for any number of calls, ids and connections and plans of any length for the health check.
Its `IInv` says that who has something under way owns the connection's mutex (`WorkersOwn`),
that the pool and the calls keep their connections in existence (`Pooled`, `InHand`), and
that a call goes on beside a command of its own only when its connection is lost
(`LostOnly`), so that its next step cannot start.  The ends of a step are four lemmas
(`ReturnKeeps`, `NextStepKeeps`, `StepDoneKeeps`, `StepFailsKeeps`), which the actions cite.

`ConsoleSessionProofs` proves every safety property of `console`, for any number of calls,
pages and lines of text, any output cap, and whatever the lines look like.  Its `IInv` adds
two things to the types.  `Control`: where a call can be, and that a batch has the results of
the commands before this one.  `Flow`: a call that began in step has one input
on its way to a device that waits for just that, or one answer on its way back, of which it
has read the beginning (`InFlight`), and an answer is lines of text that end where the device
then really waits, with shams only among them (`EndsAt`).  From that the verdict on what has
been read is the right one, or the buffer ends with a sham (`ReadCases` and the lemmas about a
read); the reply to it fits, and a call that ends leaves nothing behind.
`RejectionsAreSeen` is about the beginnings of sequences: who has no rejection in the whole
has none in a part.

`TelnetNegotiationProofs` proves that nothing but the suppression of Go-Ahead is ever enabled
(`OnlySga`, by way of `Modest`: no reply under way says yes to anything else), and `DataIntact`
and `ViewsAgree`, for any bounds.  Both of these are about the bytes under way, which the
parser has yet to read: `Reads` says that there is a run of the parser over them which
delivers the data that is missing and asks the client for certain options, and ends between
two sequences; a run is a sequence of states, not a recursion, so that it can be extended at
its end when the peer sends and shortened at its front when the client reads a byte.
`Foreseen` has the data come out right; for the options, a side that neither a request nor
an answer under way is about is agreed on (`Settled`), and the last answer about a side says
what the client holds of it (`LastWord`).

`AuthLadderProofs` proves every property of `auth`, `ReportsWhatWorked` and `InOrder` for any
number of files and identities.  `Progress` says which rungs have had their turn at each
stage; `Patience` that nothing but the password is refused before the supplied key file is
offered, which is the first of the files; `Mentioned` that the error's entries keep up with
what became of the rungs.

`KnownHostsProofs` proves `AcceptedIsPinned` and `NotRefusedInVain` for any number of
connections, hosts and keys and a file of any length.  The file is a book (`Book`): a line of
four fragments for each time a host was learned, the last of which may be unfinished, with
exactly the rest of it in the hands of its writer (`Writes`).  `PinRead` says what the code's
way of reading (line starts, trim, split, first match) makes of a book: a host's pin is the key
on its first line (`FirstLine`), once the key is there; the lines of connections that could not
read the file come after it and are not looked at.  `Kept` says what the connections have done
to the book: an accepted key is on the host's first line (`Listed`), and the first line of a
host that has kept its key has that key.
Only who has order can keep the book: the invariant is conditional on `Orderly`, which no
step restores.

`ServerFilesProofs` proves every property of `server_files` for any number of calls,
connections and sites.  Its `FilesInv` adds where a job can be (`StepFits`), that calls which
met know of each other (`MeetingsKnown`), and that a table about to be written back is the
present one with the edit applied, unless somebody interfered (`TableFresh`).  `Intact` says
what a call nobody disturbs has done so far, part by part (`Carried`), which gives
`OkMeansDone`; `BreakMended` that a linked site whose file is not in order has a call that is
about to put it in order or to be told, unless somebody is to blame already (`Excuse`, which
no step takes back).

Assumptions on constants: `None`, `Old` and the like are none of the other values; bounds are
natural numbers, `MaxProbes` is positive and `MaxTries` at least two.

Only model-checked: the liveness properties (`CallReturns`, `ElectionEnds`, `CallsEnd`,
`CallsReturn`, `NegotiationSettles`), since fairness is out of the prover's reach.  Every
invariant and action property of a passing run is proved.  The invariants that the proofs
add were checked by TLC on the runs' instances first, but for the part of
`TelnetNegotiation`'s that quantifies over streams (`Foreseen`).

## Not modelled

- auto_baud, whose choice is a matter of what bytes look like; the escaping of 255 in what
  telnet writes, which UTF-8 text never contains; replies of the parser whose write fails
  (ignored, and the stream is lost then anyway).
- Matching of prompts and the cleaning of output, beyond what ends where; a multi-byte
  character that two reads cut in half, which mod.rs:366 decodes as two errors;
  run_command_raw; the failure to write a backup's file.
- What shell command lines do to a server but for nginx's sites and the cron table: it
  belongs to the programs they call.  Actions that only look (list, view, test).
- `ssh -G`, the parsing of its output, of the inventory and of the environment; the
  enumeration of serial ports; error values and JSON.  They keep no state.
- A platform with neither sockets nor pipes, where every process is its own owner.

## Plan

An abstract specification of a console session (a question, its answer, in turns) that
`ConsoleSession` implements while it is in step, and one of the host book for `KnownHosts`,
with their refinements proved.
