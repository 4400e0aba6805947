------------------------------ MODULE AuthLadder ------------------------------
(***************************************************************************)
(* How one SSH login is authenticated (ssh_tools.rs ssh_connect and        *)
(* ssh_config.rs authenticate): the credentials are offered one after the  *)
(* other, the password, each identity file, each identity of the agent.    *)
(*                                                                         *)
(* A credential is known by its rung of the ladder.  Files come and go,    *)
(* keys may need another passphrase, the agent and the server may stop to  *)
(* answer, and a server that has refused MaxTries times hangs up.          *)
(***************************************************************************)
EXTENDS Naturals, FiniteSets

CONSTANTS
    MaxConfig,  \* bound: identity files the client config names
    MaxIds,     \* bound: identities the agent holds
    MaxTries    \* refusals the server puts up with

ASSUME BoundsAssumption ==
    /\ MaxConfig \in Nat /\ MaxIds \in Nat
    /\ MaxTries \in Nat /\ MaxTries >= 2

VARIABLES
    stage,      \* what the call is doing
    i,          \* the file or identity it is at
    password,   \* is a password supplied?
    useAgent,   \* useAgent
    explicit,   \* is a key file supplied?
    files,      \* identity files there are, the supplied one included
    keyAt,      \* where the supplied one is among them, 0 if there is none
    ids,        \* identities the agent has listed
    fate,       \* what became of each rung
    tried,      \* the entries of the error message
    used,       \* the rung the call reports, NoRung if it failed
    refusals,   \* the server's count
    lost        \* is the connection gone?

supplied == <<password, useAgent, explicit>>
serverVars == <<refusals, lost>>
vars == <<stage, i, supplied, files, keyAt, ids, fate, tried, used, serverVars>>

Password   == <<"password", 1>>
File(k)    == <<"file", k>>
Identity(k) == <<"agent", k>>
Agent      == <<"agent", 0>>
NoRung     == <<"none", 0>>
Rungs == {Password} \cup {File(k) : k \in 1..(MaxConfig + 1)}
                    \cup {Identity(k) : k \in 1..MaxIds}

(* The rungs of this ladder, as far as they are known.                     *)
Ladder ==
    {r \in Rungs : \/ r = Password /\ password
                   \/ r[1] = "file" /\ r[2] <= files
                   \/ r[1] = "agent" /\ r[2] <= ids}

Rank(r) == CASE r[1] = "password" -> 0
             [] r[1] = "file"     -> r[2]
             [] r[1] = "agent"    -> MaxConfig + 1 + r[2]
             [] OTHER             -> 0

Offered  == {"accepted", "partial", "rejected", "error"}
Passed   == Offered \cup {"missing", "unusable", "keyless", "unsigned"}

TypeOK ==
    /\ stage \in {"lookup", "password", "file", "agent", "identity", "done", "nouser"}
    /\ i \in 1..(MaxConfig + MaxIds + 2)
    /\ password \in BOOLEAN /\ useAgent \in BOOLEAN /\ explicit \in BOOLEAN
    /\ files \in 0..(MaxConfig + 1) /\ ids \in 0..MaxIds
    /\ keyAt \in 0..(MaxConfig + 1)
    /\ fate \in [Rungs -> Passed \cup {"untried"}]
    /\ tried \subseteq Rungs \cup {Agent}
    /\ used \in Rungs \cup {NoRung}
    /\ refusals \in 0..MaxTries /\ lost \in BOOLEAN

Init ==
    /\ stage = "lookup" /\ i = 1
    /\ password \in BOOLEAN /\ useAgent \in BOOLEAN /\ explicit \in BOOLEAN
    /\ files = 0 /\ keyAt = 0 /\ ids = 0
    /\ fate = [r \in Rungs |-> "untried"] /\ tried = {} /\ used = NoRung
    /\ refusals = 0 /\ lost = FALSE

-----------------------------------------------------------------------------
(* ssh_connect                                                             *)

(* Faulty variant: the supplied key comes after the configured ones.       *)
ResolveLast(n) ==
    /\ stage = "lookup"
    /\ files' = n + (IF explicit THEN 1 ELSE 0)
    /\ keyAt' = IF explicit THEN n + 1 ELSE 0
    /\ stage' = "password"
    /\ UNCHANGED <<i, supplied, ids, fate, tried, used, serverVars>>

(* ssh -G names n identity files, none if it fails; the supplied key comes *)
(* before them.                                                            *)
Resolve(n) ==
    /\ stage = "lookup"
    /\ files' = n + (IF explicit THEN 1 ELSE 0)
    /\ keyAt' = IF explicit THEN 1 ELSE 0
    /\ stage' = "password"
    /\ UNCHANGED <<i, supplied, ids, fate, tried, used, serverVars>>

(* ssh -G failed, the environment has no account name and no user is given. *)
NoUsername ==
    /\ stage = "lookup"
    /\ stage' = "nouser"
    /\ UNCHANGED <<i, supplied, files, keyAt, ids, fate, tried, used, serverVars>>

-----------------------------------------------------------------------------
(* The server.                                                             *)

(* The answer to an offer.  A credential may be good for one of two        *)
(* factors only; a refusal too many and the server hangs up.               *)
Answer(answer) ==
    \/ lost /\ answer = "error" /\ UNCHANGED <<refusals, lost>>
    \/ ~lost /\ answer = "error" /\ lost' = TRUE /\ UNCHANGED refusals
    \/ ~lost /\ answer \in {"accepted", "partial"} /\ UNCHANGED <<refusals, lost>>
    \/ /\ ~lost /\ answer = "rejected"
       /\ refusals' = refusals + 1
       /\ lost' = (refusals' = MaxTries)

-----------------------------------------------------------------------------
(* authenticate                                                            *)

(* The rung has had its turn and the call goes on, or ends here.           *)
Turn(r, f, entry, s, j) ==
    /\ fate' = [fate EXCEPT ![r] = f]
    /\ tried' = tried \cup entry
    /\ IF f = "accepted" THEN used' = r /\ stage' = "done" /\ i' = i
       ELSE used' = used /\ stage' = s /\ i' = j
    /\ UNCHANGED <<supplied, files, keyAt, ids>>

Entry(f, e) == IF f = "accepted" THEN {} ELSE {e}

PasswordTurn(answer) ==
    /\ stage = "password" /\ password
    /\ Answer(answer)
    /\ Turn(Password, answer, Entry(answer, Password), "file", 1)

NoPassword ==
    /\ stage = "password" /\ ~password
    /\ stage' = "file"
    /\ UNCHANGED <<i, supplied, files, keyAt, ids, fate, tried, used, serverVars>>

(* Faulty variant: the search does not stop after the last file.           *)
FileMissingUnbounded ==
    /\ stage = "file"
    /\ Turn(File(i), "missing", {}, "file", i + 1)
    /\ UNCHANGED serverVars

(* A file that is not on disk is skipped and not mentioned.                *)
FileMissing ==
    /\ stage = "file" /\ i <= files
    /\ Turn(File(i), "missing", {}, "file", i + 1)
    /\ UNCHANGED serverVars

(* Not readable, of another format, or the passphrase does not open it.    *)
FileUnusable ==
    /\ stage = "file" /\ i <= files
    /\ Turn(File(i), "unusable", {File(i)}, "file", i + 1)
    /\ UNCHANGED serverVars

(* The key is offered; an RSA key with SHA-1 if best_rsa_hash gives up     *)
(* after five seconds, which the server's answer stands for.               *)
FileTurn(answer) ==
    /\ stage = "file" /\ i <= files
    /\ Answer(answer)
    /\ Turn(File(i), answer, Entry(answer, File(i)), "file", i + 1)

FilesDone ==
    /\ stage = "file" /\ i > files
    /\ stage' = "agent"
    /\ UNCHANGED <<i, supplied, files, keyAt, ids, fate, tried, used, serverVars>>

(* agent_auth: not wanted or not there, which is no error.                 *)
NoAgent ==
    /\ stage = "agent"
    /\ stage' = "done"
    /\ UNCHANGED <<i, supplied, files, keyAt, ids, fate, tried, used, serverVars>>

(* It does not list its identities, or has none.                           *)
AgentEmpty ==
    /\ stage = "agent" /\ useAgent
    /\ stage' = "done"
    /\ tried' = tried \cup {Agent}
    /\ UNCHANGED <<i, supplied, files, keyAt, ids, fate, used, serverVars>>

AgentLists(n) ==
    /\ stage = "agent" /\ useAgent
    /\ ids' = n /\ i' = 1
    /\ stage' = "identity"
    /\ UNCHANGED <<supplied, files, keyAt, fate, tried, used, serverVars>>

(* A certificate whose public key cannot be had is passed over.            *)
IdentityKeyless ==
    /\ stage = "identity" /\ i <= ids
    /\ Turn(Identity(i), "keyless", {}, "identity", i + 1)
    /\ UNCHANGED serverVars

(* The agent does not sign with it: nothing else of the agent's is tried.  *)
IdentityUnsigned ==
    /\ stage = "identity" /\ i <= ids
    /\ Turn(Identity(i), "unsigned", {Agent}, "done", i)
    /\ UNCHANGED serverVars

IdentityTurn(answer) ==
    /\ stage = "identity" /\ i <= ids
    /\ Answer(answer)
    /\ IF answer = "error" THEN Turn(Identity(i), answer, {Agent}, "done", i)
       ELSE Turn(Identity(i), answer, {}, "identity", i + 1)

(* Faulty variant: an agent without a usable identity is not mentioned.    *)
IdentitiesDoneSilent ==
    /\ stage = "identity" /\ i > ids
    /\ stage' = "done"
    /\ UNCHANGED <<i, supplied, files, keyAt, ids, fate, tried, used, serverVars>>

IdentitiesDone ==
    /\ stage = "identity" /\ i > ids
    /\ stage' = "done"
    /\ tried' = tried \cup {Agent}
    /\ UNCHANGED <<i, supplied, files, keyAt, ids, fate, used, serverVars>>

-----------------------------------------------------------------------------
Next ==
    \/ \E n \in 0..MaxConfig : Resolve(n)
    \/ NoUsername
    \/ \E answer \in Offered :
           PasswordTurn(answer) \/ FileTurn(answer) \/ IdentityTurn(answer)
    \/ NoPassword
    \/ FileMissing \/ FileUnusable \/ FilesDone
    \/ NoAgent \/ AgentEmpty \/ \E n \in 1..MaxIds : AgentLists(n)
    \/ IdentityKeyless \/ IdentityUnsigned \/ IdentitiesDone

Spec == Init /\ [][Next]_vars

-----------------------------------------------------------------------------
(* The call reports the one credential that the server let in with, and    *)
(* offers nothing any more (authenticate).                                 *)
ReportsWhatWorked ==
    \A r \in Rungs : fate[r] = "accepted" <=> used = r

(* A credential has its turn after all those before it: nothing is passed  *)
(* by, whatever became of the others.                                      *)
InOrder ==
    \A q, r \in Ladder :
        Rank(q) < Rank(r) /\ fate[r] # "untried" => fate[q] # "untried"

(* The server does not hang up for too many refusals before what the       *)
(* caller supplied has been offered, though the config names more keys.    *)
SuppliedOffered ==
    refusals = MaxTries =>
        /\ password => fate[Password] # "untried"
        /\ explicit => fate[File(keyAt)] # "untried"

(* The error accounts for every credential that was offered or could not   *)
(* be used; without an entry ("no credentials") nothing was.               *)
ErrorAccounts ==
    stage = "done" /\ used = NoRung =>
        \A r \in Rungs : fate[r] \in Passed \ {"missing"} =>
            (IF r[1] = "agent" THEN Agent ELSE r) \in tried

-----------------------------------------------------------------------------
(* What the documentation says and the code does not do.                   *)

(* ssh_tools.rs:51 the supplied key "Overrides the alias's IdentityFile":  *)
(* whoever supplies a key is not logged in with another file's.            *)
SuppliedOverrides ==
    explicit => \A k \in 1..files : fate[File(k)] \in Offered => k = keyAt

(* README.md:136 the identities held by the agent are offered after any    *)
(* password and key file: a login over a connection that still stands does *)
(* not fail before each that the agent listed has had its turn.            *)
AgentOffered ==
    stage = "done" /\ used = NoRung /\ ~lost =>
        \A k \in 1..ids : fate[Identity(k)] # "untried"

=============================================================================
