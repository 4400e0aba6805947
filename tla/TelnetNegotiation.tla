-------------------------- MODULE TelnetNegotiation ---------------------------
(***************************************************************************)
(* The telnet transport (transport/telnet.rs): data and option negotiation *)
(* share one stream, which the client's parser takes apart byte by byte.   *)
(* Reads cut the stream into chunks of any size; what a chunk delivers and *)
(* what it replies leave the transport when the chunk ends.                *)
(*                                                                         *)
(* The peer writes well-formed telnet.  About options it goes by RFC 854   *)
(* alone: it keeps one bit for each side of an option, asks only for       *)
(* changes, acknowledges them if it likes, and refuses what it does not    *)
(* want.  The client keeps no bit at all: it answers everything.           *)
(***************************************************************************)
EXTENDS Naturals, Sequences, SequencesExt

CONSTANTS
    MaxAsks,    \* bound: requests the peer makes of its own accord
    MaxSent     \* bound: pieces of data, subnegotiations and commands it sends

ASSUME BoundsAssumption == {MaxAsks, MaxSent} \subseteq Nat

Options == {"SGA", "ECHO"}
Verbs   == {"DO", "DONT", "WILL", "WONT"}
Bytes   == Options \cup Verbs \cup {"IAC", "SB", "SE", "NOP", "x"}
Msgs    == Verbs \X Bytes

VARIABLES
    toClient,   \* bytes on their way to the client
    toPeer,     \* replies on their way to the peer
    parser,     \* IacParser's state: its name, and the verb it has seen
    data_out,   \* what the chunk being read has delivered so far
    replies,    \* what it has to reply so far
    got,        \* what the chunks before have delivered
    on,         \* what the peer holds enabled: "client"'s side, its "own" side
    asks,       \* requests it has made of its own accord
    sent,       \* other things it has sent
    payload,    \* history: the data it has sent
    unanswered, \* history: negotiations it has sent and not seen answered
    said,       \* history: what the client has last agreed to or refused
    hasty       \* history: has the peer asked while an answer was under way?

client  == <<parser, data_out, replies, got, said>>
peer    == <<on, asks, sent, payload, unanswered, hasty>>
vars    == <<toClient, toPeer, client, peer>>

Sides   == {"client", "own"}

TypeOK ==
    /\ toClient \in Seq(Bytes) /\ toPeer \in Seq(Msgs)
    /\ parser.state \in {"Data", "Iac", "Negotiate", "Subneg", "SubnegIac"}
    /\ parser.state = "Negotiate" => parser.cmd \in Verbs
    /\ data_out \in Seq(Bytes) /\ got \in Seq(Bytes) /\ payload \in Seq(Bytes)
    /\ replies \in Seq(Msgs) /\ unanswered \in Seq(Msgs)
    /\ on \in [Sides -> [Options -> BOOLEAN]]
    /\ said \in [Sides -> [Options -> BOOLEAN]]
    /\ asks \in 0..MaxAsks /\ sent \in 0..MaxSent
    /\ hasty \in BOOLEAN

In(s) == [state |-> s]

Init ==
    /\ toClient = <<>> /\ toPeer = <<>>
    /\ parser = In("Data") /\ data_out = <<>> /\ replies = <<>> /\ got = <<>>
    /\ on = [s \in Sides |-> [o \in Options |-> FALSE]]
    /\ asks = 0 /\ sent = 0
    /\ payload = <<>> /\ unanswered = <<>>
    /\ said = [s \in Sides |-> [o \in Options |-> FALSE]]
    /\ hasty = FALSE

(* The side of an option that a message of the peer's is about, and one of *)
(* the client's; the messages that say yes.                                *)
SideAsked(verb) == IF verb \in {"DO", "DONT"} THEN "client" ELSE "own"
SideTold(verb)  == IF verb \in {"WILL", "WONT"} THEN "client" ELSE "own"
Yes             == {"DO", "WILL"}

-----------------------------------------------------------------------------
(* The client.                                                             *)

(* Faulty variant: an order to disable is obeyed without a word.           *)
ResponseSilent(cmd, opt) ==
    CASE cmd = "DO"   -> IF opt = "SGA" THEN "WILL" ELSE "WONT"
      [] cmd = "WILL" -> IF opt = "SGA" THEN "DO" ELSE "DONT"
      [] OTHER        -> "none"

(* Faulty variant: an order to disable is answered with an offer.          *)
ResponseContested(cmd, opt) ==
    CASE cmd = "DO"   -> IF opt = "SGA" THEN "WILL" ELSE "WONT"
      [] cmd = "DONT" -> IF opt = "SGA" THEN "WILL" ELSE "WONT"
      [] cmd = "WILL" -> IF opt = "SGA" THEN "DO" ELSE "DONT"
      [] cmd = "WONT" -> "DONT"

(* reply_negotiation                                                       *)
Response(cmd, opt) ==
    CASE cmd = "DO"   -> IF opt = "SGA" THEN "WILL" ELSE "WONT"
      [] cmd = "DONT" -> "WONT"
      [] cmd = "WILL" -> IF opt = "SGA" THEN "DO" ELSE "DONT"
      [] cmd = "WONT" -> "DONT"

(* The parser goes on to state p and delivers d; the chunk goes on.        *)
Step(p, d) ==
    /\ toClient' = Tail(toClient)
    /\ parser' = p
    /\ data_out' = data_out \o d
    /\ UNCHANGED <<toPeer, got, peer>>

InData ==
    /\ toClient # <<>> /\ parser.state = "Data"
    /\ IF Head(toClient) = "IAC" THEN Step(In("Iac"), <<>>)
       ELSE Step(In("Data"), <<Head(toClient)>>)
    /\ UNCHANGED <<replies, said>>

(* Faulty variant: a subnegotiation is taken for one more verb.            *)
InIacLoose ==
    LET b == Head(toClient) IN
    /\ toClient # <<>> /\ parser.state = "Iac"
    /\ CASE b = "IAC"    -> Step(In("Data"), <<"IAC">>)
         [] b \in Verbs \cup {"SB"} ->
                Step([state |-> "Negotiate", cmd |-> b], <<>>)
         [] OTHER        -> Step(In("Data"), <<>>)
    /\ UNCHANGED <<replies, said>>

InIac ==
    LET b == Head(toClient) IN
    /\ toClient # <<>> /\ parser.state = "Iac"
    /\ CASE b = "IAC"    -> Step(In("Data"), <<"IAC">>)
         [] b \in Verbs  -> Step([state |-> "Negotiate", cmd |-> b], <<>>)
         [] b = "SB"     -> Step(In("Subneg"), <<>>)
         [] OTHER        -> Step(In("Data"), <<>>)
    /\ UNCHANGED <<replies, said>>

InNegotiate ==
    /\ toClient # <<>> /\ parser.state = "Negotiate"
    /\ Step(In("Data"), <<>>)
    /\ LET opt == Head(toClient)
           verb == Response(parser.cmd, opt)
       IN IF verb = "none" THEN UNCHANGED <<replies, said>>
          ELSE /\ replies' = Append(replies, <<verb, opt>>)
               /\ said' = [said EXCEPT ![SideTold(verb)][opt] = verb \in Yes]

(* Faulty variant: an escaped 255 ends a subnegotiation.                   *)
InSubnegLoose ==
    /\ toClient # <<>>
    /\ \/ /\ parser.state = "Subneg"
          /\ Step(In(IF Head(toClient) = "IAC" THEN "SubnegIac" ELSE "Subneg"), <<>>)
       \/ /\ parser.state = "SubnegIac"
          /\ Step(In("Data"), <<>>)
    /\ UNCHANGED <<replies, said>>

InSubneg ==
    /\ toClient # <<>>
    /\ \/ /\ parser.state = "Subneg"
          /\ Step(In(IF Head(toClient) = "IAC" THEN "SubnegIac" ELSE "Subneg"), <<>>)
       \/ /\ parser.state = "SubnegIac"
          /\ Step(In(IF Head(toClient) = "SE" THEN "Data" ELSE "Subneg"), <<>>)
    /\ UNCHANGED <<replies, said>>

(* Faulty variant: every chunk is parsed from the start state.             *)
EndChunkForgetting ==
    /\ got' = got \o data_out /\ data_out' = <<>>
    /\ toPeer' = toPeer \o replies /\ replies' = <<>>
    /\ parser' = In("Data")
    /\ UNCHANGED <<toClient, said, peer>>

(* The chunk ends here, in the middle of a message perhaps: its replies    *)
(* are written and its data goes to the caller.  The parser's state stays. *)
EndChunk ==
    /\ got' = got \o data_out /\ data_out' = <<>>
    /\ toPeer' = toPeer \o replies /\ replies' = <<>>
    /\ UNCHANGED <<toClient, parser, said, peer>>

process == InData \/ InIac \/ InNegotiate \/ InSubneg

-----------------------------------------------------------------------------
(* The peer.                                                               *)

Transmit(bytes) == toClient' = toClient \o bytes

(* Data, 255 doubled; a subnegotiation with an escaped 255 and a bare 240  *)
(* in it; a command without an operand.                                    *)
PeerSends(bytes, data) ==
    /\ sent < MaxSent
    /\ sent' = sent + 1
    /\ Transmit(bytes)
    /\ payload' = payload \o data
    /\ UNCHANGED <<toPeer, client, on, asks, unanswered, hasty>>

PeerSpeaks ==
    \/ PeerSends(<<"x">>, <<"x">>)
    \/ PeerSends(<<"IAC", "IAC">>, <<"IAC">>)
    \/ PeerSends(<<"IAC", "SB", "ECHO">> \o <<"IAC", "IAC", "SE">> \o <<"IAC", "SE">>,
                 <<>>)
    \/ PeerSends(<<"IAC", "NOP">>, <<>>)

Outstanding(side, opt) ==
    \E k \in DOMAIN unanswered :
        SideAsked(unanswered[k][1]) = side /\ unanswered[k][2] = opt

(* It asks for a change; to disable takes effect at once.  To take back or *)
(* to repeat a request before it is answered is hasty.                     *)
PeerAsks(verb, opt) ==
    LET side == SideAsked(verb) IN
    /\ asks < MaxAsks
    /\ on[side][opt] # (verb \in Yes) \/ Outstanding(side, opt)
    /\ asks' = asks + 1
    /\ Transmit(<<"IAC", verb, opt>>)
    /\ unanswered' = Append(unanswered, <<verb, opt>>)
    /\ on' = [on EXCEPT ![side][opt] = @ /\ verb \in Yes]
    /\ hasty' = (hasty \/ Outstanding(side, opt))
    /\ UNCHANGED <<toPeer, client, sent, payload>>

(* The verb with which the peer says yes or no about a side.               *)
Verb(side, yes) ==
    CASE side = "client" -> IF yes THEN "DO" ELSE "DONT"
      [] side = "own"    -> IF yes THEN "WILL" ELSE "WONT"

(* It hears an answer.  What is so already is ignored; a change is made    *)
(* and perhaps acknowledged; an offer may be refused instead.              *)
PeerHears(yes, reply) ==
    /\ toPeer # <<>>
    /\ toPeer' = Tail(toPeer)
    /\ LET side == SideTold(Head(toPeer)[1])
           opt  == Head(toPeer)[2]
           told == Head(toPeer)[1] \in Yes
           left == IF unanswered = <<>> THEN <<>> ELSE Tail(unanswered)
           verb == Verb(side, yes)
       IN /\ yes => told
          /\ IF told = on[side][opt]
             THEN yes = told /\ reply = FALSE
             ELSE (yes # told) => reply
          /\ on' = [on EXCEPT ![side][opt] = yes]
          /\ unanswered' = IF reply THEN Append(left, <<verb, opt>>) ELSE left
          /\ IF reply THEN Transmit(<<"IAC", verb, opt>>)
             ELSE UNCHANGED toClient
    /\ UNCHANGED <<client, asks, sent, payload, hasty>>

-----------------------------------------------------------------------------
Hears == \E yes, reply \in BOOLEAN : PeerHears(yes, reply)

Next ==
    \/ process
    \/ EndChunk
    \/ Hears
    \/ PeerSpeaks
    \/ \E verb \in Verbs, opt \in Options : PeerAsks(verb, opt)

Spec == Init /\ [][Next]_vars

(* Calls on the session keep reading, and the peer reads what it is sent.  *)
FairSpec == Spec /\ WF_vars(process) /\ WF_vars(EndChunk) /\ WF_vars(Hears)

-----------------------------------------------------------------------------
(* The caller gets the data the peer sent, every byte of it and no other,  *)
(* however negotiation is mixed into it and wherever the reads cut the     *)
(* stream (IacParser::process).                                            *)
DataIntact ==
    /\ IsPrefix(got \o data_out, payload)
    /\ toClient = <<>> => got \o data_out = payload /\ parser = In("Data")

(* Nothing but the suppression of Go-Ahead is ever enabled in either       *)
(* direction, in the eyes of either end (OPT_SGA).                         *)
OnlySga ==
    \A s \in Sides, o \in Options : on[s][o] \/ said[s][o] => o = "SGA"

Quiet == toClient = <<>> /\ toPeer = <<>> /\ replies = <<>>

(* When nothing is under way both ends hold the same options enabled, each *)
(* side of them (reply_negotiation).                                       *)
ViewsAgree == Quiet => on = said

(* And the exchange comes to that: although every refusal is answered by a *)
(* refusal, a peer that answers changes only, and waits for its answers,   *)
(* is not kept busy for ever (read_chunk writes the replies).              *)
NegotiationSettles == <>[](Quiet \/ hasty)

=============================================================================
