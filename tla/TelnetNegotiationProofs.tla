----------------------- MODULE TelnetNegotiationProofs ------------------------
(***************************************************************************)
(* Whatever the peer sends and however the stream is cut, the client never *)
(* promises an option but Suppress-Go-Ahead, nor accepts another one; it   *)
(* delivers the peer's data and no other byte; and when nothing is under   *)
(* way both ends hold the same options.                                    *)
(***************************************************************************)
EXTENDS TelnetNegotiation, SequenceTheorems, TLAPS

(* Only Suppress-Go-Ahead is said yes to.                                  *)
Modest(msgs) == \A k \in DOMAIN msgs : msgs[k][1] \in Yes => msgs[k][2] = "SGA"

SgaInv == TypeOK /\ OnlySga /\ Modest(toPeer) /\ Modest(replies)

(* What is taken from a stream, or put on it, is still one.                *)
LEMMA TailSeq ==
    ASSUME NEW S, NEW s \in Seq(S), s # <<>>
    PROVE  /\ Head(s) \in S /\ Tail(s) \in Seq(S)
           /\ 1 \in DOMAIN s /\ Head(s) = s[1]
           /\ \A k \in DOMAIN Tail(s) : k + 1 \in DOMAIN s /\ Tail(s)[k] = s[k + 1]
OBVIOUS

(* Two modest sequences of answers make one.                               *)
LEMMA ModestConcat ==
    ASSUME NEW s \in Seq(Msgs), NEW t \in Seq(Msgs), Modest(s), Modest(t)
    PROVE  s \o t \in Seq(Msgs) /\ Modest(s \o t)
BY DEF Modest

(* The answer to a negotiation is one of the four verbs, and a yes only    *)
(* about Suppress-Go-Ahead.                                                *)
LEMMA ResponseModest ==
    ASSUME NEW cmd \in Verbs, NEW opt
    PROVE  /\ Response(cmd, opt) \in Verbs
           /\ Response(cmd, opt) \in Yes => opt = "SGA"
BY DEF Response, Verbs, Yes

(* A parser state is known by its name.                                    *)
LEMMA StateName == \A s : In(s).state = s
BY DEF In

(* The initial state satisfies the invariant.                              *)
LEMMA SgaInit == Init => SgaInv
<1> SUFFICES ASSUME Init PROVE SgaInv
  OBVIOUS
<1>1. parser.state = "Data"
  BY StateName DEF Init
<1>2. /\ on \in [Sides -> [Options -> BOOLEAN]]
      /\ said \in [Sides -> [Options -> BOOLEAN]]
  BY DEF Init
<1>3. OnlySga /\ Modest(toPeer) /\ Modest(replies)
  BY DEF Init, OnlySga, Modest
<1>4. /\ toClient = <<>> /\ toPeer = <<>> /\ data_out = <<>> /\ got = <<>>
      /\ replies = <<>> /\ payload = <<>> /\ unanswered = <<>>
      /\ asks = 0 /\ sent = 0
  BY DEF Init
<1>6. hasty \in BOOLEAN
  BY ZenonT(30) DEF Init
<1>5. MaxAsks \in Nat /\ MaxSent \in Nat
  BY BoundsAssumption
<1>q. QED
  <2>1. TypeOK
    BY <1>1, <1>2, <1>4, <1>5, <1>6 DEF TypeOK
  <2>q. QED
    BY <1>3, <2>1 DEF SgaInv

(* A byte that is no negotiation: the parser goes on to a state it knows,  *)
(* and says nothing.                                                       *)
LEMMA ByteTaken ==
    ASSUME SgaInv, toClient # <<>>, UNCHANGED <<replies, said>>,
           NEW d \in Seq(Bytes), Step(parser', d),
           parser'.state \in {"Data", "Iac", "Negotiate", "Subneg", "SubnegIac"},
           parser'.state = "Negotiate" => parser'.cmd \in Verbs
    PROVE  SgaInv'
<1>1. Tail(toClient) \in Seq(Bytes)
  BY TailSeq DEF SgaInv, TypeOK
<1>2. TypeOK'
  BY <1>1 DEF SgaInv, TypeOK, Step, peer
<1>3. OnlySga' /\ Modest(toPeer)' /\ Modest(replies)'
  BY DEF SgaInv, OnlySga, Modest, Step, peer
<1>q. QED
  BY <1>2, <1>3 DEF SgaInv

(* In particular a state that is only a name.                              *)
LEMMA ByteNamed ==
    ASSUME SgaInv, toClient # <<>>, UNCHANGED <<replies, said>>,
           NEW d \in Seq(Bytes),
           NEW q \in {"Data", "Iac", "Subneg", "SubnegIac"}, Step(In(q), d)
    PROVE  SgaInv'
<1>1. parser' = In(q)
  BY DEF Step
<1>2. parser'.state = q
  BY <1>1, StateName
<1>3. Step(parser', d)
  BY <1>1
<1>q. QED
  BY <1>2, <1>3, ByteTaken

(* Every step of either end preserves it.                                  *)
LEMMA SgaStep == SgaInv /\ [Next]_vars => SgaInv'
<1> SUFFICES ASSUME SgaInv, [Next]_vars PROVE SgaInv'
  OBVIOUS
<1>1. ASSUME InData PROVE SgaInv'
  <2> DEFINE b == Head(toClient)
  <2>0. toClient # <<>> /\ UNCHANGED <<replies, said>> /\ b \in Bytes
    BY <1>1, TailSeq DEF InData, SgaInv, TypeOK
  <2>1. CASE b = "IAC"
    <3>1. Step(In("Iac"), <<>>) /\ <<>> \in Seq(Bytes)
      BY <1>1, <2>1 DEF InData
    <3>q. QED
      BY <2>0, <3>1, ByteNamed
  <2>2. CASE b # "IAC"
    <3>1. Step(In("Data"), <<b>>) /\ <<b>> \in Seq(Bytes)
      BY <1>1, <2>0, <2>2 DEF InData
    <3>q. QED
      BY <2>0, <3>1, ByteNamed
  <2>q. QED
    BY <2>1, <2>2
<1>2. ASSUME InIac PROVE SgaInv'
  <2> DEFINE b == Head(toClient)
  <2>0. toClient # <<>> /\ UNCHANGED <<replies, said>> /\ <<>> \in Seq(Bytes)
    BY <1>2 DEF InIac
  <2>1. CASE b = "IAC"
    <3>1. Step(In("Data"), <<"IAC">>)
      BY <1>2, <2>1 DEF InIac, Verbs
    <3>2. <<"IAC">> \in Seq(Bytes)
      BY DEF Bytes
    <3>q. QED
      BY <2>0, <3>1, <3>2, ByteNamed
  <2>2. CASE b \in Verbs
    <3>1. Step([state |-> "Negotiate", cmd |-> b], <<>>)
      BY <1>2, <2>2 DEF InIac, Verbs
    <3>2. parser' = [state |-> "Negotiate", cmd |-> b]
      BY <3>1 DEF Step
    <3>3. parser'.state = "Negotiate" /\ parser'.cmd \in Verbs
      BY <2>2, <3>2
    <3>4. Step(parser', <<>>)
      BY <3>1, <3>2
    <3>q. QED
      BY <2>0, <3>3, <3>4, ByteTaken
  <2>3. CASE b = "SB"
    <3>1. Step(In("Subneg"), <<>>)
      BY <1>2, <2>3 DEF InIac, Verbs
    <3>q. QED
      BY <2>0, <3>1, ByteNamed
  <2>4. CASE b # "IAC" /\ b \notin Verbs /\ b # "SB"
    <3>1. Step(In("Data"), <<>>)
      BY <1>2, <2>4 DEF InIac
    <3>q. QED
      BY <2>0, <3>1, ByteNamed
  <2>q. QED
    BY <2>1, <2>2, <2>3, <2>4
<1> USE DEF SgaInv, TypeOK, OnlySga
<1>3. ASSUME InNegotiate PROVE SgaInv'
  <2> DEFINE opt  == Head(toClient)
             verb == Response(parser.cmd, opt)
  <2>1. opt \in Bytes /\ Tail(toClient) \in Seq(Bytes) /\ parser.cmd \in Verbs
    BY <1>3, TailSeq DEF InNegotiate
  <2>2. verb \in Verbs /\ (verb \in Yes => opt = "SGA")
    BY <2>1, ResponseModest
  <2>3. /\ Step(In("Data"), <<>>)
        /\ replies' = Append(replies, <<verb, opt>>)
        /\ said' = [said EXCEPT ![SideTold(verb)][opt] = verb \in Yes]
    BY <1>3, <2>2 DEF InNegotiate, Verbs
  <2> HIDE DEF opt, verb
  <2>4. replies' \in Seq(Msgs) /\ Modest(replies')
    BY <2>1, <2>2, <2>3 DEF Modest, Msgs
  <2>5. said' \in [Sides -> [Options -> BOOLEAN]]
    <3>1. (verb \in Yes) \in BOOLEAN
      OBVIOUS
    <3>q. QED
      BY <2>3, <3>1, ZenonT(30)
  <2>6. \A s \in Sides, o \in Options : said'[s][o] => o = "SGA"
    BY <2>2, <2>3
  <2>7. parser'.state = "Data" /\ data_out' \in Seq(Bytes)
    BY <2>3, StateName DEF Step
  <2>q. QED
    BY <2>1, <2>3, <2>4, <2>5, <2>6, <2>7 DEF Step, peer
<1>4. ASSUME InSubneg PROVE SgaInv'
  <2>1. PICK q \in {"Data", "Subneg", "SubnegIac"} : Step(In(q), <<>>)
    BY <1>4 DEF InSubneg
  <2>2. /\ toClient # <<>> /\ UNCHANGED <<replies, said>>
        /\ <<>> \in Seq(Bytes) /\ q \in {"Data", "Iac", "Subneg", "SubnegIac"}
    BY <1>4 DEF InSubneg
  <2> HIDE DEF SgaInv, TypeOK, OnlySga
  <2>q. QED
    BY <2>1, <2>2, ByteNamed
<1>5. ASSUME EndChunk PROVE SgaInv'
  <2>1. toPeer' \in Seq(Msgs) /\ Modest(toPeer')
    BY <1>5, ModestConcat DEF EndChunk
  <2>2. replies' \in Seq(Msgs) /\ Modest(replies')
    BY <1>5 DEF EndChunk, Modest
  <2>q. QED
    BY <1>5, <2>1, <2>2 DEF EndChunk, peer
<1>6. ASSUME NEW yes \in BOOLEAN, NEW reply \in BOOLEAN, PeerHears(yes, reply)
      PROVE  SgaInv'
  <2> DEFINE h    == Head(toPeer)
             o    == h[2]
             side == SideTold(h[1])
             verb == Verb(side, yes)
             left == IF unanswered = <<>> THEN <<>> ELSE Tail(unanswered)
  <2>1. /\ h \in Msgs /\ Tail(toPeer) \in Seq(Msgs) /\ Modest(Tail(toPeer))
        /\ h[1] \in Yes => o = "SGA"
    BY <1>6, TailSeq DEF PeerHears, Modest
  <2>2. /\ toPeer' = Tail(toPeer)
        /\ yes => h[1] \in Yes
        /\ on' = [on EXCEPT ![side][o] = yes]
        /\ unanswered' = IF reply THEN Append(left, <<verb, o>>) ELSE left
        /\ toClient' = IF reply THEN toClient \o <<"IAC", verb, o>>
                       ELSE toClient
        /\ UNCHANGED <<client, asks, sent, payload, hasty>>
    BY <1>6 DEF PeerHears, Transmit
  <2>3. left \in Seq(Msgs)
    BY TailSeq
  <2>4. side \in Sides /\ verb \in Verbs /\ verb \in Bytes /\ o \in Bytes
    BY <2>1 DEF SideTold, Sides, Verb, Verbs, Bytes, Msgs
  <2> HIDE DEF h, o, side, verb, left
  <2>5. unanswered' \in Seq(Msgs) /\ toClient' \in Seq(Bytes)
    <3>1. /\ <<verb, o>> \in Msgs /\ Append(left, <<verb, o>>) \in Seq(Msgs)
          /\ <<"IAC", verb, o>> \in Seq(Bytes)
      BY <2>3, <2>4 DEF Msgs, Bytes
    <3>2. toClient \o <<"IAC", verb, o>> \in Seq(Bytes)
      BY <3>1
    <3>q. QED
      BY <2>2, <2>3, <3>1, <3>2
  <2>6. /\ on' \in [Sides -> [Options -> BOOLEAN]]
        /\ \A s \in Sides, p \in Options : on'[s][p] => p = "SGA"
    BY <2>1, <2>2
  <2>q. QED
    BY <2>1, <2>2, <2>5, <2>6 DEF client
<1>7. ASSUME PeerSpeaks PROVE SgaInv'
  <2>1. PICK bytes \in Seq(Bytes), data \in Seq(Bytes) : PeerSends(bytes, data)
    <3>1. /\ <<"x">> \in Seq(Bytes) /\ <<"IAC">> \in Seq(Bytes)
          /\ <<"IAC", "IAC">> \in Seq(Bytes) /\ <<"IAC", "NOP">> \in Seq(Bytes)
          /\ <<>> \in Seq(Bytes)
      BY DEF Bytes
    <3>2. /\ <<"IAC", "SB", "ECHO">> \in Seq(Bytes)
          /\ <<"IAC", "IAC", "SE">> \in Seq(Bytes) /\ <<"IAC", "SE">> \in Seq(Bytes)
      BY DEF Bytes, Options
    <3>3. <<"IAC", "SB", "ECHO">> \o <<"IAC", "IAC", "SE">> \o <<"IAC", "SE">>
              \in Seq(Bytes)
      BY <3>2, ConcatProperties
    <3>q. QED
      BY <1>7, <3>1, <3>3 DEF PeerSpeaks
  <2>q. QED
    BY SMTT(60), <2>1, BoundsAssumption DEF PeerSends, Transmit, client
<1>8. ASSUME NEW verb \in Verbs, NEW opt \in Options, PeerAsks(verb, opt)
      PROVE  SgaInv'
  <2> DEFINE side == SideAsked(verb)
  <2>1. /\ on' = [on EXCEPT ![side][opt] = @ /\ verb \in Yes]
        /\ UNCHANGED <<toPeer, client, sent, payload>>
        /\ asks < MaxAsks /\ asks' = asks + 1
        /\ unanswered' = Append(unanswered, <<verb, opt>>)
        /\ toClient' = toClient \o <<"IAC", verb, opt>>
        /\ hasty' = (hasty \/ Outstanding(side, opt))
    BY <1>8 DEF PeerAsks, Transmit
  <2>2. hasty' \in BOOLEAN
    BY <2>1, ZenonT(30)
  <2>3. /\ on' \in [Sides -> [Options -> BOOLEAN]]
        /\ \A s \in Sides, o \in Options : on'[s][o] => o = "SGA"
    BY <2>1
  <2>4. <<verb, opt>> \in Msgs /\ <<"IAC", verb, opt>> \in Seq(Bytes)
    BY DEF Msgs, Bytes
  <2>5. unanswered' \in Seq(Msgs) /\ toClient' \in Seq(Bytes)
    BY <2>1, <2>4
  <2>q. QED
    BY SMTT(60), <2>1, <2>2, <2>3, <2>5, BoundsAssumption DEF client
<1>9. CASE UNCHANGED vars
  BY <1>9 DEF vars, client, peer
<1>q. QED
  BY <1>1, <1>2, <1>3, <1>4, <1>5, <1>6, <1>7, <1>8, <1>9
  DEF Next, process, Hears

(* The transport's state is always one the parser knows.                   *)
THEOREM TelnetTypes == Spec => []TypeOK
<1>1. SgaInv => TypeOK
  BY DEF SgaInv
<1>q. QED
  BY SgaInit, SgaStep, <1>1, PTL DEF Spec

(* No other option is ever enabled.                                        *)
THEOREM OnlySgaEnabled == Spec => []OnlySga
<1>1. SgaInv => OnlySga
  BY DEF SgaInv
<1>q. QED
  BY SgaInit, SgaStep, <1>1, PTL DEF Spec

-----------------------------------------------------------------------------
(* What the client will make of the bytes that are under way.  One byte    *)
(* takes the parser from a state to the next; it delivers data, or it      *)
(* completes a negotiation.                                                *)
Parsers == [state : {"Data", "Iac", "Subneg", "SubnegIac"}]
           \cup [state : {"Negotiate"}, cmd : Verbs]

Goes(p, b) ==
    CASE p.state = "Data"      -> In(IF b = "IAC" THEN "Iac" ELSE "Data")
      [] p.state = "Iac"       -> IF b \in Verbs THEN [state |-> "Negotiate", cmd |-> b]
                                  ELSE In(IF b = "SB" THEN "Subneg" ELSE "Data")
      [] p.state = "Negotiate" -> In("Data")
      [] p.state = "Subneg"    -> In(IF b = "IAC" THEN "SubnegIac" ELSE "Subneg")
      [] p.state = "SubnegIac" -> In(IF b = "SE" THEN "Data" ELSE "Subneg")

Delivers(p, b) ==
    IF \/ p.state = "Data" /\ b # "IAC"
       \/ p.state = "Iac" /\ b = "IAC"
    THEN <<b>> ELSE <<>>

Completes(p, b) == IF p.state = "Negotiate" THEN << <<p.cmd, b>> >> ELSE <<>>

(* In state st[k] the parser has the bytes from the k-th on before it, with *)
(* da[k] to be delivered and ne[k] to be negotiated.                       *)
Run(q, st, da, ne) ==
    LET n == Len(q) IN
    /\ st \in [1..(n + 1) -> Parsers]
    /\ da \in [1..(n + 1) -> Seq(Bytes)] /\ ne \in [1..(n + 1) -> Seq(Msgs)]
    /\ da[n + 1] = <<>> /\ ne[n + 1] = <<>>
    /\ \A k \in 1..n : /\ st[k + 1] = Goes(st[k], q[k])
                       /\ da[k] = Delivers(st[k], q[k]) \o da[k + 1]
                       /\ ne[k] = Completes(st[k], q[k]) \o ne[k + 1]

(* The bytes q take the parser from p to e, deliver d and negotiate m.     *)
Reads(q, p, e, d, m) ==
    \E st \in [1..(Len(q) + 1) -> Parsers],
       da \in [1..(Len(q) + 1) -> Seq(Bytes)],
       ne \in [1..(Len(q) + 1) -> Seq(Msgs)] :
        /\ Run(q, st, da, ne)
        /\ st[1] = p /\ st[Len(q) + 1] = e
        /\ da[1] = d /\ ne[1] = m

(* One byte takes a parser to a parser.                                    *)
LEMMA ByteTyped ==
    ASSUME NEW p \in Parsers, NEW b \in Bytes
    PROVE  /\ Goes(p, b) \in Parsers
           /\ Delivers(p, b) \in Seq(Bytes) /\ Completes(p, b) \in Seq(Msgs)
<1>1. Goes(p, b) \in Parsers
  <2>1. \A s \in {"Data", "Iac", "Subneg", "SubnegIac"} : In(s) \in Parsers
    BY DEF In, Parsers
  <2>2. \A v \in Verbs : [state |-> "Negotiate", cmd |-> v] \in Parsers
    BY DEF Parsers
  <2>3. p.state \in {"Data", "Iac", "Negotiate", "Subneg", "SubnegIac"}
    BY DEF Parsers
  <2>q. QED
    BY <2>1, <2>2, <2>3 DEF Goes
<1>2. Delivers(p, b) \in Seq(Bytes)
  BY DEF Delivers
<1>3. Completes(p, b) \in Seq(Msgs)
  <2>1. p.state = "Negotiate" => p.cmd \in Verbs
    BY DEF Parsers
  <2>2. p.state = "Negotiate" => <<p.cmd, b>> \in Msgs
    BY <2>1 DEF Msgs
  <2>q. QED
    BY <2>2 DEF Completes
<1>q. QED
  BY <1>1, <1>2, <1>3

(* Nothing under way: the parser stays where it is.                        *)
LEMMA ReadsNone ==
    ASSUME NEW p \in Parsers, NEW e, NEW d, NEW m
    PROVE  /\ Reads(<<>>, p, p, <<>>, <<>>)
           /\ Reads(<<>>, p, e, d, m) => e = p /\ d = <<>> /\ m = <<>>
<1>1. Len(<<>>) = 0
  OBVIOUS
<1>2. Reads(<<>>, p, e, d, m) => e = p /\ d = <<>> /\ m = <<>>
  BY <1>1 DEF Reads, Run
<1>3. Reads(<<>>, p, p, <<>>, <<>>)
  <2> DEFINE st == [k \in 1..1 |-> p]
             da == [k \in 1..1 |-> <<>>]
  <2>1. /\ st \in [1..(0 + 1) -> Parsers] /\ da \in [1..(0 + 1) -> Seq(Bytes)]
        /\ da \in [1..(0 + 1) -> Seq(Msgs)]
        /\ st[0 + 1] = p /\ st[1] = p /\ da[0 + 1] = <<>> /\ da[1] = <<>>
    OBVIOUS
  <2>2. \A k \in 1..0 : FALSE
    OBVIOUS
  <2> HIDE DEF st, da
  <2>q. QED
    BY <1>1, <2>1, <2>2 DEF Reads, Run
<1>q. QED
  BY <1>2, <1>3

(* The client takes the first byte, and has the others before it.          *)
TailReads(q, p, e, d, m) ==
    \E r \in Seq(Bytes), n \in Seq(Msgs) :
        /\ d = Delivers(p, Head(q)) \o r
        /\ m = Completes(p, Head(q)) \o n
        /\ Reads(Tail(q), Goes(p, Head(q)), e, r, n)

(* Once the first byte is read, the run goes on with the others.           *)
LEMMA ReadsTail ==
    ASSUME NEW q \in Seq(Bytes), q # <<>>, NEW p \in Parsers, NEW e, NEW d, NEW m,
           Reads(q, p, e, d, m)
    PROVE  TailReads(q, p, e, d, m)
<1> DEFINE l == Len(q) - 1
<1>1. /\ Tail(q) \in Seq(Bytes) /\ Len(Tail(q)) = l /\ Len(q) = l + 1
      /\ l \in Nat /\ Head(q) = q[1]
      /\ \A k \in 1..l : Tail(q)[k] = q[k + 1]
  BY HeadTailProperties, LenProperties, EmptySeq
<1>2. PICK st \in [1..(Len(q) + 1) -> Parsers],
           da \in [1..(Len(q) + 1) -> Seq(Bytes)],
           ne \in [1..(Len(q) + 1) -> Seq(Msgs)] :
        /\ Run(q, st, da, ne)
        /\ st[1] = p /\ st[Len(q) + 1] = e
        /\ da[1] = d /\ ne[1] = m
  BY DEF Reads
<1> DEFINE st2 == [k \in 1..(l + 1) |-> st[k + 1]]
           da2 == [k \in 1..(l + 1) |-> da[k + 1]]
           ne2 == [k \in 1..(l + 1) |-> ne[k + 1]]
<1> HIDE DEF l
<1>3. /\ st2 \in [1..(l + 1) -> Parsers] /\ da2 \in [1..(l + 1) -> Seq(Bytes)]
      /\ ne2 \in [1..(l + 1) -> Seq(Msgs)]
      /\ \A k \in 1..(l + 1) :
             st2[k] = st[k + 1] /\ da2[k] = da[k + 1] /\ ne2[k] = ne[k + 1]
  BY <1>1, <1>2
<1> HIDE DEF st2, da2, ne2
<1>4. /\ da[l + 2] = <<>> /\ ne[l + 2] = <<>> /\ st[l + 2] = e
      /\ \A k \in 1..(l + 1) : /\ st[k + 1] = Goes(st[k], q[k])
                               /\ da[k] = Delivers(st[k], q[k]) \o da[k + 1]
                               /\ ne[k] = Completes(st[k], q[k]) \o ne[k + 1]
  <2>1. Run(q, st, da, ne) /\ st[Len(q) + 1] = e
    BY <1>2
  <2>2. Len(q) + 1 = l + 2 /\ Len(q) = l + 1
    BY <1>1
  <2>3. /\ da[Len(q) + 1] = <<>> /\ ne[Len(q) + 1] = <<>>
        /\ \A k \in 1..Len(q) : /\ st[k + 1] = Goes(st[k], q[k])
                                /\ da[k] = Delivers(st[k], q[k]) \o da[k + 1]
                                /\ ne[k] = Completes(st[k], q[k]) \o ne[k + 1]
    BY <2>1 DEF Run
  <2>q. QED
    BY <2>1, <2>2, <2>3
<1>5. ASSUME NEW k \in 1..l
      PROVE  /\ st2[k + 1] = Goes(st2[k], Tail(q)[k])
             /\ da2[k] = Delivers(st2[k], Tail(q)[k]) \o da2[k + 1]
             /\ ne2[k] = Completes(st2[k], Tail(q)[k]) \o ne2[k + 1]
  <2>1. k \in 1..(l + 1) /\ k + 1 \in 1..(l + 1)
    BY <1>1
  <2>q. QED
    BY ZenonT(60), <1>1, <1>3, <1>4, <2>1
<1>6. 1 \in 1..(l + 1) /\ l + 1 \in 1..(l + 1) /\ (l + 1) + 1 = l + 2 /\ 1 + 1 = 2
  BY <1>1
<1>7. Run(Tail(q), st2, da2, ne2)
  BY ZenonT(60), <1>1, <1>3, <1>4, <1>5, <1>6 DEF Run
<1>8. /\ st2[1] = Goes(p, Head(q)) /\ st2[l + 1] = e
      /\ d = Delivers(p, Head(q)) \o da2[1]
      /\ m = Completes(p, Head(q)) \o ne2[1]
  BY ZenonT(60), <1>1, <1>2, <1>3, <1>4, <1>6
<1>9. Reads(Tail(q), Goes(p, Head(q)), e, da2[1], ne2[1])
  BY <1>1, <1>3, <1>7, <1>8 DEF Reads
<1>10. da2[1] \in Seq(Bytes) /\ ne2[1] \in Seq(Msgs)
  BY <1>3, <1>6
<1>q. QED
  BY <1>8, <1>9, <1>10 DEF TailReads

(* Sequences are put together in any order.                                *)
LEMMA RegroupBytes ==
    \A s, t, u \in Seq(Bytes) : (s \o t) \o u = s \o (t \o u)
BY ConcatAssociative

(* The same for messages.                                                  *)
LEMMA RegroupMsgs ==
    \A s, t, u \in Seq(Msgs) : (s \o t) \o u = s \o (t \o u)
BY ConcatAssociative

(* The peer sends one byte more.                                           *)
LEMMA ReadsAppend ==
    ASSUME NEW q \in Seq(Bytes), NEW b \in Bytes, NEW p \in Parsers,
           NEW e \in Parsers, NEW d \in Seq(Bytes), NEW m \in Seq(Msgs),
           Reads(q, p, e, d, m)
    PROVE  Reads(Append(q, b), p, Goes(e, b),
                 d \o Delivers(e, b), m \o Completes(e, b))
<1> DEFINE l == Len(q)
           q2 == Append(q, b)
           x == Delivers(e, b)
           y == Completes(e, b)
<1>1. /\ q2 \in Seq(Bytes) /\ Len(q2) = l + 1 /\ l \in Nat /\ q2[l + 1] = b
      /\ \A k \in 1..l : q2[k] = q[k]
  BY AppendProperties, LenProperties
<1>2. PICK st \in [1..(Len(q) + 1) -> Parsers],
           da \in [1..(Len(q) + 1) -> Seq(Bytes)],
           ne \in [1..(Len(q) + 1) -> Seq(Msgs)] :
        /\ Run(q, st, da, ne)
        /\ st[1] = p /\ st[Len(q) + 1] = e
        /\ da[1] = d /\ ne[1] = m
  BY DEF Reads
<1>3. Goes(e, b) \in Parsers /\ x \in Seq(Bytes) /\ y \in Seq(Msgs)
  BY ByteTyped
<1>4. /\ da[l + 1] = <<>> /\ ne[l + 1] = <<>>
      /\ \A k \in 1..l : /\ st[k + 1] = Goes(st[k], q[k])
                         /\ da[k] = Delivers(st[k], q[k]) \o da[k + 1]
                         /\ ne[k] = Completes(st[k], q[k]) \o ne[k + 1]
  BY <1>2 DEF Run
<1> DEFINE st2 == [k \in 1..(l + 2) |-> IF k <= l + 1 THEN st[k] ELSE Goes(e, b)]
           da2 == [k \in 1..(l + 2) |-> IF k <= l + 1 THEN da[k] \o x ELSE <<>>]
           ne2 == [k \in 1..(l + 2) |-> IF k <= l + 1 THEN ne[k] \o y ELSE <<>>]
<1> HIDE DEF x, y
<1>5. /\ \A k \in 1..(l + 1) : da[k] \o x \in Seq(Bytes) /\ ne[k] \o y \in Seq(Msgs)
      /\ <<>> \in Seq(Bytes) /\ <<>> \in Seq(Msgs)
  BY <1>2, <1>3, ConcatProperties
<1> HIDE DEF l, q2
<1>6. /\ st2 \in [1..(l + 2) -> Parsers] /\ da2 \in [1..(l + 2) -> Seq(Bytes)]
      /\ ne2 \in [1..(l + 2) -> Seq(Msgs)]
      /\ \A k \in 1..(l + 1) :
             st2[k] = st[k] /\ da2[k] = da[k] \o x /\ ne2[k] = ne[k] \o y
      /\ st2[l + 2] = Goes(e, b) /\ da2[l + 2] = <<>> /\ ne2[l + 2] = <<>>
  <2>1. l + 2 \in 1..(l + 2) /\ ~(l + 2 <= l + 1)
    BY <1>1
  <2>2. \A k \in 1..(l + 2) : k <= l + 1 => k \in 1..(l + 1)
    BY <1>1
  <2>3. \A k \in 1..(l + 1) : k \in 1..(l + 2) /\ k <= l + 1
    BY <1>1
  <2>4. /\ st \in [1..(l + 1) -> Parsers]
    BY <1>2 DEF l
  <2>q. QED
    BY <1>3, <1>5, <2>1, <2>2, <2>3, <2>4
<1> HIDE DEF st2, da2, ne2
<1>7. ASSUME NEW k \in 1..(l + 1)
      PROVE  /\ st2[k + 1] = Goes(st2[k], q2[k])
             /\ da2[k] = Delivers(st2[k], q2[k]) \o da2[k + 1]
             /\ ne2[k] = Completes(st2[k], q2[k]) \o ne2[k + 1]
  <2>1. CASE k = l + 1
    <3>1. st2[k] = e /\ q2[k] = b /\ k + 1 = l + 2
      BY <1>1, <1>2, <1>6, <2>1 DEF l
    <3>2. da2[k] = <<>> \o x /\ ne2[k] = <<>> \o y
      BY <1>4, <1>6, <2>1
    <3>3. <<>> \o x = x \o <<>> /\ <<>> \o y = y \o <<>>
      BY <1>3, ConcatEmptySeq
    <3>q. QED
      BY <1>6, <3>1, <3>2, <3>3 DEF x, y
  <2>2. CASE k \in 1..l
    <3>1. k \in 1..(l + 1) /\ k + 1 \in 1..(l + 1) /\ q2[k] = q[k]
      BY <1>1, <2>2
    <3> DEFINE dk == Delivers(st[k], q[k])
               ck == Completes(st[k], q[k])
    <3>2. /\ dk \in Seq(Bytes) /\ ck \in Seq(Msgs)
          /\ da[k + 1] \in Seq(Bytes) /\ ne[k + 1] \in Seq(Msgs)
      <4>1. st[k] \in Parsers /\ da[k + 1] \in Seq(Bytes) /\ ne[k + 1] \in Seq(Msgs)
        BY <1>2, <3>1 DEF l
      <4>2. q[k] \in Bytes
        BY <2>2, ElementOfSeq DEF l
      <4>q. QED
        BY <4>1, <4>2, ByteTyped
    <3>3. st2[k] = st[k] /\ st2[k + 1] = Goes(st[k], q[k])
      BY <1>4, <1>6, <2>2, <3>1
    <3>4. /\ da2[k] = (dk \o da[k + 1]) \o x /\ da2[k + 1] = da[k + 1] \o x
          /\ ne2[k] = (ck \o ne[k + 1]) \o y /\ ne2[k + 1] = ne[k + 1] \o y
      BY <1>4, <1>6, <2>2, <3>1
    <3> HIDE DEF dk, ck
    <3>5. /\ (dk \o da[k + 1]) \o x = dk \o (da[k + 1] \o x)
          /\ (ck \o ne[k + 1]) \o y = ck \o (ne[k + 1] \o y)
      <4>1. x \in Seq(Bytes) /\ y \in Seq(Msgs)
        BY <1>3
      <4>2. (dk \o da[k + 1]) \o x = dk \o (da[k + 1] \o x)
        BY ZenonT(60), <3>2, <4>1, RegroupBytes
      <4>3. (ck \o ne[k + 1]) \o y = ck \o (ne[k + 1] \o y)
        BY <3>2, <4>1, RegroupMsgs
      <4>q. QED
        BY <4>2, <4>3
    <3>q. QED
      BY <3>1, <3>3, <3>4, <3>5 DEF dk, ck
  <2>3. k = l + 1 \/ k \in 1..l
    BY <1>1
  <2>q. QED
    BY <2>1, <2>2, <2>3
<1>8. (l + 1) + 1 = l + 2 /\ 1 \in 1..(l + 1)
  BY <1>1
<1>9. Run(q2, st2, da2, ne2)
  BY <1>1, <1>6, <1>7, <1>8 DEF Run
<1>10. st2[1] = p /\ da2[1] = d \o x /\ ne2[1] = m \o y
  BY <1>2, <1>6, <1>8
<1>11. /\ st2 \in [1..(Len(q2) + 1) -> Parsers] /\ st2[Len(q2) + 1] = Goes(e, b)
       /\ da2 \in [1..(Len(q2) + 1) -> Seq(Bytes)]
       /\ ne2 \in [1..(Len(q2) + 1) -> Seq(Msgs)]
  BY <1>1, <1>6, <1>8
<1>12. Reads(q2, p, Goes(e, b), d \o x, m \o y)
  BY <1>9, <1>10, <1>11 DEF Reads
<1>q. QED
  BY <1>12 DEF q2, x, y

(* A byte that delivers nothing and completes no negotiation.              *)
LEMMA ReadsQuiet ==
    ASSUME NEW q \in Seq(Bytes), NEW b \in Bytes, NEW p \in Parsers,
           NEW e \in Parsers, NEW d \in Seq(Bytes), NEW m \in Seq(Msgs),
           Reads(q, p, e, d, m), Delivers(e, b) = <<>>, Completes(e, b) = <<>>
    PROVE  Append(q, b) \in Seq(Bytes) /\ Reads(Append(q, b), p, Goes(e, b), d, m)
<1>1. d \o <<>> = d /\ m \o <<>> = m
  BY ConcatEmptySeq
<1>2. Append(q, b) \in Seq(Bytes)
  BY AppendProperties
<1>q. QED
  BY <1>1, <1>2, ReadsAppend

(* The bytes of what the peer sends, in the states they are read in.       *)
LEMMA ReadIn ==
    /\ \A s \in {"Data", "Iac", "Subneg", "SubnegIac"} :
           In(s) \in Parsers /\ \A b : Completes(In(s), b) = <<>>
    /\ Goes(In("Data"), "x") = In("Data") /\ Delivers(In("Data"), "x") = <<"x">>
    /\ Goes(In("Data"), "IAC") = In("Iac") /\ Delivers(In("Data"), "IAC") = <<>>
    /\ Goes(In("Iac"), "IAC") = In("Data") /\ Delivers(In("Iac"), "IAC") = <<"IAC">>
    /\ Goes(In("Iac"), "NOP") = In("Data") /\ Goes(In("Iac"), "SB") = In("Subneg")
    /\ \A b : b # "IAC" => Delivers(In("Iac"), b) = <<>>
    /\ \A b : Goes(In("Subneg"), b) = In(IF b = "IAC" THEN "SubnegIac" ELSE "Subneg")
    /\ \A b : Goes(In("SubnegIac"), b) = In(IF b = "SE" THEN "Data" ELSE "Subneg")
    /\ \A b : Delivers(In("Subneg"), b) = <<>> /\ Delivers(In("SubnegIac"), b) = <<>>
    /\ \A v \in Verbs :
           LET n == [state |-> "Negotiate", cmd |-> v] IN
           /\ n \in Parsers /\ Goes(In("Iac"), v) = n /\ Delivers(In("Iac"), v) = <<>>
           /\ \A b : /\ Goes(n, b) = In("Data") /\ Delivers(n, b) = <<>>
                     /\ Completes(n, b) = << <<v, b>> >>
<1>1. \A s \in {"Data", "Iac", "Subneg", "SubnegIac"} : In(s) \in Parsers
  BY DEF In, Parsers
<1>2. \A v \in Verbs : [state |-> "Negotiate", cmd |-> v] \in Parsers
  BY DEF Parsers
<1>3. "IAC" \notin Verbs /\ "NOP" \notin Verbs /\ "SB" \notin Verbs
  BY DEF Verbs
<1>q. QED
  BY <1>1, <1>2, <1>3, StateName DEF Goes, Delivers, Completes

(* After a whole message of the peer's the parser is at its start again,   *)
(* with what the message stands for delivered or to be negotiated.         *)
LEMMA MessagesRead ==
    ASSUME NEW q \in Seq(Bytes), NEW p \in Parsers,
           NEW d \in Seq(Bytes), NEW m \in Seq(Msgs),
           Reads(q, p, In("Data"), d, m)
    PROVE  /\ Reads(q \o <<"x">>, p, In("Data"), d \o <<"x">>, m)
           /\ Reads(q \o <<"IAC", "IAC">>, p, In("Data"), d \o <<"IAC">>, m)
           /\ Reads(q \o <<"IAC", "NOP">>, p, In("Data"), d, m)
           /\ Reads(q \o (<<"IAC", "SB", "ECHO">> \o <<"IAC", "IAC", "SE">>
                               \o <<"IAC", "SE">>), p, In("Data"), d, m)
           /\ \A v \in Verbs, o \in Bytes :
                  Reads(q \o <<"IAC", v, o>>, p, In("Data"), d, Append(m, <<v, o>>))
<1>0. /\ {"x", "IAC", "NOP", "SB", "SE", "ECHO"} \subseteq Bytes
      /\ Verbs \subseteq Bytes
      /\ In("Data") \in Parsers /\ In("Iac") \in Parsers
      /\ In("Subneg") \in Parsers /\ In("SubnegIac") \in Parsers
      /\ m \o <<>> = m /\ d \o <<>> = d
  BY ReadIn, ConcatEmptySeq DEF Bytes, Options
<1>1. Reads(q \o <<"x">>, p, In("Data"), d \o <<"x">>, m)
  <2>1. Reads(Append(q, "x"), p, In("Data"), d \o <<"x">>, m)
    <3>1. Reads(Append(q, "x"), p, Goes(In("Data"), "x"),
                d \o Delivers(In("Data"), "x"), m \o Completes(In("Data"), "x"))
      BY <1>0, ReadsAppend
    <3>q. QED
      BY <1>0, <3>1, ReadIn
  <2>2. q \o <<"x">> = Append(q, "x")
    OBVIOUS
  <2>q. QED
    BY <2>1, <2>2
<1> DEFINE q1 == Append(q, "IAC")
<1>2. q1 \in Seq(Bytes) /\ Reads(q1, p, In("Iac"), d, m)
  BY <1>0, ReadIn, ReadsQuiet
<1> HIDE DEF q1
<1>3. Reads(q \o <<"IAC", "IAC">>, p, In("Data"), d \o <<"IAC">>, m)
  <2>1. Reads(Append(q1, "IAC"), p, In("Data"), d \o <<"IAC">>, m)
    <3>1. Reads(Append(q1, "IAC"), p, Goes(In("Iac"), "IAC"),
                d \o Delivers(In("Iac"), "IAC"), m \o Completes(In("Iac"), "IAC"))
      BY <1>0, <1>2, ReadsAppend
    <3>q. QED
      BY <1>0, <3>1, ReadIn
  <2>2. q \o <<"IAC", "IAC">> = Append(q1, "IAC")
    BY DEF q1
  <2>q. QED
    BY <2>1, <2>2
<1>4. Reads(q \o <<"IAC", "NOP">>, p, In("Data"), d, m)
  <2>1. Reads(Append(q1, "NOP"), p, In("Data"), d, m)
    BY <1>0, <1>2, ReadIn, ReadsQuiet
  <2>2. q \o <<"IAC", "NOP">> = Append(q1, "NOP")
    BY DEF q1
  <2>q. QED
    BY <2>1, <2>2
<1>5. Reads(q \o (<<"IAC", "SB", "ECHO">> \o <<"IAC", "IAC", "SE">> \o <<"IAC", "SE">>),
            p, In("Data"), d, m)
  <2> DEFINE q2 == Append(q1, "SB")
             q3 == Append(q2, "ECHO")
             q4 == Append(q3, "IAC")
             q5 == Append(q4, "IAC")
             q6 == Append(q5, "SE")
             q7 == Append(q6, "IAC")
             q8 == Append(q7, "SE")
  <2>1. /\ Goes(In("Subneg"), "IAC") = In("SubnegIac")
        /\ Goes(In("Subneg"), "ECHO") = In("Subneg")
        /\ Goes(In("Subneg"), "SE") = In("Subneg")
        /\ Goes(In("SubnegIac"), "IAC") = In("Subneg")
        /\ Goes(In("SubnegIac"), "SE") = In("Data")
        /\ \A b : /\ Delivers(In("Subneg"), b) = <<>>
                  /\ Delivers(In("SubnegIac"), b) = <<>>
                  /\ Completes(In("Subneg"), b) = <<>>
                  /\ Completes(In("SubnegIac"), b) = <<>>
    BY ReadIn
  <2>2. q2 \in Seq(Bytes) /\ Reads(q2, p, In("Subneg"), d, m)
    BY SMTT(60), <1>0, <1>2, ReadIn, ReadsQuiet
  <2> HIDE DEF q2
  <2>3. q3 \in Seq(Bytes) /\ Reads(q3, p, In("Subneg"), d, m)
    BY SMTT(60), <1>0, <2>1, <2>2, ReadsQuiet
  <2> HIDE DEF q3
  <2>4. q4 \in Seq(Bytes) /\ Reads(q4, p, In("SubnegIac"), d, m)
    BY <1>0, <2>1, <2>3, ReadsQuiet
  <2> HIDE DEF q4
  <2>5. q5 \in Seq(Bytes) /\ Reads(q5, p, In("Subneg"), d, m)
    BY <1>0, <2>1, <2>4, ReadsQuiet
  <2> HIDE DEF q5
  <2>6. q6 \in Seq(Bytes) /\ Reads(q6, p, In("Subneg"), d, m)
    BY <1>0, <2>1, <2>5, ReadsQuiet
  <2> HIDE DEF q6
  <2>7. q7 \in Seq(Bytes) /\ Reads(q7, p, In("SubnegIac"), d, m)
    BY <1>0, <2>1, <2>6, ReadsQuiet
  <2> HIDE DEF q7
  <2>8. Reads(q8, p, In("Data"), d, m)
    <3>1. /\ In("SubnegIac") \in Parsers /\ "SE" \in Bytes
          /\ Goes(In("SubnegIac"), "SE") = In("Data")
          /\ Delivers(In("SubnegIac"), "SE") = <<>>
          /\ Completes(In("SubnegIac"), "SE") = <<>>
      BY <1>0, <2>1
    <3>q. QED
      BY <2>7, <3>1, ReadsQuiet
  <2>9. q8 = q \o (<<"IAC", "SB", "ECHO">> \o <<"IAC", "IAC", "SE">> \o <<"IAC", "SE">>)
    <3> DEFINE x == <<"IAC", "SB", "ECHO">>
               y == <<"IAC", "IAC", "SE">>
               z == <<"IAC", "SE">>
    <3>1. q3 = q \o x
      BY <1>0 DEF q1, q2, q3
    <3>2. q6 = q3 \o y
      BY <1>0, <2>3 DEF q4, q5, q6
    <3>3. q8 = q6 \o z
      BY SMTT(60), <1>0, <2>6 DEF q7
    <3>4. x \in Seq(Bytes) /\ y \in Seq(Bytes) /\ z \in Seq(Bytes)
      BY <1>0
    <3> HIDE DEF x, y, z, q8
    <3>5. x \o y \in Seq(Bytes)
      BY <3>4, ConcatProperties
    <3>6. (q \o x) \o y = q \o (x \o y)
      BY ZenonT(60), <3>4, RegroupBytes
    <3>7. (q \o (x \o y)) \o z = q \o ((x \o y) \o z)
      BY ZenonT(60), <3>4, <3>5, RegroupBytes
    <3>q. QED
      BY <3>1, <3>2, <3>3, <3>6, <3>7 DEF x, y, z
  <2>q. QED
    BY <2>8, <2>9
<1>6. ASSUME NEW v \in Verbs, NEW o \in Bytes
      PROVE  Reads(q \o <<"IAC", v, o>>, p, In("Data"), d, Append(m, <<v, o>>))
  <2> DEFINE n  == [state |-> "Negotiate", cmd |-> v]
             q2 == Append(q1, v)
  <2>1. /\ n \in Parsers /\ Goes(In("Iac"), v) = n /\ Delivers(In("Iac"), v) = <<>>
        /\ Goes(n, o) = In("Data") /\ Delivers(n, o) = <<>>
        /\ Completes(n, o) = << <<v, o>> >> /\ v \in Bytes
        /\ Completes(In("Iac"), v) = <<>>
    BY <1>0, ReadIn
  <2> HIDE DEF n
  <2>2. q2 \in Seq(Bytes) /\ Reads(q2, p, n, d, m)
    BY <1>0, <1>2, <2>1, ReadsQuiet
  <2> HIDE DEF q2
  <2>3. Reads(Append(q2, o), p, In("Data"), d, m \o << <<v, o>> >>)
    <3>1. Reads(Append(q2, o), p, Goes(n, o), d \o Delivers(n, o), m \o Completes(n, o))
      BY <2>1, <2>2, ReadsAppend
    <3>q. QED
      BY <1>0, <2>1, <3>1
  <2>4. m \o << <<v, o>> >> = Append(m, <<v, o>>)
    OBVIOUS
  <2>5. Append(q2, o) = q \o <<"IAC", v, o>>
    BY <1>0, <2>1 DEF q1, q2
  <2>q. QED
    BY <2>3, <2>4, <2>5
<1>q. QED
  BY <1>1, <1>3, <1>4, <1>5, <1>6

(* What the client does with a byte.                                       *)
LEMMA ByteRead ==
    ASSUME TypeOK, parser \in Parsers, process
    PROVE  LET b == Head(toClient)
               v == Response(parser.cmd, b)
           IN /\ toClient # <<>> /\ b \in Bytes /\ toClient' = Tail(toClient)
              /\ parser' = Goes(parser, b)
              /\ data_out' = data_out \o Delivers(parser, b)
              /\ UNCHANGED <<toPeer, got, peer>>
              /\ parser.state # "Negotiate" => UNCHANGED <<replies, said>>
              /\ parser.state = "Negotiate" =>
                     /\ parser.cmd \in Verbs /\ v \in Verbs
                     /\ SideTold(v) = SideAsked(parser.cmd)
                     /\ replies' = Append(replies, <<v, b>>)
                     /\ said' = [said EXCEPT ![SideTold(v)][b] = v \in Yes]
<1> DEFINE b == Head(toClient)
           v == Response(parser.cmd, b)
<1>0. toClient # <<>>
  BY DEF process, InData, InIac, InNegotiate, InSubneg
<1>1. b \in Bytes
  BY <1>0, TailSeq DEF TypeOK
<1>2. CASE InData
  <2>1. parser.state = "Data" /\ UNCHANGED <<replies, said>>
    BY <1>2 DEF InData
  <2>2. Step(Goes(parser, b), Delivers(parser, b))
    BY <1>2, <2>1 DEF InData, Goes, Delivers
  <2>q. QED
    BY <1>0, <1>1, <2>1, <2>2 DEF Step
<1>3. CASE InIac
  <2>1. parser.state = "Iac" /\ UNCHANGED <<replies, said>>
    BY <1>3 DEF InIac
  <2>2. Step(Goes(parser, b), Delivers(parser, b))
    BY <1>3, <2>1 DEF InIac, Goes, Delivers, Verbs
  <2>q. QED
    BY <1>0, <1>1, <2>1, <2>2 DEF Step
<1>4. CASE InSubneg
  <2>1. parser.state \in {"Subneg", "SubnegIac"} /\ UNCHANGED <<replies, said>>
    BY <1>4 DEF InSubneg
  <2>2. Step(Goes(parser, b), Delivers(parser, b))
    BY <1>4, <2>1 DEF InSubneg, Goes, Delivers
  <2>q. QED
    BY <1>0, <1>1, <2>1, <2>2 DEF Step
<1>5. CASE InNegotiate
  <2>1. parser.state = "Negotiate" /\ Step(In("Data"), <<>>)
    BY <1>5 DEF InNegotiate
  <2>2. parser.cmd \in Verbs
    BY <2>1 DEF TypeOK
  <2>3. v \in Verbs /\ SideTold(v) = SideAsked(parser.cmd)
    BY <2>2 DEF Response, Verbs, SideTold, SideAsked
  <2>4. /\ replies' = Append(replies, <<v, b>>)
        /\ said' = [said EXCEPT ![SideTold(v)][b] = v \in Yes]
    BY <1>5, <2>3 DEF InNegotiate, Verbs
  <2>5. Goes(parser, b) = In("Data") /\ Delivers(parser, b) = <<>>
    BY <2>1 DEF Goes, Delivers
  <2>q. QED
    BY <1>0, <1>1, <2>1, <2>2, <2>3, <2>4, <2>5 DEF Step
<1>q. QED
  BY <1>2, <1>3, <1>4, <1>5 DEF process

-----------------------------------------------------------------------------
(* Which side of which option a reply is about, and a negotiation.         *)
About(reply, s, o)   == SideTold(reply[1]) = s /\ reply[2] = o
Concerns(asked, s, o) == SideAsked(asked[1]) = s /\ asked[2] = o

(* The last of the answers under way about a side says what the client     *)
(* holds of it.                                                            *)
Answers == toPeer \o replies

LastWord(answers) ==
    \A s \in Sides, o \in Options, k \in DOMAIN answers :
        /\ About(answers[k], s, o)
        /\ \A j \in DOMAIN answers : j > k => ~About(answers[j], s, o)
        => said[s][o] = (answers[k][1] \in Yes)

(* A side about which nothing is under way is agreed on.                   *)
Settled(answers, m) ==
    \A s \in Sides, o \in Options :
        \/ \E k \in DOMAIN answers : About(answers[k], s, o)
        \/ \E k \in DOMAIN m : Concerns(m[k], s, o)
        \/ on[s][o] = said[s][o]

(* The bytes under way bring the parser back to its start; they deliver    *)
(* what is missing of the data, d, and the client will be asked m.         *)
Foreseen(d, m) ==
    /\ Reads(toClient, parser, In("Data"), d, m)
    /\ payload = (got \o data_out) \o d
    /\ Settled(Answers, m)

TelnetInv ==
    /\ SgaInv /\ parser \in Parsers
    /\ LastWord(Answers)
    /\ \E d \in Seq(Bytes), m \in Seq(Msgs) : Foreseen(d, m)

(* Nothing is under way at first.                                          *)
LEMMA TelnetInit == Init => TelnetInv
<1> SUFFICES ASSUME Init PROVE TelnetInv
  OBVIOUS
<1>1. SgaInv /\ parser \in Parsers
  BY SgaInit, ReadIn DEF Init
<1>2. /\ toClient = <<>> /\ payload = <<>> /\ parser = In("Data")
      /\ Answers = <<>> /\ (got \o data_out) \o <<>> = <<>>
      /\ \A s \in Sides, o \in Options : on[s][o] = said[s][o]
  BY DEF Init, Answers
<1>3. LastWord(Answers) /\ Settled(Answers, <<>>)
  BY <1>2 DEF LastWord, Settled
<1>4. Reads(toClient, parser, In("Data"), <<>>, <<>>)
  BY <1>1, <1>2, ReadsNone
<1>5. Foreseen(<<>>, <<>>)
  BY <1>2, <1>3, <1>4 DEF Foreseen
<1>6. <<>> \in Seq(Bytes) /\ <<>> \in Seq(Msgs)
  OBVIOUS
<1>q. QED
  BY <1>1, <1>3, <1>5, <1>6 DEF TelnetInv

(* A negotiation has been answered: the client's word is the answer, which *)
(* is under way in its place.                                              *)
LEMMA Answered ==
    ASSUME NEW r \in Seq(Msgs), NEW n \in Msgs, NEW m \in Seq(Msgs),
           NEW v \in Verbs, SideTold(v) = SideAsked(n[1]),
           TypeOK, on' = on,
           said' = [said EXCEPT ![SideTold(v)][n[2]] = v \in Yes],
           LastWord(r), Settled(r, << n >> \o m)
    PROVE  LastWord(Append(r, <<v, n[2]>>))' /\ Settled(Append(r, <<v, n[2]>>), m)'
<1> DEFINE a == <<v, n[2]>>
<1>0. PICK w : w = Append(r, a)
  OBVIOUS
<1>1. PICK l \in Nat : l = Len(r)
  BY LenProperties
<1>2. a \in Msgs /\ a[1] = v /\ a[2] = n[2] /\ n[2] \in Bytes
  BY DEF Msgs
<1> HIDE DEF a
<1>3. /\ w \in Seq(Msgs) /\ DOMAIN w = 1..(l + 1) /\ DOMAIN r = 1..l
      /\ (\A k \in 1..l : w[k] = r[k]) /\ w[l + 1] = a
  BY <1>0, <1>1, <1>2, AppendProperties, LenProperties
<1>4. \A s \in Sides, o \in Options :
          said'[s][o] = IF About(a, s, o) THEN v \in Yes ELSE said[s][o]
  <2>1. said \in [Sides -> [Options -> BOOLEAN]]
    BY DEF TypeOK
  <2>q. QED
    BY <1>2, <2>1 DEF About
<1>5. LastWord(w)'
  <2> SUFFICES ASSUME NEW s \in Sides, NEW o \in Options, NEW k \in 1..(l + 1),
                      About(w[k], s, o),
                      \A j \in 1..(l + 1) : j > k => ~About(w[j], s, o)
               PROVE  said'[s][o] = (w[k][1] \in Yes)
    BY <1>3 DEF LastWord
  <2>1. CASE k = l + 1
    BY <1>2, <1>3, <1>4, <2>1
  <2>2. CASE k \in 1..l
    <3>1. ~About(a, s, o)
      BY <1>1, <1>3, <2>2
    <3>2. \A j \in 1..l : j > k => ~About(r[j], s, o)
      BY <1>1, <1>3, <2>2
    <3>3. said[s][o] = (r[k][1] \in Yes)
      BY <1>3, <2>2, <3>2 DEF LastWord
    <3>q. QED
      BY <1>3, <1>4, <2>2, <3>1, <3>3
  <2>3. k = l + 1 \/ k \in 1..l
    BY <1>1
  <2>q. QED
    BY <2>1, <2>2, <2>3
<1>6. Settled(w, m)'
  <2> SUFFICES ASSUME NEW s \in Sides, NEW o \in Options,
                      \A k \in 1..(l + 1) : ~About(w[k], s, o),
                      \A k \in DOMAIN m : ~Concerns(m[k], s, o)
               PROVE  on[s][o] = said'[s][o]
    BY <1>3 DEF Settled
  <2>1. ~About(a, s, o) /\ \A k \in 1..l : ~About(r[k], s, o)
    BY SMTT(60), <1>1, <1>3
  <2>2. ~Concerns(n, s, o)
    BY <1>2, <2>1 DEF About, Concerns
  <2>3. \A k \in DOMAIN (<<n>> \o m) : ~Concerns((<<n>> \o m)[k], s, o)
    <3>1. /\ DOMAIN (<<n>> \o m) = 1..(Len(m) + 1) /\ (<<n>> \o m)[1] = n
          /\ \A k \in 1..Len(m) : (<<n>> \o m)[k + 1] = m[k]
          /\ DOMAIN m = 1..Len(m) /\ Len(m) \in Nat
      OBVIOUS
    <3>2. \A k \in 1..(Len(m) + 1) : k = 1 \/ (k - 1 \in 1..Len(m) /\ k = (k - 1) + 1)
      BY <3>1
    <3>q. QED
      BY <2>2, <3>1, <3>2
  <2>4. on[s][o] = said[s][o]
    BY <1>3, <2>1, <2>3 DEF Settled
  <2>q. QED
    BY <1>4, <2>1, <2>4
<1>q. QED
  BY <1>0, <1>5, <1>6 DEF a

(* The client's step.                                                      *)
LEMMA ProcessStep ==
    ASSUME TelnetInv, SgaInv', process
    PROVE  TelnetInv'
<1> DEFINE b == Head(toClient)
           v == Response(parser.cmd, b)
<1>0. TypeOK /\ parser \in Parsers
  BY DEF TelnetInv, SgaInv
<1>1. /\ toClient # <<>> /\ b \in Bytes /\ toClient' = Tail(toClient)
      /\ parser' = Goes(parser, b)
      /\ data_out' = data_out \o Delivers(parser, b)
      /\ UNCHANGED <<toPeer, got, peer>>
      /\ parser.state # "Negotiate" => UNCHANGED <<replies, said>>
      /\ parser.state = "Negotiate" =>
             /\ parser.cmd \in Verbs /\ v \in Verbs
             /\ SideTold(v) = SideAsked(parser.cmd)
             /\ replies' = Append(replies, <<v, b>>)
             /\ said' = [said EXCEPT ![SideTold(v)][b] = v \in Yes]
  BY <1>0, ByteRead
<1> HIDE DEF b, v
<1>2. PICK d \in Seq(Bytes), m \in Seq(Msgs) : Foreseen(d, m)
  BY DEF TelnetInv
<1>3. PICK r \in Seq(Bytes), n \in Seq(Msgs) :
          /\ d = Delivers(parser, b) \o r /\ m = Completes(parser, b) \o n
          /\ Reads(toClient', parser', In("Data"), r, n)
  <2>1. /\ toClient \in Seq(Bytes) /\ toClient # <<>> /\ parser \in Parsers
        /\ Reads(toClient, parser, In("Data"), d, m)
    BY <1>0, <1>1, <1>2 DEF TypeOK, Foreseen
  <2>2. TailReads(toClient, parser, In("Data"), d, m)
    BY <2>1, ReadsTail
  <2>q. QED
    BY <1>1, <2>2 DEF b, TailReads
<1>4. parser' \in Parsers /\ Delivers(parser, b) \in Seq(Bytes)
  BY <1>0, <1>1, ByteTyped
<1>5. payload' = (got' \o data_out') \o r
  <2>1. payload' = payload /\ got' = got /\ payload = (got \o data_out) \o d
    BY <1>1, <1>2 DEF Foreseen, peer
  <2>2. got \in Seq(Bytes) /\ data_out \in Seq(Bytes) /\ got \o data_out \in Seq(Bytes)
    BY <1>0, ConcatProperties DEF TypeOK
  <2> DEFINE x == Delivers(parser, b)
             y == got \o data_out
  <2>3. x \in Seq(Bytes) /\ y \in Seq(Bytes) /\ d = x \o r /\ data_out' = data_out \o x
    BY <1>1, <1>3, <1>4, <2>2
  <2> HIDE DEF x
  <2>4. y \o x = got \o (data_out \o x)
    BY SMTT(60), <2>2, <2>3, RegroupBytes
  <2> HIDE DEF y
  <2>5. y \o (x \o r) = (y \o x) \o r
    BY ZenonT(60), <2>3, RegroupBytes
  <2>q. QED
    BY <2>1, <2>3, <2>4, <2>5 DEF y
<1>6. LastWord(Answers)' /\ Settled(Answers, n)'
  <2>1. CASE parser.state # "Negotiate"
    <3>1. Completes(parser, b) = <<>> /\ m = <<>> \o n
      BY <1>3, <2>1 DEF Completes
    <3>2. m = n
      BY <3>1, ConcatEmptySeq
    <3>3. UNCHANGED <<Answers, said, on>>
      BY <1>1, <2>1 DEF Answers, peer
    <3>q. QED
      BY <1>2, <3>2, <3>3 DEF Foreseen, LastWord, Settled, TelnetInv
  <2>2. CASE parser.state = "Negotiate"
    <3> DEFINE c == <<parser.cmd, b>>
    <3>1. /\ c \in Msgs /\ c[1] = parser.cmd /\ c[2] = b /\ m = <<c>> \o n
      BY <1>1, <1>3, <2>2 DEF Completes, Msgs
    <3>2. LastWord(Answers) /\ Settled(Answers, <<c>> \o n) /\ on' = on
      BY <1>1, <1>2, <3>1 DEF Foreseen, TelnetInv, peer
    <3>3. Answers \in Seq(Msgs) /\ Answers' = Append(Answers, <<v, c[2]>>)
      <4>1. /\ toPeer \in Seq(Msgs) /\ replies \in Seq(Msgs) /\ toPeer' = toPeer
            /\ replies' = Append(replies, <<v, c[2]>>) /\ <<v, c[2]>> \in Msgs
        BY <1>0, <1>1, <2>2, <3>1 DEF TypeOK, Msgs
      <4>q. QED
        BY <4>1 DEF Answers
    <3> HIDE DEF c
    <3>4. /\ v \in Verbs /\ SideTold(v) = SideAsked(c[1])
          /\ said' = [said EXCEPT ![SideTold(v)][c[2]] = v \in Yes]
      BY <1>1, <2>2, <3>1
    <3>5. PICK w, u, a : w = Answers /\ u = v /\ a = c
      OBVIOUS
    <3>6. /\ w \in Seq(Msgs) /\ a \in Msgs /\ u \in Verbs /\ SideTold(u) = SideAsked(a[1])
          /\ said' = [said EXCEPT ![SideTold(u)][a[2]] = u \in Yes]
          /\ LastWord(w) /\ Settled(w, <<a>> \o n) /\ on' = on
          /\ Answers' = Append(w, <<u, a[2]>>)
      BY <3>1, <3>2, <3>3, <3>4, <3>5
    <3>7. LastWord(Append(w, <<u, a[2]>>))' /\ Settled(Append(w, <<u, a[2]>>), n)'
      BY <1>0, <3>6, Answered
    <3>q. QED
      BY <3>6, <3>7
  <2>q. QED
    BY <2>1, <2>2
<1>7. Foreseen(r, n)'
  BY <1>3, <1>5, <1>6 DEF Foreseen
<1>q. QED
  BY <1>4, <1>6, <1>7 DEF TelnetInv

(* The chunk ends: what it has is handed over, in the same order.          *)
LEMMA EndChunkStep ==
    ASSUME TelnetInv, SgaInv', EndChunk
    PROVE  TelnetInv'
<1>0. TypeOK /\ parser \in Parsers
  BY DEF TelnetInv, SgaInv
<1>1. /\ got' = got \o data_out /\ data_out' = <<>>
      /\ toPeer' = toPeer \o replies /\ replies' = <<>>
      /\ UNCHANGED <<toClient, parser, said, on, payload>>
  BY DEF EndChunk, peer
<1>2. Answers' = Answers /\ got' \o data_out' = got \o data_out
  <2>1. got \o data_out \in Seq(Bytes) /\ Answers \in Seq(Msgs)
    BY <1>0, ConcatProperties DEF TypeOK, Answers
  <2>q. QED
    BY <1>1, <2>1, ConcatEmptySeq DEF Answers
<1>3. PICK d \in Seq(Bytes), m \in Seq(Msgs) : Foreseen(d, m)
  BY DEF TelnetInv
<1>4. Foreseen(d, m)' /\ LastWord(Answers)'
  BY <1>1, <1>2, <1>3 DEF Foreseen, LastWord, Settled, TelnetInv
<1>q. QED
  BY <1>0, <1>1, <1>4 DEF TelnetInv

(* The peer sends something that is no negotiation.                        *)
LEMMA SpeaksStep ==
    ASSUME TelnetInv, SgaInv', PeerSpeaks
    PROVE  TelnetInv'
<1>0. TypeOK /\ parser \in Parsers
  BY DEF TelnetInv, SgaInv
<1>1. UNCHANGED <<toPeer, client, on>>
  BY DEF PeerSpeaks, PeerSends
<1>2. PICK d \in Seq(Bytes), m \in Seq(Msgs) : Foreseen(d, m)
  BY DEF TelnetInv
<1>3. Reads(toClient, parser, In("Data"), d, m) /\ toClient \in Seq(Bytes)
  BY <1>0, <1>2 DEF Foreseen, TypeOK
<1> DEFINE before == got \o data_out
<1>4. before \in Seq(Bytes) /\ payload = before \o d /\ payload \in Seq(Bytes)
  BY <1>0, <1>2, ConcatProperties DEF TypeOK, Foreseen
<1> HIDE DEF before
<1>5. \A x \in Seq(Bytes) : (before \o d) \o x = before \o (d \o x)
  BY <1>4, RegroupBytes
<1>6. \E d2 \in Seq(Bytes) :
          Reads(toClient', parser, In("Data"), d2, m) /\ payload' = before \o d2
  <2>0. /\ <<"x">> \in Seq(Bytes) /\ <<"IAC">> \in Seq(Bytes)
        /\ d \o <<"x">> \in Seq(Bytes) /\ d \o <<"IAC">> \in Seq(Bytes)
    BY DEF Bytes
  <2>1. CASE PeerSends(<<"x">>, <<"x">>)
    <3>1. Reads(toClient', parser, In("Data"), d \o <<"x">>, m)
      BY <1>0, <1>3, <2>1, MessagesRead DEF PeerSends, Transmit
    <3>2. payload' = before \o (d \o <<"x">>)
      BY <1>4, <1>5, <2>0, <2>1 DEF PeerSends
    <3>q. QED
      BY <2>0, <3>1, <3>2
  <2>2. CASE PeerSends(<<"IAC", "IAC">>, <<"IAC">>)
    <3>1. Reads(toClient', parser, In("Data"), d \o <<"IAC">>, m)
      BY <1>0, <1>3, <2>2, MessagesRead DEF PeerSends, Transmit
    <3>2. payload' = before \o (d \o <<"IAC">>)
      BY <1>4, <1>5, <2>0, <2>2 DEF PeerSends
    <3>q. QED
      BY <2>0, <3>1, <3>2
  <2>3. CASE PeerSends(<<"IAC", "SB", "ECHO">> \o <<"IAC", "IAC", "SE">>
                           \o <<"IAC", "SE">>, <<>>)
    <3>1. Reads(toClient', parser, In("Data"), d, m)
      BY <1>0, <1>3, <2>3, MessagesRead DEF PeerSends, Transmit
    <3>2. payload' = before \o d
      BY <1>4, <2>3, ConcatEmptySeq DEF PeerSends
    <3>q. QED
      BY <3>1, <3>2
  <2>4. CASE PeerSends(<<"IAC", "NOP">>, <<>>)
    <3>1. Reads(toClient', parser, In("Data"), d, m)
      BY <1>0, <1>3, <2>4, MessagesRead DEF PeerSends, Transmit
    <3>2. payload' = before \o d
      BY <1>4, <2>4, ConcatEmptySeq DEF PeerSends
    <3>q. QED
      BY <3>1, <3>2
  <2>q. QED
    BY <2>1, <2>2, <2>3, <2>4 DEF PeerSpeaks
<1>7. PICK d2 \in Seq(Bytes) :
          Reads(toClient', parser, In("Data"), d2, m) /\ payload' = before \o d2
  BY <1>6
<1>8. UNCHANGED <<parser, got, data_out, Answers, said>>
  BY <1>1 DEF client, Answers
<1>9. Foreseen(d2, m)' /\ LastWord(Answers)'
  <2>1. before = got' \o data_out'
    BY <1>8 DEF before
  <2>2. Settled(Answers, m)' /\ LastWord(Answers)'
    BY <1>1, <1>2, <1>8 DEF Foreseen, Settled, LastWord, TelnetInv
  <2>q. QED
    BY <1>7, <1>8, <2>1, <2>2 DEF Foreseen
<1>q. QED
  BY <1>0, <1>8, <1>9 DEF TelnetInv

(* The peer asks, of its own accord or to acknowledge: what it changes is  *)
(* asked about.                                                            *)
LEMMA NegotiationSent ==
    ASSUME TypeOK, parser \in Parsers, NEW v \in Verbs, NEW o \in Bytes,
           NEW d \in Seq(Bytes), NEW m \in Seq(Msgs),
           Reads(toClient, parser, In("Data"), d, m),
           payload = (got \o data_out) \o d,
           toClient' = toClient \o <<"IAC", v, o>>,
           UNCHANGED <<client, payload>>,
           \A s \in Sides, p \in Options :
               \/ \E k \in DOMAIN Answers' : About(Answers'[k], s, p)
               \/ \E k \in DOMAIN m : Concerns(m[k], s, p)
               \/ Concerns(<<v, o>>, s, p)
               \/ on'[s][p] = said[s][p]
    PROVE  \E n \in Seq(Msgs) : Foreseen(d, n)'
<1>1. PICK a : a = <<v, o>>
  OBVIOUS
<1>2. PICK n : n = Append(m, a)
  OBVIOUS
<1>3. a \in Msgs
  BY <1>1 DEF Msgs
<1>4. /\ n \in Seq(Msgs) /\ DOMAIN m = 1..Len(m) /\ Len(m) \in Nat
      /\ DOMAIN n = 1..(Len(m) + 1)
      /\ \A k \in 1..Len(m) : n[k] = m[k]
      /\ n[Len(m) + 1] = a
  BY <1>2, <1>3, AppendProperties, LenProperties
<1>5. (\A k \in DOMAIN m : k \in DOMAIN n /\ n[k] = m[k]) /\ \E k \in DOMAIN n : n[k] = a
  <2>1. Len(m) + 1 \in DOMAIN n /\ n[Len(m) + 1] = a
    BY <1>4
  <2>2. \A k \in 1..Len(m) : k \in 1..(Len(m) + 1)
    BY <1>4
  <2>q. QED
    BY <1>4, <2>1, <2>2, Zenon
<1>6. Settled(Answers, n)'
  <2> SUFFICES ASSUME NEW s \in Sides, NEW p \in Options
               PROVE  \/ \E k \in DOMAIN Answers' : About(Answers'[k], s, p)
                      \/ \E k \in DOMAIN n : Concerns(n[k], s, p)
                      \/ on'[s][p] = said'[s][p]
    BY DEF Settled
  <2>1. said' = said
    BY DEF client
  <2>q. QED
    BY <1>1, <1>5, <2>1
<1>7. Reads(toClient', parser, In("Data"), d, n)
  BY <1>1, <1>2, MessagesRead DEF TypeOK
<1>8. UNCHANGED <<parser, got, data_out, payload>>
  BY DEF client
<1>9. Foreseen(d, n)'
  BY <1>6, <1>7, <1>8 DEF Foreseen
<1>q. QED
  BY <1>4, <1>9

(* A request of the peer is foreseen, and so is its answer.                *)
LEMMA AsksStep ==
    ASSUME TelnetInv, SgaInv', NEW verb \in Verbs, NEW opt \in Options,
           PeerAsks(verb, opt)
    PROVE  TelnetInv'
<1>0. TypeOK /\ parser \in Parsers /\ opt \in Bytes
  BY DEF TelnetInv, SgaInv, Bytes
<1>1. /\ toClient' = toClient \o <<"IAC", verb, opt>>
      /\ on' = [on EXCEPT ![SideAsked(verb)][opt] = @ /\ verb \in Yes]
      /\ UNCHANGED <<toPeer, client, payload>>
  BY DEF PeerAsks, Transmit
<1>2. UNCHANGED <<Answers, said, parser>>
  BY <1>1 DEF client, Answers
<1>3. PICK d \in Seq(Bytes), m \in Seq(Msgs) : Foreseen(d, m)
  BY DEF TelnetInv
<1>4. ASSUME NEW s \in Sides, NEW p \in Options, ~Concerns(<<verb, opt>>, s, p)
      PROVE  on'[s][p] = on[s][p]
  <2>1. ~(SideAsked(verb) = s /\ opt = p)
    BY <1>4 DEF Concerns
  <2>q. QED
    BY <1>0, <1>1, <2>1 DEF TypeOK
<1>5. \E n \in Seq(Msgs) : Foreseen(d, n)'
  <2>1. \A s \in Sides, p \in Options :
               \/ \E k \in DOMAIN Answers' : About(Answers'[k], s, p)
               \/ \E k \in DOMAIN m : Concerns(m[k], s, p)
               \/ Concerns(<<verb, opt>>, s, p)
               \/ on'[s][p] = said[s][p]
    BY <1>2, <1>3, <1>4 DEF Foreseen, Settled
  <2>2. Reads(toClient, parser, In("Data"), d, m) /\ payload = (got \o data_out) \o d
    BY <1>3 DEF Foreseen
  <2>q. QED
    BY <1>0, <1>1, <2>1, <2>2, NegotiationSent
<1>6. LastWord(Answers)'
  BY <1>2 DEF LastWord, TelnetInv
<1>q. QED
  BY <1>0, <1>2, <1>5, <1>6 DEF TelnetInv

(* The peer hears an answer, which is the first of those under way.        *)
LEMMA HearsStep ==
    ASSUME TelnetInv, SgaInv', NEW yes \in BOOLEAN, NEW reply \in BOOLEAN,
           PeerHears(yes, reply)
    PROVE  TelnetInv'
<1>0. TypeOK /\ parser \in Parsers /\ LastWord(Answers)
  BY DEF TelnetInv, SgaInv
<1>1. PICK h \in Msgs : toPeer # <<>> /\ h = Head(toPeer)
  BY <1>0, TailSeq DEF PeerHears, TypeOK
<1>2. PICK side, o, told, verb :
          /\ side = SideTold(h[1]) /\ o = h[2] /\ told = (h[1] \in Yes)
          /\ verb = Verb(side, yes)
  OBVIOUS
<1>3. side \in Sides /\ verb \in Verbs /\ o \in Bytes /\ SideAsked(verb) = side
  BY <1>2 DEF SideTold, SideAsked, Sides, Verb, Verbs, Msgs
<1>4. /\ toPeer' = Tail(toPeer)
      /\ on' = [on EXCEPT ![side][o] = yes]
      /\ toClient' = IF reply THEN toClient \o <<"IAC", verb, o>> ELSE toClient
      /\ UNCHANGED <<client, payload>>
      /\ IF told = on[side][o] THEN yes = told ELSE (yes # told) => reply
  BY <1>1, <1>2 DEF PeerHears, Transmit
<1>5. UNCHANGED <<parser, got, data_out, replies, said>>
  BY <1>4 DEF client
<1>6. PICK l \in Nat, w, u \in Seq(Msgs) :
          /\ w = Answers' /\ u = Answers /\ w = Tail(u) /\ u # <<>>
          /\ DOMAIN u = 1..(l + 1) /\ DOMAIN w = 1..l /\ u[1] = h
          /\ \A k \in 1..l : w[k] = u[k + 1]
  <2>1. /\ toPeer \in Seq(Msgs) /\ toPeer # <<>> /\ replies \in Seq(Msgs)
        /\ toPeer' = Tail(toPeer) /\ replies' = replies /\ h = Head(toPeer)
    BY <1>0, <1>1, <1>4, <1>5 DEF TypeOK
  <2>2. /\ Answers \in Seq(Msgs) /\ Answers # <<>> /\ Answers' = Tail(Answers)
        /\ Head(Answers) = h
    BY <2>1 DEF Answers
  <2>3. PICK a \in Seq(Msgs) : a = Answers
    BY <2>2
  <2>4. /\ DOMAIN a = 1..Len(a) /\ Len(a) \in Nat /\ Len(a) # 0 /\ Head(a) = a[1]
        /\ Tail(a) \in Seq(Msgs) /\ DOMAIN Tail(a) = 1..(Len(a) - 1)
        /\ \A k \in 1..(Len(a) - 1) : Tail(a)[k] = a[k + 1]
    BY <2>2, <2>3, EmptySeq, LenProperties, HeadTailProperties
  <2>5. PICK l \in Nat : Len(a) = l + 1 /\ Len(a) - 1 = l
    <3>1. Len(a) - 1 \in Nat /\ Len(a) = (Len(a) - 1) + 1
      BY <2>4
    <3>q. QED
      BY <3>1
  <2>6. PICK b : b = Tail(a)
    OBVIOUS
  <2>q. QED
    BY SMTT(60), <2>2, <2>3, <2>4, <2>5, <2>6
<1>7. LastWord(Answers)'
  <2> SUFFICES ASSUME NEW s \in Sides, NEW p \in Options, NEW k \in 1..l,
                      About(w[k], s, p),
                      \A j \in 1..l : j > k => ~About(w[j], s, p)
               PROVE  said[s][p] = (w[k][1] \in Yes)
    <3>1. said' = said /\ Answers' = w /\ DOMAIN w = 1..l
      BY <1>5, <1>6
    <3>q. QED
      BY <3>1 DEF LastWord
  <2>1. k + 1 \in 1..(l + 1) /\ About(u[k + 1], s, p)
    BY <1>6
  <2>2. ASSUME NEW j \in 1..(l + 1), j > k + 1 PROVE ~About(u[j], s, p)
    <3>1. PICK i \in 1..l : j = i + 1 /\ i > k
      <4>1. j - 1 \in 1..l /\ j = (j - 1) + 1 /\ j - 1 > k
        BY <1>6, <2>2
      <4>q. QED
        BY <4>1
    <3>q. QED
      BY <1>6, <3>1
  <2>3. said[s][p] = (u[k + 1][1] \in Yes)
    BY <1>0, <1>6, <2>1, <2>2 DEF LastWord
  <2>q. QED
    BY <1>6, <2>3
<1>8. PICK d \in Seq(Bytes), m \in Seq(Msgs) : Foreseen(d, m)
  BY DEF TelnetInv
<1>9. ASSUME NEW s \in Sides, NEW p \in Options
      PROVE  \/ \E k \in 1..l : About(w[k], s, p)
             \/ \E k \in DOMAIN m : Concerns(m[k], s, p)
             \/ reply /\ Concerns(<<verb, o>>, s, p)
             \/ on'[s][p] = said[s][p]
  <2> SUFFICES ASSUME \A k \in 1..l : ~About(w[k], s, p),
                      \A k \in DOMAIN m : ~Concerns(m[k], s, p),
                      ~(reply /\ Concerns(<<verb, o>>, s, p))
               PROVE  on'[s][p] = said[s][p]
    OBVIOUS
  <2>0. on \in [Sides -> [Options -> BOOLEAN]]
    BY <1>0 DEF TypeOK
  <2>1. ASSUME NEW j \in 1..(l + 1), j # 1 PROVE ~About(u[j], s, p)
    <3>1. PICK i \in 1..l : j = i + 1
      <4>1. j - 1 \in 1..l /\ j = (j - 1) + 1
        BY <1>6, <2>1
      <4>q. QED
        BY <4>1
    <3>q. QED
      BY <1>6, <3>1
  <2>2. CASE About(h, s, p)
    <3>1. side = s /\ o = p
      BY <1>2, <2>2 DEF About
    <3>2. said[s][p] = told
      <4>1. 1 \in 1..(l + 1) /\ \A j \in 1..(l + 1) : j > 1 => j # 1
        BY <1>6
      <4>2. said[s][p] = (u[1][1] \in Yes)
        BY <1>0, <1>6, <2>1, <2>2, <4>1 DEF LastWord
      <4>q. QED
        BY <1>2, <1>6, <4>2
    <3>3. ~reply
      BY <1>3, <3>1 DEF Concerns
    <3>4. yes = told
      BY <1>4, <3>3
    <3>5. on'[s][p] = yes
      BY <1>4, <2>0, <3>1
    <3>q. QED
      BY <3>2, <3>4, <3>5
  <2>3. CASE ~About(h, s, p)
    <3>1. ~(side = s /\ o = p)
      BY <1>2, <2>3 DEF About
    <3>2. on'[s][p] = on[s][p]
      BY <1>4, <2>0, <3>1
    <3>3. on[s][p] = said[s][p]
      BY <1>6, <1>8, <2>1, <2>3 DEF Foreseen, Settled
    <3>q. QED
      BY <3>2, <3>3
  <2>q. QED
    BY <2>2, <2>3
<1>10. \E n \in Seq(Msgs) : Foreseen(d, n)'
  <2>1. Reads(toClient, parser, In("Data"), d, m) /\ payload = (got \o data_out) \o d
    BY <1>8 DEF Foreseen
  <2>2. CASE reply
    <3>1. toClient' = toClient \o <<"IAC", verb, o>> /\ UNCHANGED <<client, payload>>
      BY <1>4, <2>2
    <3>2. \A s \in Sides, p \in Options :
               \/ \E k \in DOMAIN Answers' : About(Answers'[k], s, p)
               \/ \E k \in DOMAIN m : Concerns(m[k], s, p)
               \/ Concerns(<<verb, o>>, s, p)
               \/ on'[s][p] = said[s][p]
      BY <1>6, <1>9
    <3>q. QED
      BY <1>0, <1>3, <2>1, <3>1, <3>2, NegotiationSent
  <2>3. CASE ~reply
    <3>1. toClient' = toClient /\ UNCHANGED payload
      BY <1>4, <2>3
    <3>2. Settled(Answers, m)'
      BY <1>5, <1>6, <1>9, <2>3 DEF Settled
    <3>3. Foreseen(d, m)'
      BY <1>5, <2>1, <3>1, <3>2 DEF Foreseen
    <3>q. QED
      BY <3>3
  <2>q. QED
    BY <2>2, <2>3
<1>q. QED
  BY <1>0, <1>5, <1>7, <1>10 DEF TelnetInv

(* Every step of either end preserves the invariant.                       *)
LEMMA TelnetStep == TelnetInv /\ [Next]_vars => TelnetInv'
<1> SUFFICES ASSUME TelnetInv, [Next]_vars PROVE TelnetInv'
  OBVIOUS
<1>0. SgaInv'
  BY SgaStep DEF TelnetInv
<1>1. CASE UNCHANGED vars
  <2>1. /\ UNCHANGED <<parser, got, data_out, toClient, toPeer, replies, said>>
        /\ UNCHANGED <<on, payload>>
    BY <1>1 DEF vars, client, peer
  <2>q. QED
    BY ZenonT(60), <1>0, <2>1 DEF TelnetInv, LastWord, Foreseen, Settled, Answers
<1>q. QED
  BY <1>0, <1>1, ProcessStep, EndChunkStep, HearsStep, SpeaksStep, AsksStep
  DEF Next, Hears

(* The caller's bytes are the peer's, whatever is negotiated in between    *)
(* and wherever the stream is cut.                                         *)
THEOREM DataIsIntact == Spec => []DataIntact
<1>1. TelnetInv => DataIntact
  <2> SUFFICES ASSUME TelnetInv PROVE DataIntact
    OBVIOUS
  <2>1. PICK d \in Seq(Bytes), m \in Seq(Msgs) : Foreseen(d, m)
    BY DEF TelnetInv
  <2>2. PICK before \in Seq(Bytes) : before = got \o data_out
    BY ConcatProperties DEF TelnetInv, SgaInv, TypeOK
  <2>3. payload = before \o d
    BY <2>1, <2>2 DEF Foreseen
  <2>4. IsPrefix(before, payload)
    <3>1. /\ Len(before \o d) = Len(before) + Len(d)
          /\ Len(before) \in Nat /\ Len(d) \in Nat
          /\ before \o d \in Seq(Bytes)
          /\ \A k \in 1..Len(before) : (before \o d)[k] = before[k]
      BY ConcatProperties, LenProperties
    <3>2. PICK n \in Nat : n = Len(before)
      BY <3>1
    <3>3. SubSeq(before, 1, n) = SubSeq(before \o d, 1, n)
      BY <3>1, <3>2
    <3>q. QED
      BY <2>3, <3>1, <3>2, <3>3 DEF IsPrefix
  <2>5. CASE toClient = <<>>
    <3>1. Reads(<<>>, parser, In("Data"), d, m) /\ parser \in Parsers
      BY <2>1, <2>5 DEF Foreseen, TelnetInv
    <3>2. In("Data") = parser /\ d = <<>>
      BY <3>1, ReadsNone
    <3>3. before \o <<>> = before
      BY ConcatEmptySeq
    <3>q. QED
      BY <2>2, <2>3, <2>4, <3>2, <3>3 DEF DataIntact
  <2>q. QED
    BY <2>2, <2>4, <2>5 DEF DataIntact
<1>q. QED
  BY TelnetInit, TelnetStep, <1>1, PTL DEF Spec

(* And when the exchange has come to rest both ends hold the same options. *)
THEOREM ViewsComeToAgree == Spec => []ViewsAgree
<1>1. TelnetInv => ViewsAgree
  <2> SUFFICES ASSUME TelnetInv, Quiet PROVE on = said
    BY DEF ViewsAgree
  <2>1. PICK d \in Seq(Bytes), m \in Seq(Msgs) : Foreseen(d, m)
    BY DEF TelnetInv
  <2>2. Reads(<<>>, parser, In("Data"), d, m) /\ parser \in Parsers
    BY <2>1 DEF Foreseen, TelnetInv, Quiet
  <2>3. m = <<>>
    BY <2>2, ReadsNone
  <2>4. Answers = <<>>
    BY DEF Answers, Quiet
  <2>5. \A s \in Sides, o \in Options : on[s][o] = said[s][o]
    BY <2>1, <2>3, <2>4 DEF Foreseen, Settled
  <2>q. QED
    BY <2>5 DEF TelnetInv, SgaInv, TypeOK
<1>q. QED
  BY TelnetInit, TelnetStep, <1>1, PTL DEF Spec

=============================================================================
