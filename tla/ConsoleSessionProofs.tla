------------------------- MODULE ConsoleSessionProofs -------------------------
(***************************************************************************)
(* Session and device stay in step until something is cut short, for any   *)
(* number of calls, pages and lines of text and any output cap; what a     *)
(* call returns is then the device's answer to it, and no secret, pager    *)
(* space or next command reaches the device where it is not asked for.     *)
(***************************************************************************)
EXTENDS ConsoleSession, SequenceTheorems, TLAPS

Idle   == op = "none" \/ stage = "between"
Stream == raw \o wire
Silent == raw = <<>> /\ wire = <<>>

(* Nothing but text, and then the device waits at w.                       *)
EndsAt(s, w) == /\ s # <<>> /\ Last(s).kind = w /\ ~Last(s).sham
                /\ \A k \in 1..(Len(s) - 1) : s[k].kind \in Lines \/ s[k].sham

-----------------------------------------------------------------------------
(* Where a call can be, and what goes with it.                             *)
Stages ==
    /\ op # "none" => call \in 1..MaxCalls
    /\ stage = "between" => op = "batch"
    /\ ~Idle => (sure <=> ~late)
    /\ Idle /\ last.sure => sure
    /\ stage = "between" /\ ~late => last.end = "prompt"
    /\ last.op # "expect" => last.end # "match"
    /\ last.end = "error" => last.output = <<>>

(* The results of a batch so far are those of the commands before this.    *)
ResultsInOrder ==
    op = "batch" =>
        /\ Len(results) < asked
        /\ \A j \in 1..Len(results) :
               results[j].of =
                   call - Len(results) + j - (IF stage = "between" THEN 0 ELSE 1)

Control == Stages /\ ResultsInOrder /\ BatchAccounted

(* A call that began in step has one input or one answer under way, of     *)
(* which it has read the beginning.                                        *)
InFlight ==
    ~Idle /\ sure =>
        /\ answered = acc \o Stream
        /\ \/ /\ op # "expect" /\ Silent
              /\ Len(inbox) = 1 /\ Fits(inbox[1], at)
           \/ op # "expect" /\ inbox = <<>> /\ EndsAt(Stream, at)
           \/ op = "expect" /\ inbox = <<>> /\ Silent

(* And if it was answered nothing more comes.                              *)
Answered ==
    Idle /\ last.sure /\ last.end \in Waits /\ ~Misled(last) =>
        wire = <<>> /\ inbox = <<>>

Flow == InStep /\ InFlight /\ Answered /\ OutputIsAnswer /\ RepliesFit

IInv == TypeOK /\ Control /\ Flow

-----------------------------------------------------------------------------
(* A sequence falls apart into what is taken from it and the rest.         *)
LEMMA CutSeq ==
    ASSUME NEW S, NEW s \in Seq(S), NEW n \in 0..Len(s)
    PROVE  /\ SubSeq(s, 1, n) \in Seq(S) /\ Len(SubSeq(s, 1, n)) = n
           /\ SubSeq(s, n + 1, Len(s)) \in Seq(S)
           /\ Len(SubSeq(s, n + 1, Len(s))) = Len(s) - n
           /\ s = SubSeq(s, 1, n) \o SubSeq(s, n + 1, Len(s))
<1>1. /\ Len(s) \in Nat /\ n \in Nat
      /\ \A k \in 1..Len(s) : s[k] \in S
  BY LenProperties
<1>2. SubSeq(s, 1, n) \in Seq(S) /\ Len(SubSeq(s, 1, n)) = n
  BY <1>1, SubSeqProperties
<1>3. /\ SubSeq(s, n + 1, Len(s)) \in Seq(S)
      /\ Len(SubSeq(s, n + 1, Len(s))) = Len(s) - n
  BY <1>1, SubSeqProperties
<1>4. s = SubSeq(s, 1, n) \o SubSeq(s, n + 1, Len(s))
  <2>1. /\ 1 \in 1..(Len(s) + 1) /\ n \in 1 - 1..Len(s)
        /\ Len(s) \in n..Len(s)
    BY <1>1
  <2>2. SubSeq(s, 1, n) \o SubSeq(s, n + 1, Len(s)) = SubSeq(s, 1, Len(s))
    BY <2>1, ConcatAdjacentSubSeq
  <2>q. QED
    BY <2>2, SubSeqFull
<1>q. QED
  BY <1>2, <1>3, <1>4

(* What the device answers is some text and the thing it then waits at.    *)
LEMMA AnswerEnds ==
    ASSUME NEW text \in Seq(Pieces), NEW k \in Waits
    PROVE  Answer(text, k) \in Seq(Tokens) /\ EndsAt(Answer(text, k), k)
<1> DEFINE wait == [kind |-> k, sham |-> FALSE]
<1>1. wait \in Tokens /\ wait.kind = k /\ ~wait.sham
  BY DEF Tokens
<1>2. Pieces \subseteq Tokens
  BY LooksAssumption DEF Pieces, Tokens
<1>3. text \in Seq(Tokens) /\ Len(text) \in Nat
  BY <1>2, SeqMonotonic, LenProperties
<1>4. ASSUME NEW j \in 1..Len(text) PROVE text[j].kind \in Lines \/ text[j].sham
  <2>1. text[j] \in Pieces
    BY <1>4, ElementOfSeq
  <2>q. QED
    BY <2>1 DEF Pieces
<1> HIDE DEF wait
<1>5. /\ Append(text, wait) \in Seq(Tokens) /\ Append(text, wait) # <<>>
      /\ Len(Append(text, wait)) = Len(text) + 1
      /\ \A j \in 1..Len(text) : Append(text, wait)[j] = text[j]
      /\ Append(text, wait)[Len(text) + 1] = wait
  BY <1>1, <1>3, AppendProperties
<1>q. QED
  BY <1>1, <1>3, <1>4, <1>5 DEF Answer, EndsAt, Last, wait

(* A text is a sequence of its pieces.                                     *)
LEMMA TextIsSeq ==
    ASSUME NEW n \in 0..MaxText, NEW text \in [1..n -> Pieces]
    PROVE  text \in Seq(Pieces)
<1>1. n \in Nat
  BY BoundsAssumption
<1>q. QED
  BY <1>1

(* What is written to the device joins what it has not yet read.           *)
LEMMA WriteTyped ==
    ASSUME inbox \in Seq(Inputs), NEW what \in Inputs, Write(what)
    PROVE  /\ inbox' \in Seq(Inputs)
           /\ inbox = <<>> => Len(inbox') = 1 /\ inbox'[1] = what
<1>1. /\ inbox' \in Seq(Inputs) /\ Len(inbox') = Len(inbox) + 1
      /\ inbox'[Len(inbox) + 1] = what
  BY AppendProperties DEF Write
<1>q. QED
  BY <1>1

(* Every reply is something the device can be sent.                        *)
LEMMA ReplyKnown ==
    ASSUME NEW v
    PROVE  /\ Reply(v) \in {"space", "secret", "username", "none"}
           /\ Reply(v) = "space" => pages < MaxPages /\ v = "more" /\ op # "expect"
           /\ Reply(v) = "secret" => v = "password" /\ op # "expect"
           /\ Reply(v) = "username" => v = "username" /\ op # "expect"
BY DEF Reply

(* The verdict on a buffer.                                                *)
LEMMA VerdictKnown ==
    ASSUME TypeOK, NEW b \in Seq(Tokens), b # <<>>
    PROVE  /\ Verdict(b) \in Waits \cup {"truncated", "match", "open"}
           /\ op # "expect" /\ Verdict(b) = "open" => Last(b).kind \in Lines
           /\ op # "expect" /\ Verdict(b) \in Waits => Last(b).kind = Verdict(b)
           /\ op # "expect" => Verdict(b) # "match"
           /\ op = "expect" => Verdict(b) \notin Waits
           /\ Last(b).sham \in BOOLEAN
<1>1. Len(b) \in 1..Len(b) /\ Len(b) \in Nat
  BY EmptySeq, LenProperties
<1>2. b[Len(b)] \in Tokens
  BY <1>1, ElementOfSeq
<1>3. Last(b).kind \in Waits \cup Lines /\ Last(b).sham \in BOOLEAN
  BY <1>2 DEF Last, Tokens
<1>q. QED
  BY <1>1, <1>3 DEF Verdict, Waits, Lines

(* The three things that can come of a chunk: the call reads on, ...       *)
ReadsOn(buffer) ==
    /\ Verdict(buffer) = "open"
    /\ raw' = buffer
    /\ UNCHANGED <<inbox, answered, op, stage, call, asked, results, sure,
                   acc, pages, last, late>>

(* ... it replies to the device, ...                                       *)
Replies(buffer, reply) ==
    /\ Verdict(buffer) # "open" /\ reply = Reply(Verdict(buffer)) /\ reply # "none"
    /\ Write(reply)
    /\ stage' = NextStage(reply)
    /\ pages' = (IF reply = "space" THEN pages + 1 ELSE pages)
    /\ acc' = (IF reply = "space" THEN acc \o buffer ELSE <<>>)
    /\ answered' = (IF reply = "space" THEN answered ELSE <<>>)
    /\ raw' = <<>>
    /\ late' = (late \/ Last(buffer).sham) /\ sure' = (sure /\ ~Last(buffer).sham)
    /\ UNCHANGED <<op, call, asked, results, last>>

(* ... or it ends.                                                         *)
Concludes(buffer, v) ==
    /\ v = Verdict(buffer) /\ v # "open" /\ Reply(v) = "none"
    /\ Finish(v, acc \o buffer)
    /\ IF op = "expect" THEN Write("reply") ELSE UNCHANGED inbox
    /\ late' = \/ late \/ Last(buffer).sham \/ v = "truncated" \/ op = "expect"
               \/ More(v) /\ v # "prompt"
    /\ UNCHANGED answered

(* The streams are sequences of tokens, and so is what they are joined to. *)
LEMMA StreamsTyped ==
    TypeOK => /\ raw \in Seq(Tokens) /\ acc \in Seq(Tokens)
              /\ wire \in Seq(Tokens)
BY DEF TypeOK

LEMMA JoinTyped == \A s, t \in Seq(Tokens) : s \o t \in Seq(Tokens)
BY ConcatProperties

(* What a read does to the stream, and what it goes on with.               *)
LEMMA ReadCases ==
    ASSUME TypeOK, NEW n \in 1..Len(wire), Read(n)
    PROVE  \E pre, rest \in Seq(Tokens) :
              /\ wire = pre \o rest /\ wire' = rest /\ pre # <<>>
              /\ raw \o pre \in Seq(Tokens) /\ raw \o pre # <<>>
              /\ acc \o (raw \o pre) \in Seq(Tokens)
              /\ op # "none" /\ stage # "between" /\ UNCHANGED <<at, stray>>
              /\ \/ ReadsOn(raw \o pre)
                 \/ Replies(raw \o pre, Reply(Verdict(raw \o pre)))
                 \/ Concludes(raw \o pre, Verdict(raw \o pre))
<1> DEFINE pre  == SubSeq(wire, 1, n)
           rest == SubSeq(wire, n + 1, Len(wire))
<1>1. /\ pre \in Seq(Tokens) /\ Len(pre) = n /\ rest \in Seq(Tokens)
      /\ wire = pre \o rest
  <2>1. wire \in Seq(Tokens) /\ n \in 0..Len(wire)
    BY StreamsTyped, LenProperties
  <2>q. QED
    BY <2>1, CutSeq
<1>2. pre # <<>>
  BY <1>1, EmptySeq
<1>3. /\ op # "none" /\ stage # "between" /\ UNCHANGED <<at, stray>>
      /\ wire' = rest
  BY DEF Read
<1>4. \/ ReadsOn(raw \o pre)
      \/ Replies(raw \o pre, Reply(Verdict(raw \o pre)))
      \/ Concludes(raw \o pre, Verdict(raw \o pre))
  BY DEF Read, ReadsOn, Replies, Concludes, Stitch, callVars
<1> HIDE DEF pre, rest
<1>5. raw \o pre \in Seq(Tokens) /\ raw \o pre # <<>>
  BY <1>1, <1>2, ConcatProperties, ConcatEqualIffEmpty DEF TypeOK
<1>6. acc \o (raw \o pre) \in Seq(Tokens)
  BY <1>5, ConcatProperties DEF TypeOK
<1>q. QED
  BY <1>1, <1>2, <1>3, <1>4, <1>5, <1>6

-----------------------------------------------------------------------------
(* Types.                                                                  *)

(* The initial states are of the right types.                              *)
LEMMA TypeInit == Init => TypeOK
<1> SUFFICES ASSUME Init PROVE TypeOK
  OBVIOUS
<1>1. /\ MaxPages \in Nat /\ Cap \in Nat /\ MaxText \in Nat /\ MaxCalls \in Nat
  BY BoundsAssumption
<1>2. wire \in Seq(Tokens) /\ at \in Waits
  <2>1. at \in Waits
    BY DEF Init, Waits
  <2>2. Answer(<<>>, at) \in Seq(Tokens)
    BY <2>1, EmptySeq, AnswerEnds
  <2>3. <<>> \in Seq(Tokens)
    BY EmptySeq
  <2>q. QED
    BY <2>1, <2>2, <2>3 DEF Init
<1>3. late \in BOOLEAN /\ sure \in BOOLEAN /\ stray \in BOOLEAN
  BY ZenonT(30) DEF Init
<1>q. QED
  BY <1>1, <1>2, <1>3 DEF Init, TypeOK, Ends

(* The call goes on to its next command or ends.                           *)
LEMMA FinishTyped ==
    ASSUME TypeOK, Stages, op # "none", NEW end \in Ends,
           NEW output \in Seq(Tokens), Finish(end, output)
    PROVE  /\ op' \in Ops \cup {"none"} /\ stage' \in {"start", "between"}
           /\ results' \in Seq([of : 1..MaxCalls, end : Ends])
           /\ last'.op \in Ops \cup {"none"} /\ last'.end \in Ends
           /\ last'.output \in Seq(Tokens)
           /\ last'.sure \in BOOLEAN
           /\ raw' = <<>> /\ acc' = <<>> /\ pages' = 0
           /\ UNCHANGED <<call, asked, sure>>
<1> DEFINE Result == [of : 1..MaxCalls, end : Ends]
           r      == [of |-> call, end |-> end]
<1>1. r \in Result
  BY DEF Stages
<1>2. results' \in Seq(Result)
  <2>1. results \in Seq(Result)
    BY DEF TypeOK
  <2>2. results' = <<>> \/ results' = Append(results, r)
    BY DEF Finish
  <2> HIDE DEF Result, r
  <2>3. CASE results' = <<>>
    BY <2>3, EmptySeq
  <2>4. Append(results, r) \in Seq(Result)
    BY <1>1, <2>1, AppendProperties
  <2>q. QED
    BY <2>2, <2>3, <2>4
<1>q. QED
  BY <1>2 DEF Finish, TypeOK

(* A command or a call begins.                                             *)
LEMMA BeginTyped ==
    ASSUME TypeOK, Begins("first"),
           wire' \in Seq(Tokens), inbox' \in Seq(Inputs),
           op' \in Ops, asked' \in 0..MaxCalls,
           results' \in Seq([of : 1..MaxCalls, end : Ends])
    PROVE  TypeOK'
<1>0. MaxPages \in Nat /\ MaxCalls \in Nat
  BY BoundsAssumption
<1>1. sure' \in BOOLEAN
  BY ZenonT(30) DEF Begins
<1>2. /\ call' \in 0..MaxCalls /\ stage' = "first"
      /\ raw' = <<>> /\ acc' = <<>> /\ pages' = 0 /\ answered' = <<>>
      /\ last' = [op |-> "none", end |-> "prompt", output |-> <<>>, sure |-> FALSE]
      /\ UNCHANGED <<at, stray, late>>
  BY <1>0 DEF Begins, TypeOK
<1>q. QED
  BY <1>0, <1>1, <1>2 DEF TypeOK, Ends, Waits

(* It throws away the beginning of what has arrived, and sends its line.   *)
LEMMA CommandSends ==
    ASSUME TypeOK, NEW what \in {"line", "next"}, Command(what)
    PROVE  /\ wire' \in Seq(Tokens) /\ inbox' \in Seq(Inputs)
           /\ wire = <<>> => wire' = <<>>
           /\ inbox = <<>> => Len(inbox') = 1 /\ inbox'[1] = what
<1>1. PICK n \in 0..Len(wire) : wire' = SubSeq(wire, n + 1, Len(wire))
  BY DEF Command
<1>2. wire' \in Seq(Tokens) /\ Len(wire') = Len(wire) - n
  BY <1>1, CutSeq DEF TypeOK
<1>3. wire = <<>> => wire' = <<>>
  BY <1>2, EmptySeq
<1>4. Write(what) /\ what \in Inputs /\ inbox \in Seq(Inputs)
  BY DEF Command, Inputs, TypeOK
<1>q. QED
  BY <1>2, <1>3, <1>4, WriteTyped

(* And every step keeps them.                                              *)
LEMMA TypeStep == TypeOK /\ Stages /\ [Next]_vars => TypeOK'
<1> SUFFICES ASSUME TypeOK, Stages, [Next]_vars PROVE TypeOK'
  OBVIOUS
<1>0. MaxPages \in Nat /\ Cap \in Nat /\ MaxText \in Nat /\ MaxCalls \in Nat
  BY BoundsAssumption
<1>1. ASSUME NEW text \in Seq(Pieces), NEW k \in Waits, DeviceReads(text, k)
      PROVE  TypeOK'
  <2>1. Tail(inbox) \in Seq(Inputs)
    BY <1>1, HeadTailProperties DEF DeviceReads, TypeOK
  <2>3. /\ Answer(text, k) \in Seq(Tokens) /\ wire' = wire \o Answer(text, k)
        /\ answered' = IF sure THEN answered \o Answer(text, k) ELSE answered
    BY <1>1, AnswerEnds DEF DeviceReads
  <2>4. answered' \in Seq(Tokens) /\ wire' \in Seq(Tokens)
    BY <2>3, JoinTyped DEF TypeOK
  <2>5. stray' \in BOOLEAN
    BY <1>1, ZenonT(30) DEF DeviceReads
  <2>6. UNCHANGED <<raw, acc, pages, op, stage, call, asked, results,
                    sure, last, late>> /\ at' = k /\ inbox' = Tail(inbox)
    BY <1>1 DEF DeviceReads, readVars, callVars
  <2>q. QED
    BY <2>1, <2>3, <2>4, <2>5, <2>6 DEF TypeOK
<1>3. ASSUME NEW o \in Ops, NEW n \in 0..MaxCalls, CallCommand(o, n) PROVE TypeOK'
  <2>1. /\ call < MaxCalls /\ Command("line") /\ Begins("first")
        /\ op' = o /\ asked' = n /\ results' = <<>>
    BY <1>3 DEF CallCommand, CallBegins, Begins
  <2>2. wire' \in Seq(Tokens) /\ inbox' \in Seq(Inputs)
    BY <2>1, CommandSends
  <2>q. QED
    BY <2>1, <2>2, BeginTyped
<1>4. ASSUME NextCommand PROVE TypeOK'
  <2>1. /\ call < MaxCalls /\ Command("next") /\ Begins("first")
        /\ op' = op /\ op = "batch" /\ asked' = asked /\ results' = results
    BY <1>4 DEF NextCommand, Begins
  <2>2. wire' \in Seq(Tokens) /\ inbox' \in Seq(Inputs)
    BY <2>1, CommandSends
  <2>q. QED
    BY <2>1, <2>2, BeginTyped DEF TypeOK, Ops
<1>5. ASSUME CallLogin \/ CallExpect PROVE TypeOK'
  <2>1. /\ call < MaxCalls /\ Begins("first")
        /\ op' \in Ops /\ asked' = 0 /\ results' = <<>> /\ wire' = wire
    BY <1>5 DEF CallLogin, CallExpect, CallBegins, Begins, Ops
  <2>3. inbox' \in Seq(Inputs)
    BY <1>5, WriteTyped DEF CallLogin, CallExpect, TypeOK, Inputs
  <2>q. QED
    BY <1>0, <2>1, <2>3, BeginTyped DEF TypeOK
<1>6. ASSUME NEW n \in 1..Len(wire), Read(n) PROVE TypeOK'
  <2>1. PICK pre \in Seq(Tokens), rest \in Seq(Tokens) :
              /\ wire = pre \o rest /\ wire' = rest /\ pre # <<>>
              /\ raw \o pre \in Seq(Tokens) /\ raw \o pre # <<>>
              /\ acc \o (raw \o pre) \in Seq(Tokens)
              /\ op # "none" /\ stage # "between" /\ UNCHANGED <<at, stray>>
              /\ \/ ReadsOn(raw \o pre)
                 \/ Replies(raw \o pre, Reply(Verdict(raw \o pre)))
                 \/ Concludes(raw \o pre, Verdict(raw \o pre))
    BY <1>6, ReadCases
  <2> DEFINE buffer == raw \o pre
             v      == Verdict(buffer)
             reply  == Reply(v)
  <2>2. /\ v \in Waits \cup {"truncated", "match", "open"}
        /\ reply \in {"space", "secret", "username", "none"}
        /\ reply = "space" => pages < MaxPages
    BY <2>1, VerdictKnown, ReplyKnown
  <2>3. call \in 1..MaxCalls /\ buffer \in Seq(Tokens) /\ acc \o buffer \in Seq(Tokens)
    BY <2>1 DEF Stages
  <2>4. CASE ReadsOn(buffer)
    BY <2>1, <2>3, <2>4 DEF TypeOK, ReadsOn
  <2>5. CASE Replies(buffer, reply)
    <3>1. inbox' \in Seq(Inputs)
      BY <2>2, <2>5, WriteTyped DEF TypeOK, Replies, Inputs
    <3>2. pages' \in 0..MaxPages
      BY <1>0, <2>2, <2>5 DEF TypeOK, Replies
    <3>3. stage' \in {"first", "username", "secret"}
      BY <2>2, <2>5 DEF NextStage, Replies
    <3>4. late' \in BOOLEAN /\ sure' \in BOOLEAN
      BY <2>5, ZenonT(30) DEF Replies
    <3>q. QED
      BY <2>1, <2>3, <2>5, <3>1, <3>2, <3>3, <3>4, EmptySeq DEF TypeOK, Replies
  <2>6. CASE Concludes(buffer, v)
    <3>1. inbox' \in Seq(Inputs)
      BY <2>6, WriteTyped DEF TypeOK, Concludes, Inputs
    <3>2. v \in Ends /\ Finish(v, acc \o buffer)
      BY <2>2, <2>6 DEF Ends, Concludes
    <3>3. late' \in BOOLEAN
      BY <2>6, ZenonT(30) DEF Concludes
    <3> HIDE DEF v, buffer, reply
    <3>4. UNCHANGED answered
      BY <2>6 DEF Concludes
    <3>5. /\ op' \in Ops \cup {"none"} /\ stage' \in {"start", "between"}
          /\ results' \in Seq([of : 1..MaxCalls, end : Ends])
          /\ last'.op \in Ops \cup {"none"} /\ last'.end \in Ends
          /\ last'.output \in Seq(Tokens)
          /\ last'.sure \in BOOLEAN
          /\ raw' = <<>> /\ acc' = <<>> /\ pages' = 0
          /\ UNCHANGED <<call, asked, sure>>
      BY <2>1, <2>3, <3>2, FinishTyped
    <3>q. QED
      BY <1>0, <2>1, <3>1, <3>3, <3>4, <3>5 DEF TypeOK
  <2>q. QED
    BY <2>1, <2>4, <2>5, <2>6
<1>7. ASSUME Timeout \/ Fails PROVE TypeOK'
  <2>1. PICK end \in Ends, output \in Seq(Tokens) :
            op # "none" /\ Finish(end, output) /\ late' = TRUE /\ UNCHANGED deviceVars
    <3>1. acc \o raw \in Seq(Tokens) /\ <<>> \in Seq(Tokens)
      BY ConcatProperties, EmptySeq DEF TypeOK
    <3>q. QED
      BY <1>7, <3>1 DEF Timeout, Fails, Stitch, Ends
  <2>2. /\ op' \in Ops \cup {"none"} /\ stage' \in {"start", "between"}
        /\ results' \in Seq([of : 1..MaxCalls, end : Ends])
        /\ last'.op \in Ops \cup {"none"} /\ last'.end \in Ends
        /\ last'.output \in Seq(Tokens)
        /\ last'.sure \in BOOLEAN
        /\ raw' = <<>> /\ acc' = <<>> /\ pages' = 0
        /\ UNCHANGED <<call, asked, sure>>
    BY <2>1, FinishTyped
  <2>3. late' \in BOOLEAN /\ UNCHANGED <<at, inbox, wire, stray, answered>>
    BY <2>1 DEF deviceVars
  <2>q. QED
    BY <1>0, <2>2, <2>3, EmptySeq DEF TypeOK
<1>8. CASE UNCHANGED vars
  BY <1>8 DEF vars, deviceVars, readVars, callVars, TypeOK
<1>q. QED
  <2>1. \A n \in 1..(MaxCalls - call) : n \in 0..MaxCalls
    BY <1>0 DEF TypeOK
  <2>2. ASSUME Device PROVE TypeOK'
    BY <1>1, <2>2, TextIsSeq DEF Device
  <2>q. QED
    BY <1>0, <1>3, <1>4, <1>5, <1>6, <1>7, <1>8, <2>1, <2>2
    DEF Next, NewCall, Session, Ops

-----------------------------------------------------------------------------
(* Calls, commands and results.                                            *)

(* No call has been made at first.                                         *)
LEMMA ControlInit == Init => Control
<1> SUFFICES ASSUME Init PROVE Control
  OBVIOUS
<1>1. /\ op = "none" /\ stage = "start" /\ sure = FALSE
      /\ last.op = "none" /\ last.end = at /\ last.sure = FALSE
      /\ at \in {"prompt", "username"}
  BY DEF Init
<1>q. QED
  BY <1>1 DEF Control, Stages, Idle, ResultsInOrder, BatchAccounted

(* A step that touches none of this keeps it.                              *)
LEMMA ControlSame ==
    ASSUME Control, UNCHANGED <<op, stage, call, asked, results, sure, last, late>>
    PROVE  Control'
BY DEF Control, Stages, Idle, ResultsInOrder, BatchAccounted

(* A call begins, or a batch its next command.                             *)
LEMMA BeginControl ==
    ASSUME TypeOK, Begins("first"), op' # "none",
           op' = "batch" =>
               \/ results' = <<>> /\ asked' > 0
               \/ op = "batch" /\ stage = "between" /\ ResultsInOrder
                  /\ UNCHANGED <<asked, results>>
    PROVE  Control'
<1>1. /\ stage' = "first" /\ call' = call + 1 /\ call' \in 1..MaxCalls
      /\ sure' = ~late /\ UNCHANGED late
      /\ last'.op = "none" /\ last'.end = "prompt" /\ last'.sure = FALSE
  BY BoundsAssumption DEF Begins, TypeOK
<1>2. sure' <=> ~late'
  BY <1>1, ZenonT(30)
<1>3. Stages'
  BY <1>1, <1>2 DEF Stages, Idle
<1>4. ResultsInOrder'
  <2>1. CASE op' = "batch" /\ results' = <<>> /\ asked' > 0
    BY <1>1, <2>1 DEF ResultsInOrder
  <2>2. CASE /\ op = "batch" /\ stage = "between" /\ ResultsInOrder
             /\ UNCHANGED <<asked, results>>
    <3>1. Len(results) \in Nat /\ call \in Nat
      BY BoundsAssumption, LenProperties DEF TypeOK
    <3>2. ASSUME NEW j \in 1..Len(results)
          PROVE  results[j].of = call - Len(results) + j
      <4>1. results[j].of = call - Len(results) + j - 0
        BY <2>2 DEF ResultsInOrder
      <4>q. QED
        BY <3>1, <4>1
    <3>3. \A j \in 1..Len(results) : results[j].of = call' - Len(results) + j - 1
      BY <1>1, <3>1, <3>2
    <3>q. QED
      BY <1>1, <2>2, <3>3 DEF ResultsInOrder
  <2>q. QED
    BY <2>1, <2>2 DEF ResultsInOrder
<1>5. BatchAccounted'
  BY DEF BatchAccounted
<1>q. QED
  BY <1>3, <1>4, <1>5 DEF Control

(* A call, or a command of a batch, ends.                                  *)
LEMMA FinishControl ==
    ASSUME TypeOK, Control, op # "none", NEW end \in Ends, NEW output,
           Finish(end, output),
           stage = "between" => end = "error",
           More(end) /\ end # "prompt" => late',
           op # "expect" => end # "match",
           end = "error" => output = <<>>
    PROVE  Control'
<1>1. /\ last'.op = op /\ last'.end = end /\ last'.sure = sure
      /\ last'.output = output /\ UNCHANGED <<call, asked, sure>>
      /\ More(end) => op' = op /\ stage' = "between"
      /\ ~More(end) => op' = "none" /\ stage' = "start"
  BY DEF Finish
<1>2. More(end) => op = "batch"
  BY DEF More
<1>3. Stages'
  BY <1>1, <1>2 DEF Stages, Idle, Control
<1>4. ASSUME op = "batch", end # "error"
      PROVE  /\ Len(results') = Len(results) + 1 /\ Len(results) < asked
             /\ \A j \in 1..Len(results') :
                    results'[j].of = call - Len(results') + j
  <2> DEFINE Result == [of : 1..MaxCalls, end : Ends]
             r      == [of |-> call, end |-> end]
  <2>1. /\ r \in Result /\ r.of = call /\ call \in Nat
        /\ results \in Seq(Result) /\ results' = Append(results, r)
    BY <1>4 DEF Finish, TypeOK, Control, Stages
  <2> HIDE DEF Result, r
  <2>2. /\ Len(results) \in Nat /\ Len(results') = Len(results) + 1
        /\ \A j \in 1..Len(results) : results'[j] = results[j]
        /\ results'[Len(results) + 1] = r
    BY <2>1, AppendProperties, LenProperties
  <2>3. /\ Len(results) < asked
        /\ \A j \in 1..Len(results) : results[j].of = call - Len(results) + j - 1
    BY <1>4 DEF Control, ResultsInOrder
  <2>4. ASSUME NEW j \in 1..Len(results')
        PROVE  results'[j].of = call - Len(results') + j
    <3>1. CASE j = Len(results) + 1
      BY <2>1, <2>2, <3>1
    <3>2. CASE j # Len(results) + 1
      <4>1. j \in 1..Len(results)
        BY <2>2, <3>2
      <4>2. results'[j].of = call - Len(results) + j - 1
        BY <2>2, <2>3, <4>1
      <4>q. QED
        BY <2>1, <2>2, <4>1, <4>2
    <3>q. QED
      BY <3>1, <3>2
  <2>q. QED
    BY <2>2, <2>3, <2>4
<1>5. ResultsInOrder'
  <2>1. CASE More(end)
    <3>1. op = "batch" /\ end # "error" /\ Len(results) + 1 < asked
      BY <2>1 DEF More
    <3>2. \A j \in 1..Len(results') : results'[j].of = call - Len(results') + j - 0
      <4>1. Len(results') \in Nat /\ call \in Nat
        BY <1>4, <3>1, LenProperties, BoundsAssumption DEF TypeOK
      <4>q. QED
        BY <1>4, <3>1, <4>1
    <3>q. QED
      BY <1>1, <1>4, <2>1, <3>1, <3>2 DEF ResultsInOrder
  <2>2. CASE ~More(end)
    BY <1>1, <2>2 DEF ResultsInOrder
  <2>q. QED
    BY <2>1, <2>2
<1>6. BatchAccounted'
  <2> SUFFICES ASSUME op' = "none", last'.op = "batch", last'.end # "error"
               PROVE  /\ Len(results') = asked'
                      /\ \A j \in DOMAIN results' :
                             results'[j].of = call' - asked' + j
    BY DEF BatchAccounted
  <2>1. op = "batch" /\ end # "error" /\ ~More(end)
    BY <1>1
  <2>2. Len(results) \in Nat /\ asked \in Nat
    BY LenProperties, BoundsAssumption DEF TypeOK
  <2>3. Len(results') = asked
    BY <1>4, <2>1, <2>2 DEF More
  <2>4. DOMAIN results' = 1..Len(results')
    <3>1. results' = Append(results, [of |-> call, end |-> end])
      BY <2>1 DEF Finish
    <3>2. [of |-> call, end |-> end] \in [of : 1..MaxCalls, end : Ends]
      BY DEF Control, Stages
    <3>3. Append(results, [of |-> call, end |-> end])
              \in Seq([of : 1..MaxCalls, end : Ends])
      BY <3>2, AppendProperties DEF TypeOK
    <3>q. QED
      BY <3>1, <3>3, LenProperties
  <2>q. QED
    BY <1>1, <1>4, <2>1, <2>3, <2>4
<1>q. QED
  BY <1>3, <1>5, <1>6 DEF Control

(* Every step keeps what calls and results are.                            *)
LEMMA ControlStep == TypeOK /\ Control /\ [Next]_vars => Control'
<1> SUFFICES ASSUME TypeOK, Control, [Next]_vars PROVE Control'
  OBVIOUS
<1>1. ASSUME Device \/ UNCHANGED vars PROVE Control'
  BY <1>1, ControlSame DEF Device, DeviceReads, vars, callVars
<1>2. ASSUME NewCall PROVE Control'
  <2>1. \A n \in 1..(MaxCalls - call) : n > 0
    BY BoundsAssumption DEF TypeOK
  <2>2. /\ Begins("first") /\ op' # "none"
        /\ op' = "batch" => results' = <<>> /\ asked' > 0
    BY <1>2, <2>1 DEF NewCall, CallCommand, CallLogin, CallExpect, CallBegins
  <2>q. QED
    BY <2>2, BeginControl
<1>3. ASSUME NextCommand PROVE Control'
  BY <1>3, BeginControl DEF NextCommand, Control
<1>4. ASSUME NEW n \in 1..Len(wire), Read(n) PROVE Control'
  <2>1. PICK b \in Seq(Tokens) :
            /\ b # <<>> /\ op # "none" /\ stage # "between"
            /\ \/ ReadsOn(b) \/ Replies(b, Reply(Verdict(b)))
               \/ Concludes(b, Verdict(b))
    BY <1>4, ReadCases
  <2>2. CASE ReadsOn(b)
    BY <2>2, ControlSame DEF ReadsOn
  <2>3. CASE Replies(b, Reply(Verdict(b)))
    <3>1. /\ stage' \in {"first", "username", "secret"}
          /\ UNCHANGED <<op, call, asked, results, last>>
      BY <2>3, ReplyKnown DEF Replies, NextStage
    <3>2. sure <=> ~late
      BY <2>1 DEF Control, Stages, Idle
    <3>3. sure' <=> ~late'
      BY <2>3, <3>2, ZenonT(30) DEF Replies
    <3>q. QED
      BY <2>1, <3>1, <3>3 DEF Control, Stages, Idle, ResultsInOrder, BatchAccounted
  <2>4. CASE Concludes(b, Verdict(b))
    <3>1. /\ Verdict(b) \in Ends /\ Verdict(b) # "error"
          /\ op # "expect" => Verdict(b) # "match"
      BY <2>1, <2>4, VerdictKnown DEF Concludes, Ends, Waits
    <3>2. More(Verdict(b)) /\ Verdict(b) # "prompt" => late'
      BY <2>4, ZenonT(30) DEF Concludes
    <3>3. Finish(Verdict(b), acc \o b)
      BY <2>4 DEF Concludes
    <3>q. QED
      BY <2>1, <3>1, <3>2, <3>3, FinishControl
  <2>q. QED
    BY <2>1, <2>2, <2>3, <2>4
<1>5. ASSUME Timeout PROVE Control'
  <2>1. /\ op # "none" /\ stage # "between" /\ late'
        /\ Finish("timeout", Stitch(raw)) /\ "timeout" \in Ends
    BY <1>5 DEF Timeout, Ends
  <2>q. QED
    BY <2>1, FinishControl
<1>6. ASSUME Fails PROVE Control'
  <2>1. op # "none" /\ late' /\ Finish("error", <<>>) /\ "error" \in Ends
    BY <1>6 DEF Fails, Ends
  <2>q. QED
    BY <2>1, FinishControl
<1>q. QED
  BY <1>1, <1>2, <1>3, <1>4, <1>5, <1>6 DEF Next, Session

-----------------------------------------------------------------------------
(* Streams.                                                                *)

(* A beginning of a stream is one of the longer stream.                    *)
LEMMA PrefixConcat ==
    ASSUME NEW S, NEW s \in Seq(S), NEW t \in Seq(S), NEW u \in Seq(S),
           IsPrefix(s, t)
    PROVE  IsPrefix(s, t \o u)
<1>1. Len(t \o u) = Len(t) + Len(u) /\ Len(s) \in Nat /\ Len(t) \in Nat /\ Len(u) \in Nat
  BY ConcatProperties, LenProperties
<1>2. Len(s) <= Len(t) /\ SubSeq(s, 1, Len(s)) = SubSeq(t, 1, Len(s))
  BY DEF IsPrefix
<1>3. CASE Len(s) = 0
  <2>1. SubSeq(t \o u, 1, Len(s)) = <<>> /\ SubSeq(t, 1, Len(s)) = <<>>
    BY <1>3, SubSeqEmpty
  <2>q. QED
    BY <1>1, <1>2, <2>1 DEF IsPrefix
<1>4. CASE Len(s) > 0
  <2>1. 1 \in 1..Len(t) /\ Len(s) \in 1..Len(t)
    BY <1>1, <1>2, <1>4
  <2>2. SubSeq(t \o u, 1, Len(s)) = SubSeq(t, 1, Len(s))
    BY <2>1, SubSeqOfConcat1
  <2>q. QED
    BY <1>1, <1>2, <2>2 DEF IsPrefix
<1>q. QED
  BY <1>1, <1>3, <1>4

(* A stream begins what is appended to it.                                 *)
LEMMA PrefixSelf ==
    ASSUME NEW S, NEW s \in Seq(S), NEW u \in Seq(S)
    PROVE  IsPrefix(s, s \o u)
<1>1. IsPrefix(s, s)
  BY LenProperties DEF IsPrefix
<1>q. QED
  BY <1>1, PrefixConcat

(* A stream that ends at one thing the device waits at ends at the first.  *)
LEMMA EndReached ==
    ASSUME NEW b \in Seq(Tokens), NEW c \in Seq(Tokens), NEW w, b # <<>>,
           EndsAt(b \o c, w), Last(b).kind \in Waits, ~Last(b).sham
    PROVE  c = <<>> /\ w = Last(b).kind
<1>1. /\ Len(b \o c) = Len(b) + Len(c) /\ Len(c) \in Nat /\ Len(b) \in Nat
      /\ Len(b) >= 1
      /\ \A k \in 1..(Len(b) + Len(c)) :
             (b \o c)[k] = IF k <= Len(b) THEN b[k] ELSE c[k - Len(b)]
  BY ConcatProperties, LenProperties, EmptySeq
<1>2. (b \o c)[Len(b)] = b[Len(b)]
  <2>1. Len(b) \in 1..(Len(b) + Len(c)) /\ Len(b) <= Len(b)
    BY <1>1
  <2>q. QED
    BY <1>1, <2>1
<1>3. Len(c) = 0
  <2> SUFFICES ASSUME Len(c) # 0 PROVE FALSE
    OBVIOUS
  <2>1. Len(b) \in 1..(Len(b \o c) - 1)
    BY <1>1
  <2>2. (b \o c)[Len(b)].kind \in Lines \/ (b \o c)[Len(b)].sham
    BY <2>1 DEF EndsAt
  <2>q. QED
    BY <1>2, <2>2 DEF Last, Lines, Waits
<1>4. c = <<>>
  BY <1>3, EmptySeq
<1>5. w = Last(b).kind
  BY <1>1, <1>2, <1>3 DEF EndsAt, Last
<1>q. QED
  BY <1>4, <1>5

(* What is appended to a stream ends it.                                   *)
LEMMA LastOfConcat ==
    ASSUME NEW s \in Seq(Tokens), NEW t \in Seq(Tokens), t # <<>>
    PROVE  Last(s \o t) = Last(t)
<1>1. /\ Len(s \o t) = Len(s) + Len(t) /\ Len(s) \in Nat /\ Len(t) \in Nat
      /\ Len(t) >= 1
      /\ \A k \in 1..(Len(s) + Len(t)) :
             (s \o t)[k] = IF k <= Len(s) THEN s[k] ELSE t[k - Len(s)]
  BY ConcatProperties, LenProperties, EmptySeq
<1>2. (s \o t)[Len(s) + Len(t)] = t[(Len(s) + Len(t)) - Len(s)]
  <2>1. Len(s) + Len(t) \in 1..(Len(s) + Len(t)) /\ ~(Len(s) + Len(t) <= Len(s))
    BY <1>1
  <2>q. QED
    BY <1>1, <2>1
<1>q. QED
  BY <1>1, <1>2 DEF Last

(* The two groupings of a stream of three parts.                           *)
Regroups(s, t, u) == (s \o t) \o u = s \o (t \o u)

(* How a stream is grouped does not matter.                                *)
LEMMA Regroup ==
    ASSUME NEW s \in Seq(Tokens), NEW t \in Seq(Tokens), NEW u \in Seq(Tokens)
    PROVE  Regroups(s, t, u)
BY ConcatAssociative DEF Regroups

(* Nothing at all.                                                         *)
LEMMA SilentStream ==
    ASSUME NEW s \in Seq(Tokens)
    PROVE  /\ <<>> \o <<>> \o s = s /\ <<>> \o s = s /\ s \o <<>> = s
           /\ <<>> \in Seq(Tokens)
<1>1. <<>> \in Seq(Tokens)
  BY EmptySeq
<1>2. <<>> \o <<>> = <<>> /\ <<>> \o s = s /\ s \o <<>> = s
  BY <1>1, ConcatEmptySeq
<1>q. QED
  BY <1>1, <1>2

-----------------------------------------------------------------------------
(* Session and device.                                                     *)

(* Nothing flows at first.                                                 *)
LEMMA FlowInit == Init => Flow
<1> SUFFICES ASSUME Init PROVE Flow
  OBVIOUS
<1>1. /\ op = "none" /\ inbox = <<>> /\ stray = FALSE
      /\ last.end = at /\ last.sure = FALSE /\ late = (wire # <<>>)
  BY DEF Init
<1>2. ~late => wire = <<>>
  BY <1>1
<1>q. QED
  BY <1>1, <1>2 DEF Flow, InStep, InFlight, Answered, OutputIsAnswer, RepliesFit, Idle

(* The device takes an input.                                              *)
LEMMA DeviceReadsFlow ==
    ASSUME TypeOK, Stages, Flow, NEW text \in Seq(Pieces), NEW k \in Waits,
           DeviceReads(text, k)
    PROVE  Flow'
<1> USE DEF Flow
<1> DEFINE a == Answer(text, k)
<1>1. /\ inbox # <<>> /\ at' = k
      /\ wire' = wire \o a /\ inbox' = Tail(inbox)
      /\ UNCHANGED <<raw, acc, pages, op, stage, call, asked, results,
                     sure, last, late>>
      /\ answered' = (IF sure THEN answered \o a ELSE answered)
  BY DEF DeviceReads, readVars, callVars
<1>2. Head(inbox) \in Inputs /\ Tail(inbox) \in Seq(Inputs)
      /\ Len(Tail(inbox)) = Len(inbox) - 1
  BY <1>1, HeadTailProperties DEF TypeOK
<1>3. a \in Seq(Tokens) /\ EndsAt(a, k)
  BY AnswerEnds
<1> HIDE DEF a
<1>4. InStep'
  BY <1>1 DEF InStep, Idle
<1>5. Answered'
  BY <1>1 DEF Answered, Idle
<1>6. OutputIsAnswer'
  <2> SUFFICES ASSUME Idle, last.sure
               PROVE  /\ ~(last.end \in Waits /\ ~Misled(last))
                      /\ last.end \in Waits \cup {"timeout", "truncated"} =>
                             IsPrefix(last.output, answered')
    BY <1>1 DEF OutputIsAnswer, Idle, Misled
  <2>1. sure /\ ~(last.end \in Waits /\ ~Misled(last))
    BY <1>1 DEF Stages, Answered
  <2>2. answered' = answered \o a
    BY <1>1, <2>1
  <2>3. ASSUME last.end \in Waits \cup {"timeout", "truncated"}
        PROVE  IsPrefix(last.output, answered')
    <3>1. IsPrefix(last.output, answered)
      BY <2>1, <2>3 DEF OutputIsAnswer, Idle
    <3>q. QED
      BY <1>3, <2>2, <3>1, PrefixConcat DEF TypeOK
  <2>q. QED
    BY <2>1, <2>3
<1>7. ASSUME ~Idle, sure
      PROVE  /\ op # "expect" /\ Silent /\ Len(inbox) = 1
             /\ Fits(inbox[1], at) /\ answered = acc
  <2>1. /\ op # "expect" /\ Silent /\ Len(inbox) = 1
        /\ Fits(inbox[1], at) /\ answered = acc \o Stream
    <3>1. EndsAt(Stream, at) => inbox = <<>> \/ TRUE
      OBVIOUS
    <3>q. QED
      BY <1>1, <1>7 DEF InFlight
  <2>2. Stream = <<>> /\ acc \in Seq(Tokens)
    BY <2>1, SilentStream, EmptySeq DEF Silent, Stream, TypeOK
  <2>3. acc \o <<>> = acc
    BY <2>2, SilentStream
  <2>q. QED
    BY <2>1, <2>2, <2>3
<1>8. InFlight'
  <2> SUFFICES ASSUME ~Idle, sure
               PROVE  /\ answered' = acc' \o Stream' /\ op' # "expect"
                      /\ inbox' = <<>> /\ EndsAt(Stream', at')
    BY <1>1 DEF InFlight, Idle
  <2>1. /\ op # "expect" /\ Silent /\ Len(inbox) = 1 /\ answered = acc
    BY <1>7
  <2>2. Stream' = a
    BY <1>1, <1>3, <2>1, SilentStream DEF Stream, Silent
  <2>3. inbox' = <<>>
    BY <1>1, <1>2, <2>1, EmptySeq
  <2>q. QED
    BY <1>1, <1>3, <2>1, <2>2, <2>3
<1>9. RepliesFit'
  <2> SUFFICES ASSUME ~late PROVE ~stray'
    BY <1>1 DEF RepliesFit
  <2>1. ~Idle /\ sure
    BY <1>1 DEF InStep, Idle, Stages
  <2>2. Fits(Head(inbox), at) /\ ~stray
    BY <1>1, <1>7, <2>1 DEF RepliesFit, TypeOK
  <2>q. QED
    BY <2>2 DEF DeviceReads
<1>q. QED
  BY <1>4, <1>5, <1>6, <1>8, <1>9

(* A command or a call begins: in step, the device gets its line alone.    *)
LEMMA BeginFlow ==
    ASSUME TypeOK, Flow, Idle, Begins("first"), op' # "none",
           ~late /\ wire = <<>> /\ inbox = <<>> =>
               /\ wire' = <<>>
               /\ \/ op' = "expect" /\ inbox' = <<>>
                  \/ /\ op' # "expect" /\ Len(inbox') = 1
                     /\ Fits(inbox'[1], at)
    PROVE  Flow'
<1> USE DEF Flow
<1>1. /\ stage' = "first" /\ raw' = <<>> /\ acc' = <<>> /\ answered' = <<>>
      /\ sure' = ~late /\ UNCHANGED <<at, stray, late>>
  BY DEF Begins
<1>2. ~Idle'
  BY <1>1 DEF Idle
<1>3. InStep' /\ Answered' /\ OutputIsAnswer' /\ RepliesFit'
  BY <1>1, <1>2 DEF InStep, Answered, OutputIsAnswer, RepliesFit, Idle
<1>4. InFlight'
  <2> SUFFICES ASSUME sure'
               PROVE  /\ answered' = acc' \o Stream'
                      /\ \/ /\ op' # "expect" /\ Silent'
                            /\ Len(inbox') = 1 /\ Fits(inbox'[1], at')
                         \/ op' = "expect" /\ inbox' = <<>> /\ Silent'
    BY DEF InFlight
  <2>1. ~late /\ wire = <<>> /\ inbox = <<>>
    BY <1>1 DEF InStep, Idle
  <2>2. Silent' /\ Stream' = <<>> /\ acc' \o Stream' = <<>>
    BY <1>1, <2>1, SilentStream DEF Silent, Stream
  <2>q. QED
    BY <1>1, <2>1, <2>2
<1>q. QED
  BY <1>3, <1>4

(* A call or a command ends.                                               *)
LEMMA FinishFlow ==
    ASSUME TypeOK, Stages, Flow, NEW end, NEW output, Finish(end, output),
           late => late', UNCHANGED <<at, stray, answered>>,
           ~late' \/ (sure /\ end \in Waits /\ ~Last(output).sham) =>
               /\ wire' = <<>> /\ inbox' = <<>>
               /\ at = end /\ output = answered,
           sure /\ end \in Waits \cup {"timeout", "truncated"} =>
               IsPrefix(output, answered)
    PROVE  Flow'
<1> USE DEF Flow
<1>1. Idle' /\ last'.end = end /\ last'.output = output /\ last'.sure = sure
  BY DEF Finish, Idle
<1>2. InStep' /\ Answered' /\ OutputIsAnswer' /\ InFlight'
  BY <1>1 DEF InStep, Answered, OutputIsAnswer, InFlight, Idle, Misled
<1>3. RepliesFit'
  BY DEF RepliesFit
<1>q. QED
  BY <1>2, <1>3

(* A chunk is read.                                                        *)
LEMMA ReadFlow ==
    ASSUME TypeOK, Stages, Flow, NEW n \in 1..Len(wire), Read(n)
    PROVE  Flow'
<1>1. PICK pre \in Seq(Tokens), rest \in Seq(Tokens) :
              /\ wire = pre \o rest /\ wire' = rest /\ pre # <<>>
              /\ raw \o pre \in Seq(Tokens) /\ raw \o pre # <<>>
              /\ acc \o (raw \o pre) \in Seq(Tokens)
              /\ op # "none" /\ stage # "between" /\ UNCHANGED <<at, stray>>
              /\ \/ ReadsOn(raw \o pre)
                 \/ Replies(raw \o pre, Reply(Verdict(raw \o pre)))
                 \/ Concludes(raw \o pre, Verdict(raw \o pre))
  BY ReadCases
<1> DEFINE b == raw \o pre
           v == Verdict(b)
           r == Reply(v)
<1>0. /\ raw \in Seq(Tokens) /\ acc \in Seq(Tokens)
      /\ pre \in Seq(Tokens) /\ rest \in Seq(Tokens)
  BY <1>1, StreamsTyped
<1>2. b \in Seq(Tokens) /\ b # <<>>
  BY <1>0, <1>1, JoinTyped
<1>3. Stream = b \o rest
  <2>1. Regroups(raw, pre, rest)
    BY <1>0, Regroup
  <2>q. QED
    BY <1>1, <2>1 DEF b, Regroups, Stream
<1>4. ~Idle /\ wire # <<>>
  BY <1>1, ConcatEqualIffEmpty DEF Idle
<1>5. /\ v \in Waits \cup {"truncated", "match", "open"}
      /\ op # "expect" /\ v \in Waits => Last(b).kind = v
      /\ op # "expect" => v # "match"
      /\ r \in {"space", "secret", "username", "none"}
      /\ r = "space" => v = "more" /\ op # "expect"
      /\ r = "secret" => v = "password" /\ op # "expect"
      /\ r = "username" => v = "username" /\ op # "expect"
      /\ Last(b).sham \in BOOLEAN
  BY <1>2, VerdictKnown, ReplyKnown
<1>6. ASSUME sure
      PROVE  /\ op # "expect" /\ inbox = <<>> /\ EndsAt(Stream, at)
             /\ answered = acc \o Stream
  BY <1>4, <1>6 DEF Flow, InFlight, Silent
<1>7. ASSUME sure, v \in Waits, ~Last(b).sham
      PROVE  rest = <<>> /\ at = v /\ Stream = b
  <2>1. EndsAt(b \o rest, at) /\ Last(b).kind = v
    BY <1>3, <1>5, <1>6, <1>7
  <2>2. rest = <<>> /\ at = v
    BY <1>0, <1>2, <1>7, <2>1, EndReached
  <2>q. QED
    BY <1>2, <1>3, <2>2, SilentStream
<1> HIDE DEF b, v, r
<1>8. CASE ReadsOn(b)
  <2>1. /\ raw' = b /\ wire' = rest /\ UNCHANGED <<at, stray>>
        /\ UNCHANGED <<inbox, answered, op, stage, sure, acc, last, late>>
    BY <1>1, <1>8 DEF ReadsOn
  <2>2. Stream' = Stream
    BY <1>3, <2>1 DEF Stream
  <2>3. InFlight'
    BY <1>6, <2>1, <2>2 DEF InFlight, Idle
  <2>q. QED
    BY <1>4, <2>1, <2>3
    DEF Flow, InStep, Answered, OutputIsAnswer, RepliesFit, Idle
<1>9. CASE Replies(b, r)
  <2>1. /\ r # "none" /\ Write(r) /\ stage' = NextStage(r) /\ raw' = <<>>
        /\ acc' = (IF r = "space" THEN acc \o b ELSE <<>>)
        /\ answered' = (IF r = "space" THEN answered ELSE <<>>)
        /\ UNCHANGED <<op, last, at, stray>> /\ wire' = rest
    BY <1>1, <1>9 DEF Replies
  <2>2. stage' \in {"first", "secret", "username"} /\ ~Idle'
    BY <1>1, <1>5, <2>1 DEF NextStage, Idle
  <2>3. (late => late') /\ (sure' => sure /\ ~Last(b).sham)
    BY <1>9, ZenonT(30) DEF Replies
  <2>4. InFlight'
    <3> SUFFICES ASSUME sure'
                 PROVE  /\ answered' = acc' \o Stream' /\ op' # "expect" /\ Silent'
                        /\ Len(inbox') = 1 /\ Fits(inbox'[1], at')
      BY <2>1 DEF InFlight
    <3>0. sure /\ ~Last(b).sham
      BY <2>3
    <3>1. v \in Waits /\ (r = "space" => v = "more")
          /\ (r = "secret" => v = "password") /\ (r = "username" => v = "username")
      BY <1>5, <2>1 DEF Waits
    <3>2. /\ rest = <<>> /\ at = v /\ Stream = b
          /\ inbox = <<>> /\ answered = acc \o b /\ op # "expect"
      BY <1>6, <1>7, <3>0, <3>1
    <3>3. Len(inbox') = 1 /\ inbox'[1] = r
      BY <1>5, <2>1, <3>2, WriteTyped DEF TypeOK, Inputs
    <3>4. Fits(r, at)
      BY <1>5, <2>1, <3>1, <3>2 DEF Fits
    <3>5. Silent' /\ Stream' = <<>>
      BY <2>1, <3>2, SilentStream DEF Silent, Stream
    <3>6. answered' = acc' \o <<>>
      <4>1. acc \o b \in Seq(Tokens)
        BY <1>0, <1>2, JoinTyped
      <4>q. QED
        BY <2>1, <3>2, <4>1, SilentStream
    <3>q. QED
      BY <2>1, <3>2, <3>3, <3>4, <3>5, <3>6
  <2>5. RepliesFit'
    BY <2>1, <2>3 DEF Flow, RepliesFit
  <2>q. QED
    BY <2>1, <2>2, <2>4, <2>5 DEF Flow, InStep, Answered, OutputIsAnswer, Idle
<1>10. CASE Concludes(b, v)
  <2>1. /\ v # "open" /\ Finish(v, acc \o b) /\ UNCHANGED answered
        /\ op # "expect" => UNCHANGED inbox
    BY <1>10 DEF Concludes
  <2>2. /\ late => late'
        /\ ~late' => ~late /\ v # "truncated" /\ op # "expect" /\ ~Last(b).sham
    BY <1>10, ZenonT(30) DEF Concludes
  <2>3. ~late' => sure /\ v \in Waits /\ ~Last(b).sham
    BY <1>4, <1>5, <2>1, <2>2 DEF Stages
  <2>4. ASSUME sure, v \in Waits, ~Last(b).sham
        PROVE  /\ wire' = <<>> /\ inbox' = <<>>
               /\ at = v /\ acc \o b = answered
    BY <1>1, <1>6, <1>7, <2>1, <2>4
  <2>6. Last(acc \o b) = Last(b)
    BY <1>0, <1>2, LastOfConcat
  <2>5. ASSUME sure PROVE IsPrefix(acc \o b, answered)
    <3>1. answered = acc \o (b \o rest)
      BY <1>3, <1>6, <2>5
    <3>2. Regroups(acc, b, rest)
      BY <1>0, <1>2, Regroup
    <3>3. acc \o b \in Seq(Tokens)
      BY <1>0, <1>2, JoinTyped
    <3>q. QED
      BY <1>0, <3>1, <3>2, <3>3, PrefixSelf DEF Regroups
  <2>q. QED
    BY <1>1, <2>1, <2>2, <2>3, <2>4, <2>5, <2>6, FinishFlow
<1>q. QED
  BY <1>1, <1>8, <1>9, <1>10 DEF b, v, r

(* The deadline passes, or the connection breaks.                          *)
LEMMA CutShortFlow ==
    ASSUME TypeOK, Stages, Flow, Timeout \/ Fails
    PROVE  Flow'
<1>1. late' /\ UNCHANGED <<at, inbox, wire, stray, answered>>
  BY DEF Timeout, Fails, deviceVars
<1>2. CASE Timeout
  <2>1. ~Idle /\ Finish("timeout", acc \o raw)
    BY <1>2 DEF Timeout, Stitch, Idle
  <2>2. ASSUME sure PROVE IsPrefix(acc \o raw, answered)
    <3>1. answered = acc \o Stream
      BY <2>1, <2>2 DEF Flow, InFlight
    <3>2. /\ raw \in Seq(Tokens) /\ acc \in Seq(Tokens) /\ wire \in Seq(Tokens)
          /\ acc \o raw \in Seq(Tokens)
      BY StreamsTyped, JoinTyped
    <3>3. Regroups(acc, raw, wire)
      BY <3>2, Regroup
    <3>q. QED
      BY <3>1, <3>2, <3>3, PrefixSelf DEF Stream, Regroups
  <2>3. "timeout" \notin Waits
    BY DEF Waits
  <2>q. QED
    BY <1>1, <2>1, <2>2, <2>3, FinishFlow
<1>3. CASE Fails
  <2>1. Finish("error", <<>>) /\ "error" \notin Waits
    BY <1>3 DEF Fails, Waits
  <2>q. QED
    BY <1>1, <2>1, FinishFlow
<1>q. QED
  BY <1>2, <1>3

(* Every step keeps what flows accounted for.                              *)
LEMMA FlowStep == TypeOK /\ Stages /\ Flow /\ [Next]_vars => Flow'
<1> SUFFICES ASSUME TypeOK, Stages, Flow, [Next]_vars PROVE Flow'
  OBVIOUS
<1>1. ASSUME Device PROVE Flow'
  BY <1>1, TextIsSeq, DeviceReadsFlow DEF Device
<1>2. ASSUME NEW o \in {"run", "enable", "batch"}, NEW n, CallCommand(o, n)
      PROVE  Flow'
  <2>1. Idle /\ Begins("first") /\ op' = o /\ Command("line")
    BY <1>2 DEF CallCommand, CallBegins, Begins, Idle
  <2>2. /\ wire = <<>> => wire' = <<>>
        /\ inbox = <<>> => Len(inbox') = 1 /\ inbox'[1] = "line"
    BY <2>1, CommandSends
  <2>3. Fits("line", at)
    BY DEF Fits
  <2>q. QED
    BY <2>1, <2>2, <2>3, BeginFlow
<1>3. ASSUME NextCommand PROVE Flow'
  <2>1. /\ Idle /\ stage = "between" /\ Begins("first") /\ op' = op /\ op = "batch"
        /\ Command("next")
    BY <1>3 DEF NextCommand, Begins, Idle
  <2>2. /\ wire = <<>> => wire' = <<>>
        /\ inbox = <<>> => Len(inbox') = 1 /\ inbox'[1] = "next"
    BY <2>1, CommandSends
  <2>3. ~late => at = "prompt"
    BY <2>1 DEF Stages, Flow, InStep
  <2>4. ~late => Fits("next", at)
    BY <2>3 DEF Fits
  <2>q. QED
    BY <2>1, <2>2, <2>4, BeginFlow
<1>4. ASSUME CallLogin PROVE Flow'
  <2>1. /\ Idle /\ Begins("first") /\ op' = "login" /\ wire' = wire
        /\ Write("line")
    BY <1>4 DEF CallLogin, CallBegins, Begins, Idle
  <2>3. inbox = <<>> => Len(inbox') = 1 /\ inbox'[1] = "line"
    BY <2>1, WriteTyped DEF TypeOK, Inputs
  <2>4. Fits("line", at)
    BY DEF Fits
  <2>q. QED
    BY <2>1, <2>3, <2>4, BeginFlow
<1>5. ASSUME CallExpect PROVE Flow'
  <2>1. /\ Idle /\ Begins("first") /\ op' = "expect" /\ UNCHANGED <<inbox, wire>>
    BY <1>5 DEF CallExpect, CallBegins, Idle
  <2>q. QED
    BY <2>1, BeginFlow
<1>6. ASSUME NEW n \in 1..Len(wire), Read(n) PROVE Flow'
  BY <1>6, ReadFlow
<1>7. ASSUME Timeout \/ Fails PROVE Flow'
  BY <1>7, CutShortFlow
<1>8. CASE UNCHANGED vars
  BY <1>8 DEF vars, deviceVars, readVars, callVars, Flow, InStep, InFlight,
     Answered, OutputIsAnswer, RepliesFit, Misled, Idle, Silent, Stream
<1>q. QED
  BY <1>1, <1>2, <1>3, <1>4, <1>5, <1>6, <1>7, <1>8
  DEF Next, NewCall, Session

-----------------------------------------------------------------------------
(* The theorems.                                                           *)

(* The initial states satisfy the invariant.                               *)
LEMMA InvInit == Init => IInv
BY TypeInit, ControlInit, FlowInit DEF IInv

(* Every step keeps it.                                                    *)
LEMMA InvStep == IInv /\ [Next]_vars => IInv'
BY TypeStep, ControlStep, FlowStep DEF IInv, Control

(* The state of a session is always one the code knows.                    *)
THEOREM SessionTypes == Spec => []TypeOK
<1>1. IInv => TypeOK
  BY DEF IInv
<1>q. QED
  BY InvInit, InvStep, <1>1, PTL DEF Spec

(* After a call that was answered nothing is left over and the device      *)
(* waits where the outcome says, until something is cut short.             *)
THEOREM StaysInStep == Spec => []InStep
<1>1. IInv => InStep
  BY DEF IInv, Flow
<1>q. QED
  BY InvInit, InvStep, <1>1, PTL DEF Spec

(* No secret, user name, pager space or next command is taken for anything *)
(* else as long as session and device are in step.                         *)
THEOREM RepliesReachTheirQuestion == Spec => []RepliesFit
<1>1. IInv => RepliesFit
  BY DEF IInv, Flow
<1>q. QED
  BY InvInit, InvStep, <1>1, PTL DEF Spec

(* A call that began in step returns the device's answer to it, or the     *)
(* beginning of it.                                                        *)
THEOREM OutputsAreAnswers == Spec => []OutputIsAnswer
<1>1. IInv => OutputIsAnswer
  BY DEF IInv, Flow
<1>q. QED
  BY InvInit, InvStep, <1>1, PTL DEF Spec

(* run_commands accounts for every command, in order.                      *)
THEOREM BatchesAreAccounted == Spec => []BatchAccounted
<1>1. IInv => BatchAccounted
  BY DEF IInv, Control
<1>q. QED
  BY InvInit, InvStep, <1>1, PTL DEF Spec

(* What a command that began in step returns begins the answer, but for an *)
(* error's, and a rejection in it is one in the answer.                    *)
LEMMA OutputBegins ==
    ASSUME IInv, op = "none", last.op = "run", last.sure
    PROVE  /\ HasRejection(last.output) => HasRejection(answered)
           /\ last.end \in Waits \cup {"timeout", "truncated", "error"}
           /\ last.end \in Waits /\ ~Misled(last) => last.output = answered
<1>1. /\ last.output \in Seq(Tokens) /\ answered \in Seq(Tokens)
      /\ last.end \in Waits \cup {"timeout", "truncated", "error"}
      /\ last.end = "error" => last.output = <<>>
      /\ last.end # "error" => IsPrefix(last.output, answered)
      /\ last.end \in Waits /\ ~Misled(last) => last.output = answered
  <2>1. /\ last.output \in Seq(Tokens) /\ answered \in Seq(Tokens)
        /\ last.end \in Ends
    BY DEF IInv, TypeOK
  <2>2. last.end # "match" /\ (last.end = "error" => last.output = <<>>)
    BY DEF IInv, Control, Stages
  <2>3. OutputIsAnswer
    BY DEF IInv, Flow
  <2>q. QED
    BY <2>1, <2>2, <2>3 DEF OutputIsAnswer, Ends
<1>2. /\ Len(last.output) \in Nat /\ Len(answered) \in Nat
      /\ DOMAIN last.output = 1..Len(last.output)
      /\ DOMAIN answered = 1..Len(answered)
      /\ SubSeq(last.output, 1, Len(last.output)) = last.output
  BY <1>1, LenProperties, SubSeqFull
<1>3. ASSUME HasRejection(last.output) PROVE HasRejection(answered)
  <2>1. PICK j \in 1..Len(last.output) : last.output[j].kind = "reject"
    BY <1>2, <1>3 DEF HasRejection
  <2>2. /\ Len(last.output) <= Len(answered)
        /\ SubSeq(answered, 1, Len(last.output)) = last.output
    <3>1. last.end # "error"
      BY <1>1, <1>2, <2>1, EmptySeq
    <3>q. QED
      BY <1>1, <1>2, <3>1 DEF IsPrefix
  <2>3. \A k \in 1..Len(last.output) : answered[k] \in Tokens
    BY <1>1, <1>2, <2>2, ElementOfSeq
  <2>4. SubSeq(answered, 1, Len(last.output))[j] = answered[1 + j - 1]
    BY <1>2, <2>3, SubSeqProperties
  <2>5. answered[j].kind = "reject" /\ j \in DOMAIN answered
    BY <1>2, <2>1, <2>2, <2>4
  <2>q. QED
    BY <2>5 DEF HasRejection
<1>q. QED
  BY <1>1, <1>3

(* What is refused was rejected by the device, and what was rejected is    *)
(* refused unless the read was cut short before the rejection.             *)
THEOREM RejectionsAreSeen == Spec => []RejectionsSeen
<1>1. IInv => RejectionsSeen
  <2> SUFFICES ASSUME IInv, op = "none", last.op = "run", last.sure
               PROVE  RejectionsSeen
    BY DEF RejectionsSeen
  <2>1. /\ HasRejection(last.output) => HasRejection(answered)
        /\ last.end \in Waits \cup {"timeout", "truncated", "error"}
        /\ last.end \in Waits /\ ~Misled(last) => last.output = answered
    BY OutputBegins
  <2>2. (Backup(last) = "rejected" \/ ~DiagnosisOk(last)) => HasRejection(last.output)
    BY DEF Backup, DiagnosisOk
  <2>3. (Backup(last) = "ok" \/ DiagnosisOk(last)) => ~HasRejection(last.output)
    BY DEF Backup, DiagnosisOk
  <2>q. QED
    BY <2>1, <2>2, <2>3 DEF RejectionsSeen
<1>q. QED
  BY InvInit, InvStep, <1>1, PTL DEF Spec

=============================================================================
