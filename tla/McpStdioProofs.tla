--------------------------- MODULE McpStdioProofs ---------------------------
(***************************************************************************)
(* Proofs about the stdio session.  Every line the client wrote is in one  *)
(* place: answered, skipped as blank, with the session, in the channel,    *)
(* with the reader, or still in the pipe, in this order.  The invariant    *)
(* says so with two witnesses that are no part of the state: how many      *)
(* lines the reader has sent, and the positions of the answered lines.     *)
(***************************************************************************)
EXTENDS McpStdio, Integers, TLAPS

AtWork == {"handling", "calling", "replying", "panicked"}
Read == Len(written) - Len(stdin)       \* lines the reader has taken out

ShapesInv ==
    /\ McpTypeOK
    /\ reader = "sending" => held \in Lines
    /\ loop \in AtWork => message \in Lines
    /\ loop = "replying" => CarriesId(reply, message)
    /\ \A i \in DOMAIN replies : CarriesId(replies[i], answered[i])

(* What is still in the pipe, and what the reader holds.                    *)
Piped(sent) ==
    /\ Len(stdin) <= Len(written)
    /\ \A i \in 1..Len(stdin) : stdin[i] = written[Read + i]
    /\ sent \in 0..Read
    /\ reader = "reading" => sent = Read
    /\ reader = "sending" => sent + 1 = Read /\ held = written[Read] /\ held.kind # "not_utf8"
    /\ \A i \in 1..sent : written[i].kind # "not_utf8"

(* What is in the channel, and what the session works on.                   *)
Taken(sent) == sent - Len(channel)
Channelled(sent) ==
    /\ Len(channel) <= sent
    /\ \A i \in 1..Len(channel) : channel[i] = written[Taken(sent) + i]
    /\ loop \in AtWork => /\ Taken(sent) >= 1
                          /\ message = written[Taken(sent)]
                          /\ message.kind # "blank"

(* What was answered: of the lines the session is done with, those that are *)
(* not blank.                                                               *)
Done(sent) == IF loop \in AtWork THEN Taken(sent) - 1 ELSE Taken(sent)
Answers(sent, at) ==
    /\ at \in [DOMAIN answered -> 1..sent]
    /\ \A i, j \in DOMAIN answered : i < j => at[i] < at[j]
    /\ \A i \in DOMAIN answered : answered[i] = written[at[i]]
    /\ \A k \in 1..sent :
          (\E i \in DOMAIN answered : at[i] = k) <=> (k <= Done(sent) /\ written[k].kind # "blank")

Placed(sent, at) == Piped(sent) /\ Channelled(sent) /\ Answers(sent, at)

McpInv == ShapesInv /\ \E sent, at : Placed(sent, at)

LEMMA InitInv == McpInit => McpInv
<1> SUFFICES ASSUME McpInit PROVE McpInv
  OBVIOUS
<1>1. ShapesInv
  <2>1. NoReply \in Answer
    BY DEF NoReply, Reply, Answer, Ids, Outcomes
  <2> QED BY <2>1, McpAssumption DEF McpInit, ShapesInv, McpTypeOK, AtWork, Blank
<1>2. Placed(0, [i \in {} |-> 0])
  BY DEF McpInit, Placed, Piped, Channelled, Answers, Read, AtWork
<1> QED BY <1>1, <1>2 DEF McpInv

-----------------------------------------------------------------------------
(* Each step keeps the shapes.                                              *)
LEMMA ShapesStep ==
    ASSUME ShapesInv, NEW sent, NEW at, Placed(sent, at), [McpNext]_mcpVars
    PROVE  ShapesInv'
<1> USE DEF ShapesInv, McpTypeOK, AtWork
<1>1. CASE UNCHANGED mcpVars
  BY <1>1 DEF mcpVars, CarriesId
<1>2. ASSUME NEW m \in Lines, ClientWrites(m) PROVE ShapesInv'
  BY <1>2, McpAssumption DEF ClientWrites, sessionVars, CarriesId
<1>3. CASE ClientClosesStdin \/ ClientClosesStdout
  BY <1>3 DEF ClientClosesStdin, ClientClosesStdout, sessionVars, CarriesId
<1>4. ASSUME NEW t \in Tools, Register(t) PROVE ShapesInv'
  BY <1>4 DEF Register, pipeVars, sessionVars, CarriesId
<1>5. CASE ReadLine
  <2>1. Head(stdin) \in Lines /\ Tail(stdin) \in Seq(Lines)
    BY <1>5 DEF ReadLine
  <2> QED BY <1>5, <2>1 DEF ReadLine, sessionVars, CarriesId
<1>6. CASE ReadEof \/ SendFails
  BY <1>6 DEF ReadEof, SendFails, pipeVars, sessionVars, CarriesId
<1>7. CASE SendLine
  BY <1>7, McpAssumption DEF SendLine, pipeVars, sessionVars, CarriesId
<1>8. CASE Receive
  <2>1. channel # <<>>
    BY <1>8 DEF Receive, SendersLeft
  <2>2. Head(channel) \in Lines /\ Tail(channel) \in Seq(Lines) /\ Len(Tail(channel)) <= Len(channel)
    BY <2>1
  <2>3. /\ message' = Head(channel) /\ channel' = Tail(channel)
        /\ loop' \in {"receiving", "handling"}
        /\ UNCHANGED <<reply, replies, answered, reader, held, registered>> /\ UNCHANGED pipeVars
    BY <1>8, <2>1 DEF Receive
  <2>4. Len(Tail(channel)) \in Nat /\ Len(channel) \in Nat /\ Len(Tail(channel)) <= Capacity
    BY <2>2, McpAssumption
  <2> QED BY <2>2, <2>3, <2>4 DEF pipeVars, CarriesId
<1>9. CASE HandleDirectly
  <2>1. message \in Lines /\ message.kind \in Kinds \ {"blank", "not_utf8", "call_tool"}
    <3>1. message \in Lines /\ message.kind # "blank" /\ message.kind # "call_tool"
      BY <1>9 DEF HandleDirectly, Placed, Channelled
    <3>2. message.kind # "not_utf8"
      BY <1>9 DEF HandleDirectly, Placed, Piped, Channelled, Taken
    <3> QED BY <3>1, <3>2, McpAssumption
  <2>2. DirectReply(message) \in Answer /\ CarriesId(DirectReply(message), message)
    BY <2>1 DEF DirectReply, Reply, Outcomes, Kinds, CarriesId, Answer, Ids
  <2> QED BY <1>9, <2>1, <2>2 DEF HandleDirectly, pipeVars, CarriesId
<1>10. CASE CallTool
  BY <1>10 DEF CallTool, Reply, Outcomes, pipeVars, CarriesId, Answer, Ids
<1>11. CASE ToolReturns
  <2>1. Execute(message.tool, message.arguments) \subseteq Outcomes
    BY DEF Execute, QueryDatabase, DiscoverFiles, SystemInfo, Outcomes
  <2>2. PICK outcome \in Outcomes : reply' = Reply(message.id, outcome)
    BY <1>11, <2>1 DEF ToolReturns
  <2>3. message \in Lines
    BY <1>11 DEF ToolReturns
  <2>4. reply' \in Answer /\ CarriesId(reply', message)
    BY <2>2, <2>3 DEF Reply, Answer, Ids, CarriesId
  <2> QED BY <1>11, <2>4 DEF ToolReturns, pipeVars, CarriesId
<1>12. CASE WriteReply
  <2>1. /\ loop = "replying"
        /\ UNCHANGED <<message, reply, reader, held, channel, registered>> /\ UNCHANGED pipeVars
    BY <1>12 DEF WriteReply
  <2>2. CASE stdoutOpen
    <3>1. replies' = Append(replies, reply) /\ answered' = Append(answered, message) /\ loop' = "receiving"
      BY <1>12, <2>2 DEF WriteReply
    <3>2. message \in Lines /\ reply \in Answer /\ CarriesId(reply, message)
      BY <2>1
    <3>3. /\ answered' \in Seq(Lines) /\ Len(answered') = Len(answered) + 1
          /\ replies' \in Seq(Answer) /\ Len(replies') = Len(replies) + 1
      BY <3>1, <3>2
    <3>4. \A i \in DOMAIN replies' : CarriesId(replies'[i], answered'[i])
      BY <3>1, <3>2, <3>3 DEF CarriesId
    <3> QED BY <2>1, <3>1, <3>3, <3>4 DEF pipeVars
  <2>3. CASE ~stdoutOpen
    <3>1. UNCHANGED <<replies, answered>> /\ loop' = "panicked"
      BY <1>12, <2>3 DEF WriteReply
    <3> QED BY <2>1, <3>1 DEF pipeVars, CarriesId
  <2> QED BY <2>2, <2>3
<1> QED
  BY <1>1, <1>2, <1>3, <1>4, <1>5, <1>6, <1>7, <1>8, <1>9, <1>10, <1>11, <1>12
  DEF McpNext, ReaderStep, SessionStep

-----------------------------------------------------------------------------
(* Each step keeps every line in its place.  Steps that move no line:       *)
LEMMA SamePlaces ==
    ASSUME NEW sent, NEW at, Placed(sent, at),
           UNCHANGED <<written, stdin, channel, answered>>,
           (reader' = reader /\ held' = held) \/ reader' = "ended",
           message' = message, loop' = loop \/ {loop, loop'} \subseteq AtWork
    PROVE  Placed(sent, at)'
<1>1. Piped(sent)'
  BY DEF Placed, Piped, Read
<1>2. Channelled(sent)' /\ Done(sent)' = Done(sent)
  BY DEF Placed, Channelled, Taken, Done, AtWork
<1>3. Answers(sent, at)'
  BY <1>2 DEF Placed, Answers
<1> QED BY <1>1, <1>2, <1>3 DEF Placed

LEMMA ClientWritesPlaces ==
    ASSUME ShapesInv, NEW sent, NEW at, Placed(sent, at), NEW m \in Lines, ClientWrites(m)
    PROVE  Placed(sent, at)'
<1>1. /\ written' = Append(written, m) /\ stdin' = Append(stdin, m)
      /\ UNCHANGED <<reader, held, channel, loop, message, answered>>
  BY DEF ClientWrites, sessionVars
<1>2. written \in Seq(Lines) /\ stdin \in Seq(Lines) /\ channel \in Seq(Lines)
  BY DEF ShapesInv, McpTypeOK
<1>3. Read' = Read /\ Read \in Nat /\ Read <= Len(written)
  BY <1>1, <1>2 DEF Read, Placed, Piped
<1>4. \A i \in 1..Len(written) : written'[i] = written[i]
  BY <1>1, <1>2
<1>5. Piped(sent)'
  <2>1. /\ Len(stdin') = Len(stdin) + 1 /\ Len(stdin) \in Nat /\ stdin'[Len(stdin) + 1] = m
        /\ \A i \in 1..Len(stdin) : stdin'[i] = stdin[i]
        /\ Len(written') = Len(written) + 1 /\ Len(written) \in Nat /\ written'[Len(written) + 1] = m
    BY <1>1, <1>2
  <2>2. Read + Len(stdin) = Len(written)
    BY <2>1 DEF Read
  <2>3. ASSUME NEW i \in 1..Len(stdin') PROVE stdin'[i] = written'[Read + i]
    <3>1. CASE i \in 1..Len(stdin)
      <4>1. Read + i \in 1..Len(written) /\ stdin[i] = written[Read + i]
        <5>1. Read \in Nat /\ i \in Nat /\ i <= Len(stdin) /\ 1 <= i
          BY <1>3, <2>1, <3>1
        <5>2. Read + i \in 1..Len(written)
          BY <2>1, <2>2, <5>1
        <5> QED BY <3>1, <5>2 DEF Placed, Piped
      <4> QED BY <1>4, <2>1, <3>1, <4>1
    <3>2. CASE i = Len(stdin) + 1
      <4>1. Read + i = Len(written) + 1
        BY <1>3, <2>1, <2>2, <3>2
      <4> QED BY <2>1, <3>2, <4>1
    <3> QED BY <2>1, <3>1, <3>2
  <2>4. /\ sent \in 0..Read
        /\ \A i \in 1..sent : i \in 1..Len(written) /\ written'[i] = written[i]
    BY <1>3, <1>4, <2>1 DEF Placed, Piped
  <2>5. reader = "sending" => Read \in 1..Len(written)
    BY <1>3, <2>1, <2>4 DEF Placed, Piped
  <2>6. Len(stdin') <= Len(written')
    BY <2>1 DEF Placed, Piped
  <2>7. sent \in 0..Read' /\ \A i \in 1..sent : written'[i].kind # "not_utf8"
    BY <1>3, <2>4 DEF Placed, Piped
  <2>8. \A i \in 1..Len(stdin') : stdin'[i] = written'[Read' + i]
    BY <1>3, <2>3
  <2>9. /\ reader = "reading" => sent = Read'
        /\ reader = "sending" => sent + 1 = Read' /\ held = written'[Read'] /\ held.kind # "not_utf8"
    BY <1>3, <1>4, <2>5 DEF Placed, Piped
  <2> QED BY <1>1, <2>6, <2>7, <2>8, <2>9 DEF Piped
<1>6. sent \in Nat /\ sent <= Len(written)
  BY <1>3 DEF Placed, Piped
<1>7. Channelled(sent)'
  BY <1>1, <1>2, <1>4, <1>6 DEF Placed, Channelled, Taken
<1>8. Answers(sent, at)'
  <2>1. Done(sent)' = Done(sent)
    BY <1>1 DEF Done, Taken
  <2>2. \A k \in 1..sent : written'[k] = written[k]
    BY <1>1, <1>4, <1>6
  <2>3. answered' = answered
    BY <1>1
  <2> QED BY <2>1, <2>2, <2>3 DEF Placed, Answers
<1> QED BY <1>5, <1>7, <1>8 DEF Placed

LEMMA ReadLinePlaces ==
    ASSUME ShapesInv, NEW sent, NEW at, Placed(sent, at), ReadLine
    PROVE  Placed(sent, at)'
<1>1. /\ reader = "reading" /\ stdin # <<>> /\ stdin' = Tail(stdin)
      /\ \/ reader' = "ended"
         \/ reader' = "sending" /\ held' = Head(stdin) /\ held'.kind # "not_utf8"
      /\ UNCHANGED <<written, channel, loop, message, answered>>
  BY DEF ReadLine, sessionVars
<1>2. written \in Seq(Lines) /\ stdin \in Seq(Lines)
  BY DEF ShapesInv, McpTypeOK
<1>3. /\ Len(stdin') = Len(stdin) - 1 /\ Len(stdin) \in Nat /\ Len(written) \in Nat
      /\ \A i \in 1..Len(stdin') : stdin'[i] = stdin[i + 1]
      /\ Head(stdin) = stdin[1] /\ Len(stdin) >= 1
  BY <1>1, <1>2
<1>4. Read' = Read + 1 /\ Read \in Nat
  BY <1>1, <1>3 DEF Read, Placed, Piped
<1>5. Head(stdin) = written[Read']
  BY <1>3, <1>4 DEF Placed, Piped
<1>6. \A i \in 1..Len(stdin') : stdin'[i] = written[Read' + i]
  <2> SUFFICES ASSUME NEW i \in 1..Len(stdin') PROVE stdin'[i] = written[Read' + i]
    OBVIOUS
  <2>1. i + 1 \in 1..Len(stdin) /\ Read + (i + 1) = Read' + i
    BY <1>3, <1>4
  <2>2. stdin[i + 1] = written[Read + (i + 1)]
    BY <2>1 DEF Placed, Piped
  <2> QED BY <1>3, <2>1, <2>2
<1>7. Piped(sent)'
  BY <1>1, <1>3, <1>4, <1>5, <1>6 DEF Placed, Piped
<1>8. Channelled(sent)' /\ Answers(sent, at)'
  BY <1>1 DEF Placed, Channelled, Answers, Taken, Done
<1> QED BY <1>7, <1>8 DEF Placed

LEMMA SendLinePlaces ==
    ASSUME ShapesInv, NEW sent, NEW at, Placed(sent, at), SendLine
    PROVE  Placed(sent + 1, at)'
<1>1. /\ reader = "sending" /\ reader' = "reading" /\ channel' = Append(channel, held)
      /\ UNCHANGED <<written, stdin, loop, message, answered>>
  BY DEF SendLine, pipeVars, sessionVars
<1>2. written \in Seq(Lines) /\ stdin \in Seq(Lines) /\ channel \in Seq(Lines) /\ held \in Lines
  BY <1>1 DEF ShapesInv, McpTypeOK
<1>3. /\ sent \in Nat /\ sent + 1 = Read /\ held = written[sent + 1] /\ held.kind # "not_utf8"
      /\ \A i \in 1..sent : written[i].kind # "not_utf8"
  BY <1>1, <1>2 DEF Placed, Piped, Read
<1>4. Read' = Read
  BY <1>1 DEF Read
<1>5. Piped(sent + 1)'
  BY <1>1, <1>2, <1>3, <1>4 DEF Placed, Piped
<1>6. /\ Len(channel') = Len(channel) + 1 /\ Len(channel) \in Nat
      /\ \A i \in 1..Len(channel) : channel'[i] = channel[i]
      /\ channel'[Len(channel) + 1] = held
  BY <1>1, <1>2
<1>7. Taken(sent + 1)' = Taken(sent) /\ Taken(sent) \in Nat
  BY <1>3, <1>6 DEF Taken, Placed, Channelled
<1>8. Channelled(sent + 1)'
  <2>1. \A i \in 1..Len(channel') : channel'[i] = written[Taken(sent) + i]
    <3> SUFFICES ASSUME NEW i \in 1..Len(channel') PROVE channel'[i] = written[Taken(sent) + i]
      OBVIOUS
    <3>1. CASE i \in 1..Len(channel)
      BY <1>6, <3>1 DEF Placed, Channelled
    <3>2. CASE i = Len(channel) + 1
      <4>1. Taken(sent) + i = sent + 1
        BY <1>3, <1>6, <3>2 DEF Taken
      <4> QED BY <1>3, <1>6, <3>2, <4>1
    <3> QED BY <1>6, <3>1, <3>2
  <2>2. Len(channel') <= sent + 1
    BY <1>3, <1>6 DEF Placed, Channelled
  <2> QED BY <1>1, <1>7, <2>1, <2>2 DEF Placed, Channelled
<1>9. Answers(sent + 1, at)'
  <2>1. Done(sent + 1)' = Done(sent) /\ Done(sent) \in Int /\ Done(sent) <= sent
    BY <1>1, <1>3, <1>6, <1>7 DEF Done, Taken
  <2>2. /\ at \in [DOMAIN answered -> 1..sent]
        /\ \A k \in 1..sent :
              (\E i \in DOMAIN answered : at[i] = k) <=> (k <= Done(sent) /\ written[k].kind # "blank")
    BY DEF Placed, Answers
  <2>3. at \in [DOMAIN answered -> 1..(sent + 1)]
    BY <1>3, <2>2
  <2>4. ASSUME NEW k \in 1..(sent + 1)
        PROVE  (\E i \in DOMAIN answered : at[i] = k) <=> (k <= Done(sent) /\ written[k].kind # "blank")
    <3>1. CASE k \in 1..sent
      BY <2>2, <3>1
    <3>2. CASE k = sent + 1
      <4>1. ~(k <= Done(sent))
        BY <1>3, <2>1, <3>2
      <4>2. \A i \in DOMAIN answered : at[i] # k
        BY <1>3, <2>2, <3>2
      <4> QED BY <4>1, <4>2
    <3> QED BY <1>3, <3>1, <3>2
  <2> QED BY <1>1, <2>1, <2>3, <2>4 DEF Placed, Answers
<1> QED BY <1>5, <1>8, <1>9 DEF Placed

LEMMA ReceivePlaces ==
    ASSUME ShapesInv, NEW sent, NEW at, Placed(sent, at), Receive
    PROVE  Placed(sent, at)'
<1>1. channel # <<>>
  BY DEF Receive, SendersLeft
<1>2. /\ loop = "receiving" /\ message' = Head(channel) /\ channel' = Tail(channel)
      /\ \/ message'.kind = "blank" /\ loop' = "receiving"
         \/ message'.kind # "blank" /\ loop' = "handling"
      /\ UNCHANGED <<written, stdin, reader, held, answered>>
  BY <1>1 DEF Receive, pipeVars
<1>3. channel \in Seq(Lines)
  BY DEF ShapesInv, McpTypeOK
<1>4. sent \in Nat /\ Piped(sent)'
  <2>1. Len(written) \in Nat /\ Len(stdin) \in Nat
    BY DEF ShapesInv, McpTypeOK
  <2>2. Read' = Read /\ Read \in Int
    BY <1>2, <2>1 DEF Read
  <2> QED BY <1>2, <2>2 DEF Placed, Piped
<1>5. /\ Len(channel') = Len(channel) - 1 /\ Len(channel) \in Nat /\ Len(channel) >= 1
      /\ \A i \in 1..Len(channel') : channel'[i] = channel[i + 1]
      /\ Head(channel) = channel[1]
  BY <1>1, <1>2, <1>3
<1>6. Taken(sent)' = Taken(sent) + 1 /\ Taken(sent) \in Nat
  BY <1>4, <1>5 DEF Taken, Placed, Channelled
<1>7. Head(channel) = written[Taken(sent) + 1]
  BY <1>5 DEF Placed, Channelled
<1>8. Channelled(sent)'
  <2>1. \A i \in 1..Len(channel') : channel'[i] = written'[Taken(sent)' + i]
    <3> SUFFICES ASSUME NEW i \in 1..Len(channel') PROVE channel'[i] = written[Taken(sent)' + i]
      BY <1>2
    <3>1. i + 1 \in 1..Len(channel) /\ Taken(sent) + (i + 1) = Taken(sent)' + i
      BY <1>5, <1>6
    <3>2. channel[i + 1] = written[Taken(sent) + (i + 1)]
      BY <3>1 DEF Placed, Channelled
    <3> QED BY <1>5, <3>1, <3>2
  <2>2. Len(channel') <= sent
    BY <1>4, <1>5 DEF Placed, Channelled
  <2>3. loop' \in AtWork => /\ Taken(sent)' >= 1 /\ message' = written[Taken(sent)']
                            /\ message'.kind # "blank"
    BY <1>2, <1>6, <1>7 DEF AtWork
  <2> QED BY <1>2, <2>1, <2>2, <2>3 DEF Channelled
<1>9. Answers(sent, at)'
  <2>1. Done(sent) = Taken(sent)
    BY <1>2 DEF Done, AtWork
  <2>2. \A k \in 1..sent : (k <= Done(sent)' /\ written[k].kind # "blank")
                           <=> (k <= Done(sent) /\ written[k].kind # "blank")
    BY <1>2, <1>4, <1>6, <1>7, <2>1 DEF Done, AtWork
  <2> QED BY <1>2, <2>2 DEF Placed, Answers
<1> QED BY <1>4, <1>8, <1>9 DEF Placed

LEMMA WriteReplyPlaces ==
    ASSUME ShapesInv, NEW sent, NEW at, Placed(sent, at), WriteReply, stdoutOpen
    PROVE  \E b : Placed(sent, b)'
<1>1. /\ loop = "replying" /\ loop' = "receiving" /\ answered' = Append(answered, message)
      /\ UNCHANGED <<message, reader, held, channel, written, stdin>>
  BY DEF WriteReply, pipeVars
<1>2. answered \in Seq(Lines) /\ message \in Lines /\ channel \in Seq(Lines)
  BY <1>1 DEF ShapesInv, McpTypeOK, AtWork
<1>3. PICK n \in Nat : n = Len(answered)
  BY <1>2
<1>4. /\ DOMAIN answered = 1..n /\ DOMAIN answered' = 1..(n + 1)
      /\ \A i \in 1..n : answered'[i] = answered[i]
      /\ answered'[n + 1] = message
  BY <1>1, <1>2, <1>3
<1>5. sent \in Nat /\ Piped(sent)'
  <2>1. Len(written) \in Nat /\ Len(stdin) \in Nat
    BY DEF ShapesInv, McpTypeOK
  <2>2. Read' = Read /\ Read \in Int
    BY <1>1, <2>1 DEF Read
  <2> QED BY <1>1, <2>2 DEF Placed, Piped
<1>6. PICK t \in 1..sent : t = Taken(sent) /\ message = written[t] /\ written[t].kind # "blank"
  <2>1. Taken(sent) \in 1..sent
    BY <1>1, <1>2, <1>5 DEF Placed, Channelled, Taken, AtWork
  <2> QED BY <1>1, <2>1 DEF Placed, Channelled, AtWork
<1>7. Taken(sent)' = t /\ Done(sent) = t - 1 /\ Done(sent)' = t
  BY <1>1, <1>6 DEF Taken, Done, AtWork
<1>8. Channelled(sent)'
  BY <1>1, <1>7, <1>6 DEF Placed, Channelled, AtWork
<1> DEFINE b == [i \in 1..(n + 1) |-> IF i = n + 1 THEN t ELSE at[i]]
<1>9. Answers(sent, b)'
  <2>1. /\ at \in [1..n -> 1..sent]
        /\ \A i, j \in 1..n : i < j => at[i] < at[j]
        /\ \A i \in 1..n : answered[i] = written[at[i]]
        /\ \A k \in 1..sent :
              (\E i \in 1..n : at[i] = k) <=> (k <= t - 1 /\ written[k].kind # "blank")
    BY <1>4, <1>7 DEF Placed, Answers
  <2>2. \A i \in 1..n : at[i] \in 1..sent /\ at[i] < t
    BY <1>5, <1>6, <2>1
  <2>3. /\ b[n + 1] = t /\ \A i \in 1..n : b[i] = at[i]
        /\ b \in [1..(n + 1) -> 1..sent]
    BY <1>5, <1>6, <2>2
  <2> HIDE DEF b
  <2>4. \A i, j \in 1..(n + 1) : i < j => b[i] < b[j]
    <3> SUFFICES ASSUME NEW i \in 1..(n + 1), NEW j \in 1..(n + 1), i < j PROVE b[i] < b[j]
      OBVIOUS
    <3>1. i \in 1..n
      BY <1>3
    <3>2. CASE j = n + 1
      BY <2>2, <2>3, <3>1, <3>2
    <3>3. CASE j \in 1..n
      BY <2>1, <2>3, <3>1, <3>3
    <3> QED BY <1>3, <3>2, <3>3
  <2>5. \A i \in 1..(n + 1) : answered'[i] = written[b[i]]
    BY <1>3, <1>4, <1>6, <2>1, <2>3
  <2>6. ASSUME NEW k \in 1..sent
        PROVE  (\E i \in 1..(n + 1) : b[i] = k) <=> (k <= t /\ written[k].kind # "blank")
    <3>1. (\E i \in 1..(n + 1) : b[i] = k) <=> (k = t \/ \E i \in 1..n : at[i] = k)
      <4>1. n + 1 \in 1..(n + 1) /\ \A i \in 1..(n + 1) : i \in 1..n \/ i = n + 1
        BY <1>3
      <4>2. \A i \in 1..n : i \in 1..(n + 1)
        BY <1>3
      <4> QED BY <2>3, <4>1, <4>2, Zenon
    <3>2. (k = t \/ (k <= t - 1 /\ written[k].kind # "blank")) <=> (k <= t /\ written[k].kind # "blank")
      BY <1>5, <1>6
    <3> QED BY <2>1, <3>1, <3>2
  <2> QED BY <1>1, <1>4, <1>7, <2>3, <2>4, <2>5, <2>6 DEF Answers
<1> QED BY <1>5, <1>8, <1>9 DEF Placed

LEMMA McpStep == McpInv /\ [McpNext]_mcpVars => McpInv'
<1> SUFFICES ASSUME ShapesInv, NEW sent, NEW at, Placed(sent, at), [McpNext]_mcpVars
             PROVE  \E s, a : Placed(s, a)'
  BY ShapesStep DEF McpInv
<1>1. ASSUME UNCHANGED mcpVars PROVE Placed(sent, at)'
  BY <1>1, SamePlaces DEF mcpVars
<1>2. ASSUME NEW m \in Lines, ClientWrites(m) PROVE Placed(sent, at)'
  BY <1>2, ClientWritesPlaces
<1>3. ASSUME ClientClosesStdin \/ ClientClosesStdout \/ \E t \in Tools : Register(t)
      PROVE  Placed(sent, at)'
  <2>1. UNCHANGED <<written, stdin, channel, answered, reader, held, loop, message>>
    BY <1>3 DEF ClientClosesStdin, ClientClosesStdout, Register, pipeVars, sessionVars
  <2> QED BY <2>1, SamePlaces
<1>4. ASSUME ReadEof \/ SendFails PROVE Placed(sent, at)'
  <2>1. UNCHANGED <<written, stdin, channel, answered, loop, message>> /\ reader' = "ended"
    BY <1>4 DEF ReadEof, SendFails, pipeVars, sessionVars
  <2> QED BY <2>1, SamePlaces
<1>5. ASSUME HandleDirectly \/ CallTool \/ ToolReturns PROVE Placed(sent, at)'
  <2>1. UNCHANGED <<written, stdin, channel, answered, reader, held, message>>
    BY <1>5 DEF HandleDirectly, CallTool, ToolReturns, pipeVars
  <2>2. loop \in AtWork /\ loop' \in AtWork
    BY <1>5 DEF HandleDirectly, CallTool, ToolReturns, AtWork
  <2> QED BY <2>1, <2>2, SamePlaces
<1>6. ASSUME WriteReply, ~stdoutOpen PROVE Placed(sent, at)'
  <2>1. UNCHANGED <<written, stdin, channel, answered, reader, held, message>>
    BY <1>6 DEF WriteReply, pipeVars
  <2>2. loop \in AtWork /\ loop' \in AtWork
    BY <1>6 DEF WriteReply, AtWork
  <2> QED BY <2>1, <2>2, SamePlaces
<1>7. ASSUME ReadLine PROVE Placed(sent, at)'
  BY <1>7, ReadLinePlaces
<1>10. ASSUME Receive PROVE Placed(sent, at)'
  BY <1>10, ReceivePlaces
<1>8. ASSUME SendLine PROVE Placed(sent + 1, at)'
  BY <1>8, SendLinePlaces
<1>9. ASSUME WriteReply, stdoutOpen PROVE \E b : Placed(sent, b)'
  BY <1>9, WriteReplyPlaces
<1> QED
  BY <1>1, <1>2, <1>3, <1>4, <1>5, <1>6, <1>7, <1>8, <1>9, <1>10 DEF McpNext, ReaderStep, SessionStep

-----------------------------------------------------------------------------
(* The invariant of the session holds always.                               *)
THEOREM McpInductive == McpSpec => []McpInv
BY InitInv, McpStep, PTL DEF McpSpec

(* The session's state keeps its shape: the channel never exceeds its       *)
(* capacity, and every reply is one the protocol knows.                     *)
THEOREM McpTypeCorrect == McpSpec => []McpTypeOK
<1>1. McpInv => McpTypeOK
  BY DEF McpInv, ShapesInv
<1> QED BY McpInductive, <1>1, PTL

(* Every line is answered at most once, in the order written, none that     *)
(* needs an answer is overtaken, and every reply carries its request's id:  *)
(* for every capacity of the channel and sessions of every length.          *)
THEOREM InOrder == McpSpec => []AnswersInOrder
<1>1. ASSUME McpInv PROVE AnswersInOrder
  <2>1. PICK sent, at : Placed(sent, at)
    BY <1>1 DEF McpInv
  <2>2. /\ written \in Seq(Lines) /\ stdin \in Seq(Lines)
        /\ Len(written) \in Nat /\ Len(stdin) \in Nat /\ DOMAIN written = 1..Len(written)
    BY <1>1 DEF McpInv, ShapesInv, McpTypeOK
  <2>3. sent \in Nat /\ 1..sent \subseteq DOMAIN written
    <3>1. Read \in Int /\ Read <= Len(written)
      BY <2>2 DEF Read
    <3>2. sent \in 0..Read
      BY <2>1 DEF Placed, Piped
    <3> QED BY <2>2, <3>1, <3>2
  <2>4. \A k \in 1..sent : Readable(k)
    BY <2>1, <2>3 DEF Placed, Piped, Readable
  <2>5. at \in [DOMAIN answered -> Expected]
    BY <2>1, <2>3, <2>4 DEF Placed, Answers, Expected
  <2>6. ASSUME NEW i \in DOMAIN answered, NEW k \in Expected, k < at[i]
        PROVE  \E j \in DOMAIN answered : at[j] = k
    <3>1. k \in 1..sent /\ written[k].kind # "blank"
      BY <2>1, <2>2, <2>3, <2>6 DEF Placed, Answers, Expected
    <3>2. at[i] \in 1..sent /\ at[i] <= Done(sent) /\ Done(sent) \in Int
      <4>1. Len(channel) \in Nat
        BY <1>1 DEF McpInv, ShapesInv, McpTypeOK
      <4> QED BY <2>1, <2>3, <4>1 DEF Placed, Answers, Done, Taken
    <3>3. k <= Done(sent)
      BY <2>6, <3>1, <3>2
    <3> QED BY <2>1, <3>1, <3>3 DEF Placed, Answers
  <2> QED BY <1>1, <2>1, <2>5, <2>6 DEF AnswersInOrder, McpInv, ShapesInv, Placed, Answers
<1> QED BY McpInductive, <1>1, PTL
=============================================================================
