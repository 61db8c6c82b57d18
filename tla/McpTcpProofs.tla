---------------------------- MODULE McpTcpProofs ----------------------------
(***************************************************************************)
(* Proofs about TcpTransport: the two mutexes, the messages a dropped      *)
(* future costs, and the channel the transport implements.                 *)
(***************************************************************************)
EXTENDS McpTcp, Integers, FiniteSetTheorems, NaturalsInduction, WellFoundedInduction, TLAPS

(* About sequences.                                                         *)
LEMMA ElementsOf ==
    \A S, q : q \in Seq(S) => \A i \in 1..Len(q) : q[i] \in S
OBVIOUS

LEMMA Cut ==
    ASSUME NEW S, NEW q \in Seq(S), NEW a \in Nat \ {0}, NEW b \in Nat, b <= Len(q)
    PROVE  /\ SubSeq(q, a, b) \in Seq(S)
           /\ Len(SubSeq(q, a, b)) = IF a <= b THEN b - a + 1 ELSE 0
           /\ \A i \in 1..Len(SubSeq(q, a, b)) : SubSeq(q, a, b)[i] = q[a + i - 1]
OBVIOUS

LEMMA Same ==
    ASSUME NEW S, NEW p \in Seq(S), NEW q \in Seq(S),
           Len(p) = Len(q), \A i \in 1..Len(p) : p[i] = q[i]
    PROVE  p = q
OBVIOUS

LEMMA Prefix ==
    ASSUME NEW S, NEW q \in Seq(S), NEW n \in 0..Len(q)
    PROVE  /\ SubSeq(q, 1, n) \in Seq(S) /\ Len(SubSeq(q, 1, n)) <= Len(q)
           /\ Range(SubSeq(q, 1, n)) \subseteq Range(q)
<1>1. Len(q) \in Nat /\ n \in Nat /\ n <= Len(q)
  OBVIOUS
<1>2. /\ SubSeq(q, 1, n) \in Seq(S) /\ Len(SubSeq(q, 1, n)) = n
      /\ \A i \in 1..n : SubSeq(q, 1, n)[i] = q[i] /\ i \in 1..Len(q)
  BY <1>1, Cut
<1>3. DOMAIN q = 1..Len(q) /\ DOMAIN SubSeq(q, 1, n) = 1..n
  BY <1>2
<1>4. Range(SubSeq(q, 1, n)) \subseteq Range(q)
  BY <1>2, <1>3 DEF Range
<1> QED BY <1>1, <1>2, <1>4

(* The pieces of a line, and what is left of one to write.                  *)
Piece(m, i) == [of |-> m, part |-> i]
RestOf(q, m) ==
    q \in Seq(Pieces) /\ Len(q) <= 3 /\ \A i \in 1..Len(q) : q[i] = Piece(m, 3 - Len(q) + i)

LEMMA PieceFacts ==
    /\ \A p \in Pieces : p.of \in Senders /\ p.part \in 1..3 /\ p = Piece(p.of, p.part)
    /\ \A m \in Senders, i \in 1..3 : Piece(m, i) \in Pieces
<1>1. ASSUME NEW m \in Senders PROVE \A i \in 1..3 : LineOf(m)[i] = Piece(m, i)
  BY DEF LineOf, LastJson, Newline, Piece
<1>2. ASSUME NEW m \in Senders PROVE Range(LineOf(m)) = {Piece(m, i) : i \in 1..3}
  <2>1. DOMAIN LineOf(m) = 1..3
    BY DEF LineOf
  <2> QED BY <1>1, <2>1 DEF Range
<1>3. ASSUME NEW m \in Senders, NEW i \in 1..3 PROVE Piece(m, i) \in Pieces
  BY <1>2 DEF Pieces
<1>4. ASSUME NEW p \in Pieces
      PROVE  p.of \in Senders /\ p.part \in 1..3 /\ p = Piece(p.of, p.part)
  <2>1. PICK m \in Senders : p \in Range(LineOf(m))
    BY DEF Pieces
  <2> QED BY <1>2, <2>1 DEF Piece
<1> QED BY <1>3, <1>4

LEMMA LineFacts ==
    ASSUME NEW m \in Senders
    PROVE  /\ RestOf(LineOf(m), m) /\ Len(LineOf(m)) = 3
           /\ LastJson(m) = Piece(m, 2) /\ Newline(m) = Piece(m, 3)
           /\ \A q : RestOf(q, m) /\ Len(q) = 3 => q = LineOf(m)
<1>1. LineOf(m) = <<Piece(m, 1), Piece(m, 2), Piece(m, 3)>>
  BY DEF LineOf, LastJson, Newline, Piece
<1>2. LineOf(m) \in Seq(Pieces) /\ Len(LineOf(m)) = 3
  BY <1>1, PieceFacts
<1>3. RestOf(LineOf(m), m)
  BY <1>1, <1>2 DEF RestOf
<1>4. ASSUME NEW q, RestOf(q, m), Len(q) = 3 PROVE q = LineOf(m)
  BY <1>2, <1>3, <1>4, Same DEF RestOf
<1> QED BY <1>2, <1>3, <1>4 DEF LastJson, Newline, Piece

LEMMA RestOfRest ==
    ASSUME NEW m, NEW q, RestOf(q, m), NEW n \in 1..Len(q)
    PROVE  LET t == SubSeq(q, n + 1, Len(q))
           IN  RestOf(t, m) /\ t \in Seq(Pieces) /\ Len(t) = Len(q) - n
<1> DEFINE t == SubSeq(q, n + 1, Len(q))
<1>1. q \in Seq(Pieces) /\ Len(q) <= 3 /\ \A i \in 1..Len(q) : q[i] = Piece(m, 3 - Len(q) + i)
  BY DEF RestOf
<1>2. /\ t \in Seq(Pieces) /\ Len(t) = Len(q) - n
      /\ \A i \in 1..Len(t) : t[i] = q[n + i]
  BY <1>1
<1> HIDE DEF t
<1>3. Len(t) <= 3
  BY <1>1, <1>2
<1>4. ASSUME NEW i \in 1..Len(t) PROVE t[i] = Piece(m, 3 - Len(t) + i)
  <2>1. t[i] = q[n + i] /\ n + i \in 1..Len(q)
    BY <1>1, <1>2
  <2>2. t[i] = Piece(m, 3 - Len(q) + (n + i))
    BY <1>1, <2>1
  <2>3. 3 - Len(q) + (n + i) = 3 - Len(t) + i
    BY <1>1, <1>2
  <2> QED BY <2>2, <2>3
<1>5. RestOf(t, m)
  BY <1>2, <1>3, <1>4 DEF RestOf
<1> QED BY <1>2, <1>5 DEF t

-----------------------------------------------------------------------------
(* What a line parses to.                                                   *)
LEMMA ParsedOne ==
    ASSUME NEW l, NEW m \in Parsed(l)
    PROVE  /\ Parsed(l) = {m} /\ m \in Senders
           /\ l = LineOf(m) \/ l = <<Piece(m, 1), Piece(m, 2)>>
<1>1. ASSUME NEW n \in Senders
      PROVE  Front(LineOf(n)) = <<Piece(n, 1), Piece(n, 2)>>
  <2> DEFINE two == <<Piece(n, 1), Piece(n, 2)>>
  <2>1. LineOf(n) \in Seq(Pieces) /\ Len(LineOf(n)) = 3
    BY LineFacts DEF RestOf
  <2>2. Front(LineOf(n)) = SubSeq(LineOf(n), 1, 2)
    BY <2>1 DEF Front
  <2>3. /\ SubSeq(LineOf(n), 1, 2) \in Seq(Pieces) /\ Len(SubSeq(LineOf(n), 1, 2)) = 2
        /\ \A i \in 1..2 : SubSeq(LineOf(n), 1, 2)[i] = LineOf(n)[i]
    <3> DEFINE w == LineOf(n)
    <3>1. w \in Seq(Pieces) /\ Len(w) = 3
      BY <2>1
    <3> HIDE DEF w
    <3>2. /\ SubSeq(w, 1, 2) \in Seq(Pieces)
          /\ Len(SubSeq(w, 1, 2)) = IF 1 <= 2 THEN 2 - 1 + 1 ELSE 0
          /\ \A i \in 1..Len(SubSeq(w, 1, 2)) : SubSeq(w, 1, 2)[i] = w[1 + i - 1]
      BY <3>1, Cut
    <3>3. Len(SubSeq(w, 1, 2)) = 2
      BY <3>2
    <3> QED BY <3>2, <3>3 DEF w
  <2>4. LineOf(n)[1] = Piece(n, 1) /\ LineOf(n)[2] = Piece(n, 2)
    BY DEF LineOf, LastJson, Piece
  <2>a. two \in Seq(Pieces) /\ Len(two) = 2
    BY PieceFacts
  <2>b. \A i \in 1..2 : SubSeq(LineOf(n), 1, 2)[i] = two[i]
    BY <2>3, <2>4
  <2>5. SubSeq(LineOf(n), 1, 2) = two
    <3> HIDE DEF two
    <3> QED BY <2>3, <2>a, <2>b, Same
  <2> QED BY <2>2, <2>5
<1>2. ASSUME NEW n \in Parsed(l) PROVE n \in Senders /\ l[1].of = n
  <2>1. LineOf(n)[1].of = n /\ Piece(n, 1).of = n /\ n \in Senders
    BY DEF Parsed, LineOf, Piece
  <2>2. l = LineOf(n) \/ l = <<Piece(n, 1), Piece(n, 2)>>
    BY <1>1, <2>1 DEF Parsed
  <2> QED BY <2>1, <2>2
<1>3. \A n \in Parsed(l) : n = m
  BY <1>2
<1> QED BY <1>1, <1>3 DEF Parsed

LEMMA ParsedSequence ==
    ASSUME NEW l
    PROVE  /\ Parsed(l) = {} => SetToSeq(Parsed(l)) = <<>>
           /\ \A m \in Parsed(l) : SetToSeq(Parsed(l)) = <<m>>
<1>1. CASE Parsed(l) = {}
  <2>1. Cardinality({}) = 0
    BY FS_EmptySet
  <2>2. \E f \in [1..0 -> {}] : IsInjective(f)
    <3>1. [i \in 1..0 |-> 0] \in [1..0 -> {}] /\ IsInjective([i \in 1..0 |-> 0])
      BY DEF IsInjective
    <3> QED BY <3>1
  <2>3. SetToSeq({}) \in [1..0 -> {}]
    BY <2>1, <2>2 DEF SetToSeq
  <2> QED BY <1>1, <2>3
<1>2. ASSUME NEW m \in Parsed(l) PROVE SetToSeq(Parsed(l)) = <<m>>
  <2>1. Parsed(l) = {m} /\ Cardinality({m}) = 1
    BY ParsedOne, FS_Singleton
  <2>2. \E f \in [1..1 -> {m}] : IsInjective(f)
    <3>1. [i \in 1..1 |-> m] \in [1..1 -> {m}] /\ IsInjective([i \in 1..1 |-> m])
      BY DEF IsInjective
    <3> QED BY <3>1
  <2>3. SetToSeq({m}) \in [1..1 -> {m}]
    BY <2>1, <2>2 DEF SetToSeq
  <2> QED BY <2>1, <2>3
<1> QED BY <1>1, <1>2

-----------------------------------------------------------------------------
(* The mutexes: the line of the holder is what is being read, and the rest  *)
(* of the holder's own line is what is left to write.                       *)
LockInv ==
    /\ TcpTypeOK
    /\ IF writer = Nobody THEN toWrite = <<>> ELSE RestOf(toWrite, writer) /\ toWrite # <<>>
    /\ reader = Nobody => line = <<>>
    /\ \A i \in 1..Len(line) : line[i].part = 3 => i = Len(line)
    /\ wire = "shut_down" => \A s \in Senders : pc[s] \notin {"idle", "locking", "writing"}
    /\ DOMAIN pc = Senders \cup Receivers

LEMMA LockInit == TcpInit => LockInv
BY TcpAssumption DEF TcpInit, LockInv, TcpTypeOK, SenderStages, ReceiverStages

LEMMA SenderKeepsLocks ==
    ASSUME LockInv, NEW s \in Senders, Send(s) \/ SenderStep(s) \/ DropSend(s)
    PROVE  LockInv'
<1> USE TcpAssumption DEF LockInv, TcpTypeOK, SenderStages, ReceiverStages, Goto
<1>1. CASE Send(s)
  BY <1>1 DEF Send, sendVars, receiveVars
<1>2. CASE LockWriter(s)
  <2>1. RestOf(LineOf(s), s) /\ LineOf(s) \in Seq(Pieces) /\ LineOf(s) # <<>>
    <3> HIDE DEF LockInv, TcpTypeOK
    <3>1. RestOf(LineOf(s), s) /\ Len(LineOf(s)) = 3
      BY LineFacts
    <3> QED BY <3>1 DEF RestOf
  <2>2. TcpTypeOK'
    <3>1. /\ pc' = [pc EXCEPT ![s] = "writing"] /\ writer' = s /\ toWrite' = LineOf(s)
          /\ UNCHANGED <<stream, wire, drops, reader, line, received>>
      BY <1>2 DEF LockWriter, receiveVars
    <3>2. \A t \in Senders : pc'[t] \in SenderStages /\ (pc'[t] = "writing") = (writer' = t)
      BY <1>2, <3>1 DEF LockWriter
    <3>3. \A r \in Receivers : pc'[r] = pc[r]
      BY <1>2, <3>1
    <3> QED BY <2>1, <3>1, <3>2, <3>3, SMTT(20)
  <2>3. writer' = s /\ RestOf(toWrite', writer') /\ toWrite' # <<>>
    BY <1>2, <2>1 DEF LockWriter
  <2> QED BY <1>2, <2>2, <2>3, SMTT(20) DEF LockWriter, receiveVars
<1>3. CASE Write(s)
  <2>1. writer = s /\ RestOf(toWrite, s) /\ toWrite # <<>> /\ wire = "open"
    BY <1>3 DEF Write
  <2>2. PICK n \in 1..Len(toWrite) :
           /\ Len(stream) + n <= Room
           /\ stream' = stream \o SubSeq(toWrite, 1, n)
           /\ toWrite' = SubSeq(toWrite, n + 1, Len(toWrite))
    BY <1>3 DEF Write
  <2>3. RestOf(toWrite', s) /\ toWrite' \in Seq(Pieces)
    BY <2>1, <2>2, RestOfRest
  <2>4. stream' \in Seq(Pieces) /\ Len(stream') <= Room
    BY <2>1, <2>2, Cut
  <2>5. CASE toWrite' = <<>>
    <3>1. writer' = Nobody /\ pc' = [pc EXCEPT ![s] = "sent"] /\ UNCHANGED <<wire, drops, reader, line, received>>
      BY <1>3, <2>5 DEF Write, receiveVars
    <3> QED BY <2>1, <2>4, <2>5, <3>1
  <2>6. CASE toWrite' # <<>>
    BY <1>3, <2>1, <2>3, <2>4, <2>6 DEF Write, receiveVars
  <2> QED BY <2>5, <2>6
<1>4. CASE WriteFails(s)
  BY <1>4 DEF WriteFails, receiveVars
<1>5. CASE DropSend(s)
  <2>1. CASE pc[s] = "writing"
    BY <1>5, <2>1 DEF DropSend, receiveVars
  <2>2. CASE pc[s] = "locking"
    BY <1>5, <2>2 DEF DropSend, receiveVars
  <2> QED BY <1>5, <2>1, <2>2 DEF DropSend
<1> QED BY <1>1, <1>2, <1>3, <1>4, <1>5 DEF SenderStep

LEMMA ReceiverKeepsLocks ==
    ASSUME LockInv, NEW r \in Receivers, ReceiverStep(r) \/ DropReceive(r)
    PROVE  LockInv'
<1> USE TcpAssumption DEF LockInv, TcpTypeOK, SenderStages, ReceiverStages, Goto
<1>1. CASE Receive(r)
  BY <1>1 DEF Receive, sendVars, receiveVars
<1>2. CASE LockReader(r)
  BY <1>2 DEF LockReader, sendVars
<1>3. CASE ReadSome(r)
  <2>1. Head(stream) \in Pieces /\ Tail(stream) \in Seq(Pieces) /\ Len(Tail(stream)) <= Room
    BY <1>3 DEF ReadSome
  <2>2. \A i \in 1..Len(line) : line[i].part # 3
    BY <1>3, SMTT(20) DEF ReadSome, Complete, Last
  <2>3. line \in Seq(Pieces) /\ line' = Append(line, Head(stream)) /\ reader' # Nobody
    BY <1>3 DEF ReadSome
  <2>4. line' \in Seq(Pieces) /\ \A i \in 1..Len(line') : line'[i].part = 3 => i = Len(line')
    BY <2>1, <2>2, <2>3
  <2>5. TcpTypeOK'
    BY <1>3, <2>1, <2>4 DEF ReadSome, sendVars
  <2> QED BY <1>3, <2>3, <2>4, <2>5 DEF ReadSome, sendVars
<1>4. CASE ReturnLine(r)
  <2>1. received' \in Seq(Senders)
    <3>1. SetToSeq(Parsed(line)) \in Seq(Senders)
      <4>1. CASE Parsed(line) = {}
        <5> HIDE DEF LockInv, TcpTypeOK
        <5>1. SetToSeq(Parsed(line)) = <<>>
          BY <4>1, ParsedSequence
        <5> QED BY <5>1
      <4>2. ASSUME NEW m \in Parsed(line) PROVE SetToSeq(Parsed(line)) \in Seq(Senders)
        <5>1. SetToSeq(Parsed(line)) = <<m>>
          BY ParsedSequence
        <5>2. m \in Senders
          BY DEF Parsed
        <5> QED BY <5>1, <5>2
      <4> QED BY <4>1, <4>2
    <3> QED BY <1>4, <3>1 DEF ReturnLine
  <2>2. /\ pc[r] = "reading" /\ reader' = Nobody /\ line' = <<>>
        /\ pc' = [pc EXCEPT ![r] = "idle"]
        /\ UNCHANGED <<stream, wire, drops, writer, toWrite>>
    BY <1>4 DEF ReturnLine, sendVars
  <2> QED BY <2>1, <2>2
<1>5. CASE ReturnClosed(r)
  BY <1>5 DEF ReturnClosed, sendVars
<1>6. CASE ReadFails(r)
  BY <1>6 DEF ReadFails, sendVars
<1>7. CASE DropReceive(r)
  <2>1. CASE pc[r] = "reading"
    BY <1>7, <2>1 DEF DropReceive, sendVars
  <2>2. CASE pc[r] = "locking"
    BY <1>7, <2>2 DEF DropReceive, sendVars
  <2> QED BY <1>7, <2>1, <2>2 DEF DropReceive
<1> QED BY <1>1, <1>2, <1>3, <1>4, <1>5, <1>6, <1>7 DEF ReceiverStep

LEMMA LockStep == LockInv /\ [TcpNext]_tcpVars => LockInv'
<1> SUFFICES ASSUME LockInv, [TcpNext]_tcpVars PROVE LockInv'
  OBVIOUS
<1>1. CASE ShutDown
  BY <1>1, TcpAssumption DEF ShutDown, LockInv, TcpTypeOK, SenderStages, ReceiverStages, sendVars, receiveVars
<1>2. CASE Reset
  <2>1. PICK n \in 0..Len(stream) : stream' = SubSeq(stream, 1, n)
    BY <1>2 DEF Reset
  <2>2. stream' \in Seq(Pieces) /\ Len(stream') <= Room
    <3>1. stream \in Seq(Pieces) /\ Len(stream) <= Room
      BY DEF LockInv, TcpTypeOK
    <3>2. stream' \in Seq(Pieces) /\ Len(stream') <= Len(stream)
      BY <2>1, <3>1, Prefix
    <3> QED BY <3>1, <3>2, TcpAssumption
  <2> QED BY <1>2, <2>2, TcpAssumption DEF Reset, LockInv, TcpTypeOK, sendVars, receiveVars
<1>3. CASE UNCHANGED tcpVars
  BY <1>3 DEF tcpVars, LockInv, TcpTypeOK
<1> QED BY <1>1, <1>2, <1>3, SenderKeepsLocks, ReceiverKeepsLocks DEF TcpNext

(* The mutexes admit one task each, and everything keeps its type: TcpTypeOK *)
(* of McpTcp, for TcpTransport::send and receive.                            *)
THEOREM TcpTypeCorrect == TcpSpec => []TcpTypeOK
<1>1. LockInv => TcpTypeOK
  BY DEF LockInv
<1> QED BY LockInit, LockStep, <1>1, PTL DEF TcpSpec

-----------------------------------------------------------------------------
(* What a dropped future costs.  The pieces on their way, oldest first, are *)
(* the line that is being read, the stream, and what is left to write.  The *)
(* newline of a message that is not whole there, or does not stand at the   *)
(* start of a line, will be read as a parse error: that message is as good  *)
(* as gone.  Behind an open end the next line will be torn, whichever it    *)
(* is; the mark of it is Nobody.                                            *)
Course == (line \o stream) \o toWrite

WholeAt(q, i) ==
    /\ i >= 3 /\ q[i - 1] = Piece(q[i].of, 2) /\ q[i - 2] = Piece(q[i].of, 1)
    /\ i > 3 => q[i - 3].part = 3
Torn(q) == {m \in Senders : \E i \in 1..Len(q) : q[i] = Piece(m, 3) /\ ~WholeAt(q, i)}
OpenEnd == writer = Nobody /\ Course # <<>> /\ Course[Len(Course)].part # 3
Lost == Gone \cup Torn(Course) \cup {n \in {Nobody} : OpenEnd}

(* The line a whole last piece belongs to.  *)
LEMMA WholeMeans ==
    ASSUME NEW q, NEW j \in Nat, NEW m, q[j].of = m, WholeAt(q, j)
    PROVE  /\ j >= 3 /\ q[j - 1] = Piece(m, 2) /\ q[j - 2] = Piece(m, 1)
           /\ j > 3 => q[j - 3].part = 3
<1>1. j >= 3
  BY DEF WholeAt
<1>2. q[j - 1] = Piece(m, 2)
  BY DEF WholeAt
<1>3. q[j - 2] = Piece(m, 1)
  BY DEF WholeAt
<1>4. j > 3 => q[j - 3].part = 3
  BY DEF WholeAt
<1> QED BY <1>1, <1>2, <1>3, <1>4

LossInv ==
    /\ LockInv
    /\ \A s \in Senders : Newline(s) \in Range(stream) \cup Range(line) => pc[s] = "sent"
    /\ wire # "reset" => Cardinality(Lost) <= drops

LEMMA InRange ==
    ASSUME NEW S, NEW q \in Seq(S), NEW x
    PROVE  x \in Range(q) <=> \E i \in 1..Len(q) : q[i] = x
BY DEF Range

LEMMA Concat ==
    ASSUME NEW S, NEW p \in Seq(S), NEW q \in Seq(S)
    PROVE  /\ p \o q \in Seq(S) /\ Len(p \o q) = Len(p) + Len(q)
           /\ \A i \in 1..Len(p) : (p \o q)[i] = p[i]
           /\ \A i \in 1..Len(q) : (p \o q)[Len(p) + i] = q[i]
           /\ \A i \in 1..Len(p \o q) : i <= Len(p) \/ (i - Len(p) \in 1..Len(q) /\ (p \o q)[i] = q[i - Len(p)])
OBVIOUS

LEMMA RangeConcat ==
    ASSUME NEW S, NEW p \in Seq(S), NEW q \in Seq(S)
    PROVE  Range(p \o q) = Range(p) \cup Range(q)
<1> DEFINE c == p \o q
<1>1. /\ c \in Seq(S) /\ Len(c) = Len(p) + Len(q) /\ Len(p) \in Nat /\ Len(q) \in Nat
      /\ \A i \in 1..Len(p) : c[i] = p[i] /\ i \in 1..Len(c)
      /\ \A i \in 1..Len(q) : c[Len(p) + i] = q[i] /\ Len(p) + i \in 1..Len(c)
      /\ \A i \in 1..Len(c) : i <= Len(p) \/ (i - Len(p) \in 1..Len(q) /\ c[i] = q[i - Len(p)])
  BY Concat
<1> HIDE DEF c
<1>2. ASSUME NEW x \in Range(c) PROVE x \in Range(p) \cup Range(q)
  <2>1. PICK i \in 1..Len(c) : c[i] = x
    BY <1>1, InRange
  <2>2. CASE i <= Len(p)
    BY <1>1, <2>1, <2>2, InRange
  <2>3. CASE i - Len(p) \in 1..Len(q) /\ c[i] = q[i - Len(p)]
    BY <1>1, <2>1, <2>3, InRange
  <2> QED BY <1>1, <2>2, <2>3
<1>3. ASSUME NEW x \in Range(p) PROVE x \in Range(c)
  <2>1. PICK i \in 1..Len(p) : p[i] = x
    BY InRange
  <2>2. i \in 1..Len(c) /\ c[i] = x
    BY <1>1, <2>1
  <2> QED BY <1>1, <2>2, InRange
<1>4. ASSUME NEW x \in Range(q) PROVE x \in Range(c)
  <2>1. PICK i \in 1..Len(q) : q[i] = x
    BY InRange
  <2>2. Len(p) + i \in 1..Len(c) /\ c[Len(p) + i] = x
    BY <1>1, <2>1
  <2> QED BY <1>1, <2>2, InRange
<1>5. Range(c) = Range(p) \cup Range(q)
  BY <1>2, <1>3, <1>4
<1> QED BY <1>5 DEF c

LEMMA Associative ==
    ASSUME NEW S, NEW p \in Seq(S), NEW q \in Seq(S), NEW r \in Seq(S)
    PROVE  (p \o q) \o r = p \o (q \o r)
<1>1. (p \o q) \o r \in Seq(S) /\ p \o (q \o r) \in Seq(S)
  OBVIOUS
<1>2. Len((p \o q) \o r) = Len(p \o (q \o r))
  OBVIOUS
<1>3. \A i \in 1..Len((p \o q) \o r) : ((p \o q) \o r)[i] = (p \o (q \o r))[i]
  OBVIOUS
<1> QED BY <1>1, <1>2, <1>3, Same

LEMMA ThreeParts ==
    line \in Seq(Pieces) /\ stream \in Seq(Pieces) /\ toWrite \in Seq(Pieces)
        => (line \o stream) \o toWrite = line \o (stream \o toWrite)
BY Associative

LEMMA MoveOne ==
    ASSUME NEW S, NEW p \in Seq(S), NEW q \in Seq(S), q # <<>>
    PROVE  Append(p, Head(q)) \o Tail(q) = p \o q
<1> DEFINE a == Append(p, Head(q)) \o Tail(q)
<1>1. a \in Seq(S) /\ p \o q \in Seq(S) /\ Len(a) = Len(p \o q)
  OBVIOUS
<1>2. \A i \in 1..Len(a) : a[i] = (p \o q)[i]
  OBVIOUS
<1> HIDE DEF a
<1>3. a = p \o q
  BY <1>1, <1>2, Same
<1> QED BY <1>3 DEF a

LEMMA CutInTwo ==
    ASSUME NEW S, NEW p \in Seq(S), NEW q \in Seq(S), NEW n \in Nat, n <= Len(q)
    PROVE  (p \o SubSeq(q, 1, n)) \o SubSeq(q, n + 1, Len(q)) = p \o q
<1> DEFINE b == SubSeq(q, 1, n)
           c == SubSeq(q, n + 1, Len(q))
<1>1. b \in Seq(S) /\ Len(b) = n /\ \A i \in 1..n : b[i] = q[i]
  BY Cut
<1>2. c \in Seq(S) /\ Len(c) = Len(q) - n /\ \A i \in 1..Len(c) : c[i] = q[n + i]
  OBVIOUS
<1>3. Len(q) \in Nat /\ n \in Nat /\ n <= Len(q)
  OBVIOUS
<1> HIDE DEF b, c
<1>4. b \o c \in Seq(S) /\ Len(b \o c) = Len(q)
  BY <1>1, <1>2, <1>3
<1>5. ASSUME NEW i \in 1..Len(q) PROVE (b \o c)[i] = q[i]
  <2>1. CASE i <= n
    BY <1>1, <1>2, <1>3, <2>1
  <2>2. CASE ~(i <= n)
    <3>1. i - n \in 1..Len(c) /\ n + (i - n) = i
      BY <1>2, <1>3, <2>2
    <3>2. (b \o c)[i] = c[i - n]
      BY <1>1, <1>2, <1>3, <2>2
    <3> QED BY <1>2, <3>1, <3>2
  <2> QED BY <2>1, <2>2
<1>a. b \o c = q
  BY <1>4, <1>5, Same
<1>6. (p \o b) \o c = p \o q
  <2>1. (p \o b) \o c = p \o (b \o c)
    <3>1. b \in Seq(S) /\ c \in Seq(S)
      BY <1>1, <1>2
    <3> QED BY <3>1, Associative, SMTT(20)
  <2> QED BY <1>a, <2>1
<1> QED BY <1>6 DEF b, c

-----------------------------------------------------------------------------
(* Which messages are torn, when pieces are added or taken away.            *)
LEMMA TornOfPrefix ==
    ASSUME NEW p \in Seq(Pieces), NEW r \in Seq(Pieces)
    PROVE  Torn(p) \subseteq Torn(p \o r)
<1> SUFFICES ASSUME NEW m \in Senders, NEW i \in 1..Len(p), p[i] = Piece(m, 3), ~WholeAt(p, i)
             PROVE  m \in Torn(p \o r)
  BY DEF Torn
<1>1. /\ i \in 1..Len(p \o r) /\ (p \o r)[i] = p[i]
      /\ i >= 3 => (p \o r)[i - 1] = p[i - 1] /\ (p \o r)[i - 2] = p[i - 2]
      /\ i > 3 => (p \o r)[i - 3] = p[i - 3]
  OBVIOUS
<1>2. ~WholeAt(p \o r, i)
  BY <1>1 DEF WholeAt
<1> QED BY <1>1, <1>2 DEF Torn

LEMMA TornOfSuffix ==
    ASSUME NEW l \in Seq(Pieces), NEW r \in Seq(Pieces),
           l # <<>> => l[Len(l)].part = 3
    PROVE  Torn(r) \subseteq Torn(l \o r)
<1> SUFFICES ASSUME NEW m \in Senders, NEW i \in 1..Len(r), r[i] = Piece(m, 3), ~WholeAt(r, i)
             PROVE  m \in Torn(l \o r)
  BY DEF Torn
<1> DEFINE k == Len(l)
           q == l \o r
<1>1. /\ k \in Nat /\ q \in Seq(Pieces) /\ k + i \in 1..Len(q)
      /\ \A j \in 1..Len(r) : q[k + j] = r[j]
      /\ k > 0 => q[k].part = 3
  BY Concat
<1>2. q[k + i] = Piece(m, 3) /\ Piece(m, 3).of = m /\ r[i].of = m
  BY <1>1 DEF Piece
<1> HIDE DEF k, q
<1>3. ASSUME NEW j \in Nat, j = k + i, WholeAt(q, j) PROVE FALSE
  <2>0. q[j].of = m
    BY <1>2, <1>3
  <2>1. /\ j >= 3 /\ q[j - 1] = Piece(m, 2) /\ q[j - 2] = Piece(m, 1)
        /\ j > 3 => q[j - 3].part = 3
    BY <2>0, <1>3, WholeMeans
  <2>2. CASE i = 1
    BY <1>1, <1>3, <2>1, <2>2 DEF Piece
  <2>3. CASE i = 2
    BY <1>1, <1>3, <2>1, <2>3 DEF Piece
  <2>4. CASE i >= 3
    <3>1. q[j - 1] = r[i - 1] /\ q[j - 2] = r[i - 2]
      <4>1. i - 1 \in 1..Len(r) /\ i - 2 \in 1..Len(r)
        BY <2>4
      <4>2. q[k + (i - 1)] = r[i - 1] /\ q[k + (i - 2)] = r[i - 2]
        BY <1>1, <4>1
      <4>3. k + (i - 1) = j - 1 /\ k + (i - 2) = j - 2
        BY <1>1, <1>3
      <4> QED BY <4>2, <4>3
    <3>2. i > 3 => j > 3 /\ q[j - 3] = r[i - 3]
      BY <1>1, <1>3
    <3> QED BY <1>2, <2>1, <2>4, <3>1, <3>2 DEF WholeAt
  <2> QED BY <2>2, <2>3, <2>4
<1>4. ~WholeAt(q, k + i)
  BY <1>1, <1>3
<1> QED BY <1>1, <1>2, <1>4 DEF Torn, q

(* What is left of a line that was read in part tears one message at most.  *)
LEMMA TornByDrop ==
    ASSUME NEW l \in Seq(Pieces), NEW r \in Seq(Pieces)
    PROVE  \E m : Torn(r) \subseteq Torn(l \o r) \cup {m}
<1> DEFINE k == Len(l)
           q == l \o r
           x == IF r[1].part = 3 THEN r[1].of ELSE r[2].of
<1>1. /\ k \in Nat /\ q \in Seq(Pieces) /\ \A j \in 1..Len(r) : q[k + j] = r[j] /\ k + j \in 1..Len(q)
  BY Concat
<1> HIDE DEF k, q
<1> SUFFICES ASSUME NEW m \in Senders, NEW i \in 1..Len(r), r[i] = Piece(m, 3), ~WholeAt(r, i), m # x
             PROVE  m \in Torn(q)
  <2>1. Torn(r) \subseteq Torn(q) \cup {x}
    BY DEF Torn
  <2> QED BY <2>1 DEF q
<1>2. q[k + i] = Piece(m, 3) /\ Piece(m, 3).of = m /\ r[i].of = m /\ r[i].part = 3
  BY <1>1 DEF Piece
<1>3. ASSUME NEW j \in Nat, j = k + i, WholeAt(q, j) PROVE FALSE
  <2>0. q[j].of = m
    BY <1>2, <1>3
  <2>1. /\ j >= 3 /\ q[j - 1] = Piece(m, 2) /\ q[j - 2] = Piece(m, 1)
        /\ j > 3 => q[j - 3].part = 3
    BY <2>0, <1>3, WholeMeans
  <2>2. CASE i = 1
    BY <1>2, <2>2
  <2>3. CASE i = 2
    <3>1. q[j - 1] = r[1]
      BY <1>1, <1>3, <2>3
    <3>2. r[1].part = 2
      BY <2>1, <3>1 DEF Piece
    <3> QED BY <1>2, <2>3, <3>2
  <2>4. CASE i >= 3
    <3>1. q[j - 1] = r[i - 1] /\ q[j - 2] = r[i - 2]
      <4>1. i - 1 \in 1..Len(r) /\ i - 2 \in 1..Len(r)
        BY <2>4
      <4>2. q[k + (i - 1)] = r[i - 1] /\ q[k + (i - 2)] = r[i - 2]
        BY <1>1, <4>1
      <4>3. k + (i - 1) = j - 1 /\ k + (i - 2) = j - 2
        BY <1>1, <1>3
      <4> QED BY <4>2, <4>3
    <3>2. i > 3 => j > 3 /\ q[j - 3] = r[i - 3]
      BY <1>1, <1>3
    <3> QED BY <1>2, <2>1, <2>4, <3>1, <3>2 DEF WholeAt
  <2> QED BY <2>2, <2>3, <2>4
<1>4. ~WholeAt(q, k + i)
  BY <1>1, <1>3
<1> QED BY <1>1, <1>2, <1>4 DEF Torn

LEMMA TornByLine ==
    ASSUME NEW q \in Seq(Pieces), NEW m \in Senders
    PROVE  /\ Torn(q \o LineOf(m)) \subseteq Torn(q) \cup {m}
           /\ (q # <<>> => q[Len(q)].part = 3) => Torn(q \o LineOf(m)) \subseteq Torn(q)
           /\ (q # <<>> /\ q[Len(q)].part # 3) => m \in Torn(q \o LineOf(m))
<1> DEFINE k == Len(q)
           c == q \o LineOf(m)
<1>1. LineOf(m) \in Seq(Pieces) /\ Len(LineOf(m)) = 3 /\ \A i \in 1..3 : LineOf(m)[i] = Piece(m, i)
  BY LineFacts DEF RestOf
<1>2. /\ k \in Nat /\ c \in Seq(Pieces) /\ Len(c) = k + 3
      /\ \A i \in 1..k : c[i] = q[i]
      /\ c[k + 1] = Piece(m, 1) /\ c[k + 2] = Piece(m, 2) /\ c[k + 3] = Piece(m, 3)
      /\ q # <<>> <=> k > 0
  <2>1. /\ k \in Nat /\ c \in Seq(Pieces) /\ Len(c) = k + 3
        /\ \A i \in 1..k : c[i] = q[i]
        /\ \A i \in 1..3 : c[k + i] = LineOf(m)[i]
    <3>1. ASSUME NEW w \in Seq(Pieces)
          PROVE  /\ q \o w \in Seq(Pieces) /\ Len(q \o w) = k + Len(w)
                 /\ \A i \in 1..k : (q \o w)[i] = q[i]
                 /\ \A i \in 1..Len(w) : (q \o w)[k + i] = w[i]
      BY Concat
    <3>2. k \in Nat
      OBVIOUS
    <3> HIDE DEF k
    <3> QED BY <1>1, <3>1, <3>2
  <2>2. q # <<>> <=> k > 0
    OBVIOUS
  <2> HIDE DEF k, c
  <2> QED BY <1>1, <2>1, <2>2
<1> HIDE DEF k, c
<1>3. ASSUME NEW n \in Torn(c) PROVE n \in Torn(q) \/ (n = m /\ ~WholeAt(c, k + 3))
  <2>1. PICK i \in 1..Len(c) : c[i] = Piece(n, 3) /\ ~WholeAt(c, i)
    BY DEF Torn
  <2>2. n \in Senders
    BY DEF Torn
  <2>3. CASE i <= k
    <3>1. /\ i \in 1..k /\ c[i] = q[i]
          /\ i >= 3 => c[i - 1] = q[i - 1] /\ c[i - 2] = q[i - 2]
          /\ i > 3 => c[i - 3] = q[i - 3]
      BY <1>2, <2>3
    <3>2. ~WholeAt(q, i)
      BY <2>1, <3>1 DEF WholeAt
    <3> QED BY <2>1, <2>2, <3>1, <3>2 DEF Torn, k
  <2>4. CASE i = k + 3
    BY <1>2, <2>1, <2>4 DEF Piece
  <2>5. CASE i = k + 1 \/ i = k + 2
    BY <1>2, <2>1, <2>5 DEF Piece
  <2> QED BY <1>2, <2>3, <2>4, <2>5
<1>4. c[k + 3].of = m
  BY <1>2 DEF Piece
<1>5. (q # <<>> => q[k].part = 3) => WholeAt(c, k + 3)
  BY <1>2, <1>4 DEF WholeAt
<1>6. (q # <<>> /\ q[k].part # 3) => m \in Torn(c)
  BY <1>2, <1>4 DEF WholeAt, Torn
<1> QED BY <1>3, <1>5, <1>6 DEF k, c

(* A line that is read to its end is a message, or its newline's was torn.  *)
LEMMA TornOrWhole ==
    ASSUME NEW l \in Seq(Pieces), NEW r \in Seq(Pieces), l # <<>>, NEW m \in Senders,
           l[Len(l)] = Piece(m, 3), \A i \in 1..Len(l) : l[i].part = 3 => i = Len(l)
    PROVE  l = LineOf(m) \/ m \in Torn(l \o r)
<1> DEFINE k == Len(l)
           q == l \o r
<1>1. k \in Nat \ {0} /\ \A i \in 1..k : q[i] = l[i] /\ i \in 1..Len(q)
  BY Concat
<1> HIDE DEF q
<1>2. Piece(m, 3).of = m /\ q[k] = Piece(m, 3)
  BY <1>1 DEF Piece
<1>3. ASSUME WholeAt(q, k) PROVE l = LineOf(m)
  <2>1. /\ k >= 3 /\ q[k - 1] = Piece(m, 2) /\ q[k - 2] = Piece(m, 1)
        /\ k > 3 => q[k - 3].part = 3
    BY <1>2, <1>3 DEF WholeAt
  <2>2. k = 3
    <3>1. ASSUME k > 3 PROVE FALSE
      <4>1. k - 3 \in 1..k /\ k - 3 # k
        BY <1>1, <3>1
      <4>2. l[k - 3].part = 3
        BY <1>1, <2>1, <3>1, <4>1
      <4> QED BY <4>1, <4>2
    <3>2. k \in Nat /\ k >= 3
      BY <1>1, <2>1
    <3> HIDE DEF k
    <3> QED BY <3>1, <3>2
  <2>3. l[1] = Piece(m, 1) /\ l[2] = Piece(m, 2) /\ l[3] = Piece(m, 3)
    BY <1>1, <2>1, <2>2
  <2>4. RestOf(l, m)
    BY <2>2, <2>3 DEF RestOf
  <2> QED BY <2>2, <2>4, LineFacts
<1> QED BY <1>1, <1>2, <1>3 DEF Torn, q

-----------------------------------------------------------------------------
LEMMA Counting ==
    ASSUME NEW A, IsFiniteSet(A), NEW B, NEW x, B \subseteq A \cup {x}
    PROVE  /\ Cardinality(A) \in Nat /\ Cardinality(B) \in Nat
           /\ Cardinality(B) <= Cardinality(A) + 1
           /\ B \subseteq A => Cardinality(B) <= Cardinality(A)
           /\ \A y \in A : B \subseteq (A \ {y}) \cup {x} => Cardinality(B) <= Cardinality(A)
<1>1. /\ IsFiniteSet(A \cup {x}) /\ Cardinality(A \cup {x}) <= Cardinality(A) + 1
      /\ Cardinality(A) \in Nat /\ Cardinality(A \cup {x}) \in Nat
  BY FS_AddElement, FS_CardinalityType
<1>2. IsFiniteSet(B) /\ Cardinality(B) <= Cardinality(A \cup {x}) /\ Cardinality(B) \in Nat
  BY <1>1, FS_Subset, FS_CardinalityType
<1>3. B \subseteq A => Cardinality(B) <= Cardinality(A)
  BY FS_Subset
<1>4. ASSUME NEW y \in A, B \subseteq (A \ {y}) \cup {x} PROVE Cardinality(B) <= Cardinality(A)
  <2>1. IsFiniteSet(A \ {y}) /\ Cardinality(A \ {y}) = Cardinality(A) - 1
    BY FS_RemoveElement
  <2>2. /\ IsFiniteSet((A \ {y}) \cup {x}) /\ Cardinality((A \ {y}) \cup {x}) \in Nat
        /\ Cardinality((A \ {y}) \cup {x}) <= Cardinality(A \ {y}) + 1
    <3> DEFINE D == A \ {y}
    <3>1. IsFiniteSet(D) /\ Cardinality(D) \in Nat
      BY <2>1, FS_CardinalityType
    <3> HIDE DEF D
    <3>2. /\ IsFiniteSet(D \cup {x})
          /\ Cardinality(D \cup {x}) = IF x \in D THEN Cardinality(D) ELSE Cardinality(D) + 1
      BY <3>1, FS_AddElement
    <3>3. Cardinality(D \cup {x}) \in Nat /\ Cardinality(D \cup {x}) <= Cardinality(D) + 1
      BY <3>1, <3>2
    <3> QED BY <3>2, <3>3 DEF D
  <2>3. Cardinality(B) <= Cardinality((A \ {y}) \cup {x})
    BY <1>4, <2>2, FS_Subset
  <2> QED BY <1>1, <1>2, <2>1, <2>2, <2>3
<1> QED BY <1>1, <1>2, <1>3, <1>4

LEMMA LostFinite == IsFiniteSet(Lost) /\ IsFiniteSet(Lost)' /\ Nobody \notin Gone \cup Torn(Course)
<1>1. IsFiniteSet(Senders \cup {Nobody})
  BY TcpAssumption, FS_AddElement
<1>2. Lost \subseteq Senders \cup {Nobody} /\ Lost' \subseteq Senders \cup {Nobody}
  BY DEF Lost, Gone, Torn
<1>3. IsFiniteSet(Lost)
  BY <1>1, <1>2, FS_Subset
<1>4. IsFiniteSet(Lost')
  BY <1>1, <1>2, FS_Subset
<1> QED BY <1>3, <1>4, TcpAssumption DEF Gone, Torn

LEMMA Typed ==
    ASSUME LockInv
    PROVE  /\ line \in Seq(Pieces) /\ stream \in Seq(Pieces) /\ toWrite \in Seq(Pieces)
           /\ line \o stream \in Seq(Pieces) /\ Course \in Seq(Pieces)
           /\ drops \in Nat /\ received \in Seq(Senders)
BY DEF LockInv, TcpTypeOK, Course

(* A step that touches neither the pieces nor what has been reported.       *)
LEMMA QuietLoss ==
    ASSUME LossInv, LockInv', drops' = drops,
           UNCHANGED <<stream, line, toWrite, writer, received, wire>>,
           \A s \in Senders : pc'[s] = "sent" <=> pc[s] = "sent"
    PROVE  LossInv'
<1>1. Gone' = Gone
  BY DEF Gone
<1>2. Course' = Course /\ OpenEnd' = OpenEnd
  BY DEF Course, OpenEnd
<1>3. Torn(Course)' = Torn(Course)
  BY <1>2 DEF Torn
<1>4. Lost' = Lost
  BY <1>1, <1>2, <1>3 DEF Lost
<1> QED BY <1>4 DEF LossInv

LEMMA LossInit == TcpInit => LossInv
<1> SUFFICES ASSUME TcpInit PROVE LossInv
  OBVIOUS
<1>1. LockInv
  BY LockInit
<1>2. stream = <<>> /\ line = <<>> /\ toWrite = <<>> /\ drops = 0 /\ \A s \in Senders : pc[s] = "idle"
  BY DEF TcpInit
<1>3. Course = <<>> /\ Range(stream) = {} /\ Range(line) = {}
  BY <1>2 DEF Course, Range
<1>4. Gone = {} /\ Torn(Course) = {} /\ ~OpenEnd
  BY <1>2, <1>3 DEF Gone, Torn, OpenEnd
<1>5. Lost = {}
  BY <1>4 DEF Lost
<1>6. Cardinality(Lost) = 0
  BY <1>5, FS_EmptySet
<1> QED BY <1>1, <1>2, <1>3, <1>6 DEF LossInv

(* send.                                                                    *)
LEMMA LockWriterLoss ==
    ASSUME LossInv, LockInv', NEW s \in Senders, LockWriter(s)
    PROVE  LossInv'
<1>1. /\ writer = Nobody /\ writer' = s /\ toWrite = <<>> /\ toWrite' = LineOf(s)
      /\ pc' = [pc EXCEPT ![s] = "writing"] /\ pc[s] = "locking" /\ DOMAIN pc = Senders \cup Receivers
      /\ UNCHANGED <<stream, wire, drops, reader, line, received>>
  BY DEF LockWriter, receiveVars, Goto, LossInv, LockInv
<1>2. Course = line \o stream /\ Course' = Course \o LineOf(s) /\ Course \in Seq(Pieces)
  <2>1. line \o stream \in Seq(Pieces) /\ (line \o stream) \o <<>> = line \o stream
    BY Typed DEF LossInv
  <2> QED BY <1>1, <2>1 DEF Course
<1>3. Gone' = Gone
  BY <1>1 DEF Gone
<1>4. /\ Torn(Course') \subseteq Torn(Course) \cup {s}
      /\ (Course # <<>> => Course[Len(Course)].part = 3) => Torn(Course') \subseteq Torn(Course)
  BY <1>2, TornByLine
<1>5. ~OpenEnd'
  BY <1>1, TcpAssumption DEF OpenEnd
<1>6. OpenEnd <=> Course # <<>> /\ Course[Len(Course)].part # 3
  BY <1>1 DEF OpenEnd
<1>7. Cardinality(Lost') <= Cardinality(Lost)
  <2>1. CASE OpenEnd
    <3>1. Nobody \in Lost /\ Lost' \subseteq (Lost \ {Nobody}) \cup {s}
      BY <1>3, <1>4, <1>5, <2>1, LostFinite DEF Lost
    <3> QED BY <3>1, LostFinite, Counting
  <2>2. CASE ~OpenEnd
    <3>1. Lost' \subseteq Lost
      BY <1>3, <1>4, <1>5, <1>6, <2>2 DEF Lost
    <3> QED BY <3>1, LostFinite, Counting
  <2> QED BY <2>1, <2>2
<1>8. Cardinality(Lost) \in Nat /\ Cardinality(Lost') \in Nat /\ drops \in Nat
  BY LostFinite, FS_CardinalityType, Typed DEF LossInv
<1>9. \A t \in Senders : Newline(t) \in Range(stream') \cup Range(line') => pc'[t] = "sent"
  BY <1>1 DEF LossInv
<1> QED BY <1>1, <1>7, <1>8, <1>9 DEF LossInv

LEMMA WriteLoss ==
    ASSUME LossInv, LockInv', NEW s \in Senders, Write(s)
    PROVE  LossInv'
<1>1. /\ pc[s] = "writing" /\ writer = s /\ RestOf(toWrite, s) /\ DOMAIN pc = Senders \cup Receivers
      /\ UNCHANGED <<wire, drops, reader, line, received>>
      /\ line \in Seq(Pieces) /\ stream \in Seq(Pieces) /\ toWrite \in Seq(Pieces)
  BY Typed, TcpAssumption DEF Write, receiveVars, LossInv, LockInv
<1>2. PICK n \in 1..Len(toWrite) :
         /\ stream' = stream \o SubSeq(toWrite, 1, n)
         /\ toWrite' = SubSeq(toWrite, n + 1, Len(toWrite))
  BY DEF Write
<1>3. n \in Nat \ {0} /\ n <= Len(toWrite) /\ Len(toWrite) \in Nat
  BY <1>1
<1> DEFINE now == SubSeq(toWrite, 1, n)
<1>4. /\ now \in Seq(Pieces) /\ Len(now) = n /\ \A i \in 1..n : now[i] = toWrite[i]
      /\ toWrite' \in Seq(Pieces) /\ Len(toWrite') = Len(toWrite) - n /\ RestOf(toWrite', s)
  <2>1. /\ now \in Seq(Pieces) /\ Len(now) = n /\ \A i \in 1..n : now[i] = toWrite[i]
    <3>1. /\ now \in Seq(Pieces)
          /\ Len(now) = IF 1 <= n THEN n - 1 + 1 ELSE 0
          /\ \A i \in 1..Len(now) : now[i] = toWrite[1 + i - 1]
      BY <1>1, <1>3, Cut
    <3> HIDE DEF now
    <3>2. Len(now) = n
      BY <1>3, <3>1
    <3> QED BY <1>3, <3>1, <3>2
  <2>2. /\ toWrite' \in Seq(Pieces) /\ Len(toWrite') = Len(toWrite) - n /\ RestOf(toWrite', s)
    BY <1>1, <1>2, RestOfRest
  <2> QED BY <2>1, <2>2
<1>5. Course' = Course
  <2>1. (stream \o now) \o toWrite' = stream \o toWrite
    BY <1>1, <1>2, <1>3, CutInTwo
  <2>2. /\ (line \o (stream \o now)) \o toWrite' = line \o ((stream \o now) \o toWrite')
        /\ (line \o stream) \o toWrite = line \o (stream \o toWrite)
        /\ stream \o now \in Seq(Pieces)
    <3>1. stream \o now \in Seq(Pieces)
      BY <1>1, <1>4
    <3> HIDE DEF now
    <3>2. (line \o (stream \o now)) \o toWrite' = line \o ((stream \o now) \o toWrite')
      <4> DEFINE on == stream \o now
                 rest == toWrite'
      <4>1. line \in Seq(Pieces) /\ on \in Seq(Pieces) /\ rest \in Seq(Pieces)
        BY <1>1, <1>4, <3>1
      <4> HIDE DEF on, rest
      <4>2. (line \o on) \o rest = line \o (on \o rest)
        BY <4>1, Associative, SMTT(20)
      <4> QED BY <4>2 DEF on, rest
    <3>3. (line \o stream) \o toWrite = line \o (stream \o toWrite)
      BY <1>1, ThreeParts
    <3> QED BY <3>1, <3>2, <3>3
  <2> QED BY <1>1, <1>2, <2>1, <2>2 DEF Course
<1>6. /\ stream' \in Seq(Pieces)
      /\ \A x : x \in Range(stream') <=> x \in Range(stream) \/ \E i \in 1..n : toWrite[i] = x
  <2>1. stream' \in Seq(Pieces) /\ \A x : x \in Range(stream') <=> x \in Range(stream) \/ x \in Range(now)
    <3> HIDE DEF now
    <3>1. stream' = stream \o now /\ stream' \in Seq(Pieces)
      BY <1>1, <1>2, <1>4 DEF now
    <3>2. Range(stream') = Range(stream) \cup Range(now)
      BY <1>1, <1>4, <3>1, RangeConcat
    <3> QED BY <3>1, <3>2
  <2>2. \A x : x \in Range(now) <=> \E i \in 1..n : toWrite[i] = x
    <3> HIDE DEF now
    <3>1. \A x : x \in Range(now) <=> \E i \in 1..Len(now) : now[i] = x
      BY <1>4, InRange
    <3> QED BY <1>4, <3>1
  <2> QED BY <2>1, <2>2
<1>7. \A i \in 1..n : toWrite[i] = Piece(s, 3 - Len(toWrite) + i)
  BY <1>1, <1>3 DEF RestOf
<1>8. \A t \in Senders, i \in 1..n : toWrite[i] = Newline(t) => t = s /\ i = Len(toWrite)
  <2> SUFFICES ASSUME NEW t \in Senders, NEW i \in 1..n, toWrite[i] = Newline(t)
               PROVE  t = s /\ i = Len(toWrite)
    OBVIOUS
  <2>1. t = s /\ 3 - Len(toWrite) + i = 3
    <3>1. toWrite[i] = Piece(s, 3 - Len(toWrite) + i)
      BY <1>7
    <3>2. toWrite[i].of = s /\ toWrite[i].part = 3 - Len(toWrite) + i
      BY <3>1 DEF Piece
    <3>3. toWrite[i].of = t /\ toWrite[i].part = 3
      BY DEF Newline
    <3> QED BY <3>2, <3>3
  <2> QED BY <1>3, <2>1
<1>9. toWrite' = <<>> <=> n = Len(toWrite)
  BY <1>3, <1>4
<1>10. /\ toWrite' = <<>> => pc' = [pc EXCEPT ![s] = "sent"] /\ writer' = Nobody
       /\ toWrite' # <<>> => UNCHANGED <<writer, pc>>
  BY DEF Write, Goto
<1>11. \A t \in Senders : Newline(t) \in Range(stream') \cup Range(line') => pc'[t] = "sent"
  BY <1>1, <1>6, <1>8, <1>9, <1>10 DEF LossInv
<1>12. Gone' \subseteq Gone
  <2>1. toWrite' = <<>> => Newline(s) \in Range(stream')
    <3>1. 3 - Len(toWrite) + n = 3 /\ n \in 1..n <=> n = Len(toWrite)
      BY <1>3
    <3>2. n = Len(toWrite) => toWrite[n] = Newline(s)
      BY <1>3, <1>7, <3>1 DEF Piece, Newline
    <3> QED BY <1>3, <1>6, <1>9, <3>2
  <2> QED BY <1>1, <1>6, <1>10, <2>1 DEF Gone
<1>13. ~OpenEnd'
  <2>1. CASE toWrite' # <<>>
    BY <1>1, <1>10, <2>1, TcpAssumption DEF OpenEnd
  <2>2. CASE toWrite' = <<>>
    <3>1. Course = (line \o stream) \o toWrite /\ line \o stream \in Seq(Pieces)
      BY <1>1, Concat DEF Course
    <3>2. Course[Len(line \o stream) + Len(toWrite)] = toWrite[Len(toWrite)] /\ Len(Course) = Len(line \o stream) + Len(toWrite)
      BY <1>1, <1>3, <3>1, Concat
    <3>3. toWrite[Len(toWrite)] = Piece(s, 3)
      BY <1>3, <1>7, <1>9, <2>2
    <3> QED BY <1>5, <3>2, <3>3 DEF OpenEnd, Piece
  <2> QED BY <2>1, <2>2
<1>14. Lost' \subseteq Lost
  BY <1>5, <1>12, <1>13 DEF Lost
<1>15. /\ Cardinality(Lost) \in Nat /\ Cardinality(Lost') \in Nat /\ drops \in Nat
       /\ Cardinality(Lost') <= Cardinality(Lost)
  BY <1>14, LostFinite, Counting, FS_CardinalityType, Typed DEF LossInv
<1> QED BY <1>1, <1>11, <1>15 DEF LossInv

LEMMA DropSendLoss ==
    ASSUME LossInv, LockInv', NEW s \in Senders, DropSend(s), pc[s] = "writing"
    PROVE  LossInv'
<1>1. /\ writer = s /\ writer' = Nobody /\ RestOf(toWrite, s) /\ toWrite # <<>> /\ toWrite' = <<>>
      /\ pc' = [pc EXCEPT ![s] = "dropped"] /\ DOMAIN pc = Senders \cup Receivers
      /\ drops' = IF toWrite = LineOf(s) THEN drops ELSE drops + 1
      /\ UNCHANGED <<stream, wire, reader, line, received>>
      /\ line \o stream \in Seq(Pieces) /\ toWrite \in Seq(Pieces)
  BY Typed, TcpAssumption DEF DropSend, receiveVars, Goto, LossInv, LockInv, TcpTypeOK
<1>2. Course' = line \o stream /\ Course = Course' \o toWrite
  <2>1. (line \o stream) \o <<>> = line \o stream
    BY <1>1
  <2> QED BY <1>1, <2>1 DEF Course
<1>3. Gone' \subseteq Gone /\ s \notin Gone'
  BY <1>1 DEF Gone
<1>4. Torn(Course') \subseteq Torn(Course)
  BY <1>1, <1>2, TornOfPrefix
<1>5. Lost' \subseteq Lost \cup {Nobody}
  BY <1>3, <1>4 DEF Lost
<1>6. \A t \in Senders : Newline(t) \in Range(stream) \cup Range(line) => pc[t] = "sent" /\ t # s
  BY <1>1 DEF LossInv
<1>9. \A t \in Senders : Newline(t) \in Range(stream') \cup Range(line') => pc'[t] = "sent"
  BY <1>1, <1>6
<1>10. Cardinality(Lost) \in Nat /\ Cardinality(Lost') \in Nat /\ drops \in Nat
  BY LostFinite, FS_CardinalityType, Typed DEF LossInv
<1>7. CASE toWrite = LineOf(s)
  <2>1. s \notin Torn(Course')
    <3>1. ASSUME NEW i \in 1..Len(line \o stream), (line \o stream)[i] = Piece(s, 3) PROVE FALSE
      <4>1. Piece(s, 3) \in Range(line \o stream) /\ Newline(s) = Piece(s, 3)
        BY <1>1, <3>1, InRange, LineFacts
      <4>2. Newline(s) \in Range(stream) \cup Range(line)
        BY <4>1, Typed, RangeConcat DEF LossInv
      <4> QED BY <1>6, <4>2
    <3> QED BY <1>2, <3>1 DEF Torn
  <2>2. OpenEnd' => s \in Torn(Course)
    BY <1>1, <1>2, <1>7, TornByLine DEF OpenEnd
  <2>3. s # Nobody
    BY TcpAssumption
  <2>4. s \notin Lost'
    BY <1>3, <2>1, <2>3 DEF Lost
  <2>5. CASE OpenEnd'
    <3>1. s \in Lost /\ Lost' \subseteq (Lost \ {s}) \cup {Nobody}
      BY <1>5, <2>2, <2>4, <2>5 DEF Lost
    <3>2. Cardinality(Lost') <= Cardinality(Lost)
      BY <3>1, LostFinite, Counting
    <3> QED BY <1>1, <1>7, <1>9, <1>10, <3>2 DEF LossInv
  <2>6. CASE ~OpenEnd'
    <3>1. Lost' \subseteq Lost
      BY <1>3, <1>4, <2>6 DEF Lost
    <3>2. Cardinality(Lost') <= Cardinality(Lost)
      BY <3>1, LostFinite, Counting
    <3> QED BY <1>1, <1>7, <1>9, <1>10, <3>2 DEF LossInv
  <2> QED BY <2>5, <2>6
<1>8. CASE toWrite # LineOf(s)
  <2>1. /\ Cardinality(Lost') <= Cardinality(Lost) + 1
        /\ Cardinality(Lost) \in Nat /\ Cardinality(Lost') \in Nat /\ drops \in Nat
    BY <1>5, LostFinite, Counting, Typed DEF LossInv
  <2> QED BY <1>1, <1>6, <1>8, <2>1 DEF LossInv
<1> QED BY <1>7, <1>8

(* receive.                                                                 *)
LEMMA ReadSomeLoss ==
    ASSUME LossInv, LockInv', NEW r \in Receivers, ReadSome(r)
    PROVE  LossInv'
<1>1. /\ stream # <<>> /\ line' = Append(line, Head(stream)) /\ stream' = Tail(stream)
      /\ UNCHANGED <<pc, wire, drops, reader, received, writer, toWrite>>
      /\ line \in Seq(Pieces) /\ stream \in Seq(Pieces)
      /\ line' \in Seq(Pieces) /\ stream' \in Seq(Pieces)
  BY Typed DEF ReadSome, sendVars, LossInv, LockInv, TcpTypeOK
<1>2. line' \o stream' = line \o stream
  BY <1>1, MoveOne
<1>3. Course' = Course
  BY <1>1, <1>2 DEF Course
<1>4. OpenEnd' = OpenEnd
  BY <1>1, <1>3 DEF OpenEnd
<1>5. Range(line') \cup Range(stream') = Range(line) \cup Range(stream)
  <2>1. Range(line \o stream) = Range(line) \cup Range(stream)
    BY <1>1, RangeConcat
  <2>2. Range(line' \o stream') = Range(line') \cup Range(stream')
    <3> DEFINE l == line'
               q == stream'
    <3>1. l \in Seq(Pieces) /\ q \in Seq(Pieces)
      BY <1>1
    <3> HIDE DEF l, q
    <3>2. Range(l \o q) = Range(l) \cup Range(q)
      BY <3>1, RangeConcat
    <3> QED BY <3>2 DEF l, q
  <2> QED BY <1>2, <2>1, <2>2
<1>6. Gone' = Gone
  BY <1>1, <1>5 DEF Gone
<1>7. Lost' = Lost
  BY <1>3, <1>4, <1>6 DEF Lost
<1> QED BY <1>1, <1>5, <1>7 DEF LossInv

LEMMA ReturnLineLoss ==
    ASSUME LossInv, LockInv', NEW r \in Receivers, ReturnLine(r)
    PROVE  LossInv'
<1>1. /\ line # <<>> /\ line' = <<>> /\ (Complete(line) \/ (stream = <<>> /\ wire = "shut_down"))
      /\ received' = received \o SetToSeq(Parsed(line))
      /\ pc' = [pc EXCEPT ![r] = "idle"] /\ DOMAIN pc = Senders \cup Receivers
      /\ UNCHANGED <<stream, wire, drops, writer, toWrite>>
      /\ line \in Seq(Pieces) /\ stream \in Seq(Pieces) /\ toWrite \in Seq(Pieces)
      /\ received \in Seq(Senders) /\ received' \in Seq(Senders)
      /\ \A i \in 1..Len(line) : line[i].part = 3 => i = Len(line)
  BY Typed DEF ReturnLine, Ended, sendVars, Goto, LossInv, LockInv, TcpTypeOK
<1>2. \A s \in Senders : pc'[s] = pc[s]
  BY <1>1, TcpAssumption
<1>3. Course' = stream \o toWrite /\ Course = line \o (stream \o toWrite) /\ stream \o toWrite \in Seq(Pieces)
  <2>1. <<>> \o stream = stream
    BY <1>1
  <2>2. (line \o stream) \o toWrite = line \o (stream \o toWrite)
    BY <1>1, ThreeParts
  <2>3. stream \o toWrite \in Seq(Pieces)
    BY <1>1
  <2> QED BY <1>1, <2>1, <2>2, <2>3 DEF Course
<1>4. /\ \A m \in Range(received) : m \in Range(received')
      /\ \A m \in Parsed(line) : m \in Range(received')
  <2>1. /\ Parsed(line) = {} => SetToSeq(Parsed(line)) = <<>>
        /\ \A m \in Parsed(line) : m \in Senders /\ SetToSeq(Parsed(line)) = <<m>>
    BY ParsedSequence, ParsedOne
  <2>2. CASE Parsed(line) = {}
    <3>1. received' = received
      BY <1>1, <2>1, <2>2
    <3> QED BY <2>2, <3>1
  <2>3. ASSUME NEW m \in Parsed(line)
        PROVE  /\ \A n \in Range(received) : n \in Range(received')
               /\ \A n \in Parsed(line) : n \in Range(received')
    <3>1. m \in Senders /\ received' = received \o <<m>> /\ Parsed(line) = {m}
      BY <1>1, <2>1, ParsedOne
    <3>2. <<m>> \in Seq(Senders) /\ Range(<<m>>) = {m}
      BY <3>1 DEF Range
    <3>3. Range(received') = Range(received) \cup {m}
      <4> DEFINE one == <<m>>
      <4>1. one \in Seq(Senders) /\ received \in Seq(Senders)
        BY <1>1, <3>2
      <4> HIDE DEF one
      <4>2. Range(received \o one) = Range(received) \cup Range(one)
        BY <4>1, RangeConcat
      <4> QED BY <3>1, <3>2, <4>2 DEF one
    <3> QED BY <3>1, <3>3
  <2> QED BY <2>2, <2>3
<1>5. \A t \in Senders : Newline(t) \in Range(stream') \cup Range(line') => pc'[t] = "sent"
  <2>1. Range(<<>>) = {}
    BY DEF Range
  <2> QED BY <1>1, <1>2, <2>1 DEF LossInv
<1>6. Course' # <<>> => Course # <<>> /\ Course[Len(Course)] = Course'[Len(Course')]
  <2> DEFINE c == stream \o toWrite
  <2>1. c \in Seq(Pieces)
    BY <1>3
  <2> HIDE DEF c
  <2>2. c # <<>> => (line \o c) # <<>> /\ (line \o c)[Len(line \o c)] = c[Len(c)]
    BY <1>1, <2>1, Concat
  <2> QED BY <1>3, <2>2 DEF c
<1>7. OpenEnd' => OpenEnd
  BY <1>1, <1>6 DEF OpenEnd
<1>8. Lost' \subseteq Lost
  <2>1. CASE ~Complete(line)
    <3>1. stream = <<>> /\ wire = "shut_down"
      BY <1>1, <2>1
    <3>2. writer = Nobody /\ toWrite = <<>>
      BY <3>1 DEF LossInv, LockInv, TcpTypeOK
    <3>3. Course' = <<>>
      BY <1>3, <3>1, <3>2
    <3>4. Torn(Course') = {} /\ ~OpenEnd'
      BY <3>3 DEF Torn, OpenEnd
    <3>5. \A s \in Senders : Newline(s) \notin Range(line)
      <4>1. \A i \in 1..Len(line) : line[i].part # 3
        BY <1>1, <2>1 DEF Complete, Last
      <4> QED BY <1>1, <4>1, InRange DEF Newline
    <3>6. Gone' \subseteq Gone
      BY <1>1, <1>2, <1>4, <3>5 DEF Gone
    <3> QED BY <3>4, <3>6 DEF Lost
  <2>2. CASE Complete(line)
    <3>1. line[Len(line)].part = 3 /\ line[Len(line)] \in Pieces
      BY <1>1, <2>2, ElementsOf DEF Complete, Last
    <3>2. PICK m \in Senders : line[Len(line)] = Piece(m, 3)
      BY <3>1, PieceFacts
    <3>3. Torn(Course') \subseteq Torn(Course)
      BY <1>1, <1>3, <3>1, TornOfSuffix
    <3>4. m \in Torn(Course) \/ m \in Range(received')
      <4>1. line = LineOf(m) \/ m \in Torn(Course)
        BY <1>1, <1>3, <3>2, TornOrWhole
      <4> QED BY <1>4, <4>1 DEF Parsed
    <3>5. \A s \in Senders : Newline(s) \in Range(line) => s = m
      <4> SUFFICES ASSUME NEW s \in Senders, NEW i \in 1..Len(line), line[i] = Newline(s) PROVE s = m
        BY <1>1, InRange
      <4>1. i = Len(line)
        BY <1>1 DEF Newline
      <4> QED BY <3>2, <4>1 DEF Piece, Newline
    <3>6. Gone' \subseteq Gone \cup Torn(Course)
      BY <1>1, <1>2, <1>4, <3>4, <3>5 DEF Gone
    <3> QED BY <1>7, <3>3, <3>6 DEF Lost
  <2> QED BY <2>1, <2>2
<1>9. Cardinality(Lost') <= Cardinality(Lost) /\ Cardinality(Lost) \in Nat /\ Cardinality(Lost') \in Nat /\ drops \in Nat
  BY <1>8, LostFinite, Counting, Typed DEF LossInv
<1> QED BY <1>1, <1>5, <1>9 DEF LossInv

LEMMA DropReceiveLoss ==
    ASSUME LossInv, LockInv', NEW r \in Receivers, DropReceive(r), pc[r] = "reading", line # <<>>
    PROVE  LossInv'
<1>1. /\ ~Complete(line) /\ line' = <<>> /\ drops' = drops + 1
      /\ pc' = [pc EXCEPT ![r] = "idle"] /\ DOMAIN pc = Senders \cup Receivers
      /\ UNCHANGED <<stream, wire, received, writer, toWrite>>
      /\ line \in Seq(Pieces) /\ stream \in Seq(Pieces) /\ toWrite \in Seq(Pieces)
      /\ \A i \in 1..Len(line) : line[i].part = 3 => i = Len(line)
  BY Typed DEF DropReceive, sendVars, Goto, LossInv, LockInv, TcpTypeOK
<1>2. \A s \in Senders : pc'[s] = pc[s]
  BY <1>1, TcpAssumption
<1>3. Course' = stream \o toWrite /\ Course = line \o (stream \o toWrite) /\ stream \o toWrite \in Seq(Pieces)
  <2>1. <<>> \o stream = stream
    BY <1>1
  <2>2. (line \o stream) \o toWrite = line \o (stream \o toWrite)
    BY <1>1, ThreeParts
  <2>3. stream \o toWrite \in Seq(Pieces)
    BY <1>1
  <2> QED BY <1>1, <2>1, <2>2, <2>3 DEF Course
<1>4. Range(line') = {}
  BY <1>1 DEF Range
<1>5. \A t \in Senders : Newline(t) \in Range(stream') \cup Range(line') => pc'[t] = "sent"
  BY <1>1, <1>2, <1>4 DEF LossInv
<1>6. OpenEnd' => OpenEnd
  <2> DEFINE c == stream \o toWrite
  <2>1. c \in Seq(Pieces)
    BY <1>3
  <2> HIDE DEF c
  <2>2. c # <<>> => (line \o c) # <<>> /\ (line \o c)[Len(line \o c)] = c[Len(c)]
    BY <1>1, <2>1, Concat
  <2>3. Course' # <<>> => Course # <<>> /\ Course[Len(Course)] = Course'[Len(Course')]
    BY <1>3, <2>2 DEF c
  <2> QED BY <1>1, <2>3 DEF OpenEnd
<1>7. Gone' \subseteq Gone
  <2>1. \A i \in 1..Len(line) : line[i].part # 3
    BY <1>1 DEF Complete, Last
  <2>2. \A s \in Senders : Newline(s) \notin Range(line)
    BY <1>1, <2>1, InRange DEF Newline
  <2> QED BY <1>1, <1>2, <2>2 DEF Gone
<1>8. PICK m : Torn(Course') \subseteq Torn(Course) \cup {m}
  BY <1>1, <1>3, TornByDrop
<1>9. Lost' \subseteq Lost \cup {m}
  BY <1>6, <1>7, <1>8 DEF Lost
<1>10. /\ Cardinality(Lost') <= Cardinality(Lost) + 1
       /\ Cardinality(Lost) \in Nat /\ Cardinality(Lost') \in Nat /\ drops \in Nat
  BY <1>9, LostFinite, Counting, Typed DEF LossInv
<1> QED BY <1>1, <1>5, <1>10 DEF LossInv

(* When the connection has been reset, nothing is promised.                 *)
LEMMA ResetLoss ==
    ASSUME LossInv, LockInv', wire' = "reset",
           \A x : x \in Range(stream') \cup Range(line') => x \in Range(stream) \cup Range(line),
           \A s \in Senders : pc[s] = "sent" => pc'[s] = "sent"
    PROVE  LossInv'
BY DEF LossInv

LEMMA LossStep == LossInv /\ [TcpNext]_tcpVars => LossInv'
<1> SUFFICES ASSUME LossInv, [TcpNext]_tcpVars PROVE LossInv'
  OBVIOUS
<1>1. LockInv /\ LockInv' /\ DOMAIN pc = Senders \cup Receivers
  BY LockStep DEF LossInv, LockInv
<1>2. Range(<<>>) = {}
  BY DEF Range
<1>3. ASSUME NEW s \in Senders, Send(s) \/ SenderStep(s) \/ DropSend(s) PROVE LossInv'
  <2>1. CASE Send(s)
    BY <1>1, <2>1, QuietLoss DEF Send, Goto, sendVars, receiveVars
  <2>2. CASE LockWriter(s)
    BY <1>1, <2>2, LockWriterLoss
  <2>3. CASE Write(s)
    BY <1>1, <2>3, WriteLoss
  <2>4. CASE WriteFails(s)
    <3>1. wire' = "reset"
      BY <1>1, <2>4 DEF WriteFails, LockInv, TcpTypeOK
    <3>2. UNCHANGED <<stream, line>> /\ pc' = [pc EXCEPT ![s] = "failed"] /\ pc[s] = "writing"
      BY <2>4 DEF WriteFails, Goto, receiveVars
    <3> QED BY <1>1, <3>1, <3>2, ResetLoss
  <2>5. CASE DropSend(s) /\ pc[s] = "locking"
    BY <1>1, <2>5, QuietLoss DEF DropSend, Goto, receiveVars
  <2>6. CASE DropSend(s) /\ pc[s] = "writing"
    BY <1>1, <2>6, DropSendLoss
  <2> QED BY <1>3, <2>1, <2>2, <2>3, <2>4, <2>5, <2>6 DEF SenderStep, DropSend
<1>4. ASSUME NEW r \in Receivers, ReceiverStep(r) \/ DropReceive(r) PROVE LossInv'
  <2>1. CASE Receive(r)
    BY <1>1, <2>1, TcpAssumption, QuietLoss DEF Receive, Goto, sendVars, receiveVars
  <2>2. CASE LockReader(r)
    <3>1. line = <<>>
      BY <1>1, <2>2 DEF LockReader, LockInv
    <3> QED BY <1>1, <2>2, <3>1, TcpAssumption, QuietLoss DEF LockReader, Goto, sendVars
  <2>3. CASE ReadSome(r)
    BY <1>1, <2>3, ReadSomeLoss
  <2>4. CASE ReturnLine(r)
    BY <1>1, <2>4, ReturnLineLoss
  <2>5. CASE ReturnClosed(r)
    BY <1>1, <2>5, TcpAssumption, QuietLoss DEF ReturnClosed, Goto, sendVars
  <2>6. CASE ReadFails(r)
    BY <1>1, <1>2, <2>6, TcpAssumption, ResetLoss DEF ReadFails, Goto, sendVars
  <2>7. CASE DropReceive(r) /\ pc[r] = "reading" /\ line # <<>>
    BY <1>1, <2>7, DropReceiveLoss
  <2>8. CASE DropReceive(r) /\ ~(pc[r] = "reading" /\ line # <<>>)
    <3>1. /\ UNCHANGED <<stream, line, toWrite, writer, received, wire, drops>>
          /\ pc' = [pc EXCEPT ![r] = "idle"]
      BY <2>8 DEF DropReceive, Goto, sendVars
    <3> QED BY <1>1, <3>1, TcpAssumption, QuietLoss
  <2> QED BY <1>4, <2>1, <2>2, <2>3, <2>4, <2>5, <2>6, <2>7, <2>8 DEF ReceiverStep
<1>5. CASE ShutDown
  <2>1. /\ UNCHANGED <<stream, line, toWrite, writer, received, drops>> /\ wire = "open" /\ wire' = "shut_down"
        /\ pc' = [t \in DOMAIN pc |-> IF t \in Senders /\ pc[t] = "idle" THEN "dropped" ELSE pc[t]]
    BY <1>5 DEF ShutDown, sendVars, receiveVars
  <2>2. \A s \in Senders : pc'[s] = "sent" <=> pc[s] = "sent"
    BY <1>1, <2>1
  <2>3. Gone' = Gone /\ Course' = Course /\ OpenEnd' = OpenEnd
    BY <2>1, <2>2 DEF Gone, Course, OpenEnd
  <2>4. Lost' = Lost
    BY <2>3 DEF Lost
  <2> QED BY <1>1, <2>1, <2>2, <2>4 DEF LossInv
<1>6. CASE Reset
  <2>1. PICK n \in 0..Len(stream) : stream' = SubSeq(stream, 1, n)
    BY <1>6 DEF Reset
  <2>2. Range(stream') \subseteq Range(stream)
    <3>1. stream \in Seq(Pieces)
      BY <1>1 DEF LockInv, TcpTypeOK
    <3> QED BY <2>1, <3>1, Prefix
  <2> QED BY <1>1, <1>6, <2>2, ResetLoss DEF Reset, sendVars, receiveVars
<1>7. CASE UNCHANGED tcpVars
  BY <1>1, <1>7, QuietLoss DEF tcpVars
<1> QED BY <1>3, <1>4, <1>5, <1>6, <1>7 DEF TcpNext

(* Every future that is dropped in the middle of a line costs at most one   *)
(* of the messages that were reported as sent: EachDropLosesOne of McpTcp,  *)
(* for the lines TcpTransport glues together.                               *)
THEOREM OneMessagePerDrop == TcpSpec => []EachDropLosesOne
<1>1. LossInv => EachDropLosesOne
  <2> SUFFICES ASSUME LossInv, wire # "reset" PROVE Cardinality(Gone) <= drops
    BY DEF EachDropLosesOne
  <2>1. IsFiniteSet(Lost) /\ Gone \subseteq Lost
    BY LostFinite DEF Lost
  <2>2. Cardinality(Gone) <= Cardinality(Lost) /\ Cardinality(Gone) \in Nat /\ Cardinality(Lost) \in Nat
    BY <2>1, FS_Subset, FS_CardinalityType
  <2> QED BY <2>2, Typed DEF LossInv
<1> QED BY LossInit, LossStep, <1>1, PTL DEF TcpSpec

-----------------------------------------------------------------------------
(* Sorted(K) is the one way to count through K upwards.                     *)
LEMMA NatLeast ==
    ASSUME NEW I \in SUBSET Nat, I # {}
    PROVE  \E m \in I : \A n \in I : m <= n
<1> DEFINE R == OpToRel(<, Nat)
<1>1. \A n, m \in Nat : n < m => <<n, m>> \in R
  BY DEF OpToRel
<1> HIDE DEF R
<1>2. IsWellFoundedOn(R, Nat)
  BY NatLessThanWellFounded DEF R
<1>3. PICK m \in I : \A n \in I : ~ (<<n, m>> \in R)
  BY <1>2, WFMin
<1>4. \A n \in I : ~ (n < m)
  BY <1>1, <1>3
<1> QED BY <1>4

Counts(f, n, K) == f \in [1..n -> K] /\ Ascending(f, n)

LEMMA CountsExist ==
    ASSUME NEW n \in Nat, NEW K \in SUBSET Nat, IsFiniteSet(K), Cardinality(K) = n
    PROVE  \E f : Counts(f, n, K)
<1> DEFINE Bad == {k \in Nat : \E J \in SUBSET Nat :
                       IsFiniteSet(J) /\ Cardinality(J) = k /\ ~ \E f : Counts(f, k, J)}
<1>1. ASSUME Bad # {} PROVE FALSE
  <2>1. PICK k \in Bad : \A j \in Bad : k <= j
    BY <1>1, NatLeast
  <2>2. k \in Nat
    OBVIOUS
  <2>3. PICK J \in SUBSET Nat : IsFiniteSet(J) /\ Cardinality(J) = k /\ ~ \E f : Counts(f, k, J)
    OBVIOUS
  <2>4. CASE J = {}
    <3>1. k = 0
      BY <2>3, <2>4, FS_EmptySet
    <3>2. Counts([i \in 1..0 |-> 0], 0, J)
      BY DEF Counts, Ascending
    <3> QED BY <2>3, <3>1, <3>2
  <2>5. CASE J # {}
    <3>1. PICK x \in J : \A y \in J : x <= y
      BY <2>5, NatLeast
    <3>2. /\ IsFiniteSet(J \ {x}) /\ Cardinality(J \ {x}) = k - 1 /\ J \ {x} \in SUBSET Nat
          /\ k - 1 \in Nat
      <4>1. IsFiniteSet(J \ {x}) /\ Cardinality(J \ {x}) = k - 1
        BY <2>3, FS_RemoveElement
      <4>2. Cardinality(J \ {x}) \in Nat
        BY <4>1, FS_CardinalityType
      <4> QED BY <4>1, <4>2
    <3>3. k - 1 \notin Bad
      BY <2>1, <2>2, <3>2
    <3>4. PICK g : Counts(g, k - 1, J \ {x})
      BY <3>2, <3>3
    <3> DEFINE f == [i \in 1..k |-> IF i = 1 THEN x ELSE g[i - 1]]
    <3>5. /\ \A i \in 1..(k - 1) : g[i] \in J \ {x}
          /\ \A i, j \in 1..(k - 1) : i < j => g[i] < g[j]
      BY <3>4 DEF Counts, Ascending
    <3>6. \A i \in 1..k : i = 1 \/ i - 1 \in 1..(k - 1)
      BY <2>2
    <3>7. f \in [1..k -> J]
      BY <3>5, <3>6
    <3>8. ASSUME NEW i \in 1..k, NEW j \in 1..k, i < j PROVE f[i] < f[j]
      <4>1. j - 1 \in 1..(k - 1) /\ j # 1 /\ f[j] = g[j - 1]
        BY <2>2, <3>8
      <4>2. CASE i = 1
        <5>1. g[j - 1] \in J /\ g[j - 1] # x /\ x <= g[j - 1]
          BY <3>1, <3>5, <4>1
        <5>2. f[i] = x /\ x \in Nat /\ g[j - 1] \in Nat
          BY <4>2, <5>1
        <5> HIDE DEF f
        <5> QED BY <4>1, <5>1, <5>2
      <4>3. CASE i # 1
        <5>1. i - 1 \in 1..(k - 1) /\ i - 1 < j - 1 /\ f[i] = g[i - 1]
          BY <2>2, <3>8, <4>3
        <5>2. g[i - 1] < g[j - 1]
          BY <3>5, <4>1, <5>1
        <5> QED BY <4>1, <5>1, <5>2
      <4> QED BY <4>2, <4>3
    <3>9. Counts(f, k, J)
      BY <3>7, <3>8 DEF Counts, Ascending
    <3> QED BY <2>3, <3>9
  <2> QED BY <2>4, <2>5
<1> QED BY <1>1

LEMMA CountsAll ==
    ASSUME NEW K \in SUBSET Nat, IsFiniteSet(K), NEW f, Counts(f, Cardinality(K), K)
    PROVE  \A k \in K : \E i \in 1..Cardinality(K) : f[i] = k
<1> DEFINE n == Cardinality(K)
<1>1. n \in Nat
  BY FS_CardinalityType
<1>2. IsFiniteSet(1..n) /\ Cardinality(1..n) = n
  BY <1>1, FS_Interval
<1>3. f \in Injection(1..n, K)
  <2>1. f \in [1..n -> K]
    BY DEF Counts
  <2>2. \A i, j \in 1..n : f[i] = f[j] => i = j
    <3> SUFFICES ASSUME NEW i \in 1..n, NEW j \in 1..n, i # j PROVE f[i] # f[j]
      OBVIOUS
    <3>1. f[i] \in Nat /\ f[j] \in Nat
      BY <2>1
    <3>2. i < j => f[i] < f[j]
      BY DEF Counts, Ascending
    <3>3. j < i => f[j] < f[i]
      BY DEF Counts, Ascending
    <3>4. i < j \/ j < i
      BY <1>1
    <3> QED BY <3>1, <3>2, <3>3, <3>4
  <2> QED BY <2>1, <2>2 DEF Injection, IsInjective
<1>4. f \in Surjection(1..n, K)
  BY <1>2, <1>3, FS_Injection
<1> QED BY <1>4 DEF Surjection

LEMMA CountsOnce ==
    ASSUME NEW K \in SUBSET Nat, IsFiniteSet(K),
           NEW f, Counts(f, Cardinality(K), K), NEW g, Counts(g, Cardinality(K), K)
    PROVE  f = g
<1> DEFINE n == Cardinality(K)
           Differ == {i \in 1..n : f[i] # g[i]}
<1>1. n \in Nat
  BY FS_CardinalityType
<1>2. /\ f \in [1..n -> K] /\ g \in [1..n -> K]
      /\ \A i, j \in 1..n : i < j => f[i] < f[j] /\ g[i] < g[j]
  BY DEF Counts, Ascending
<1>3. \A k \in K : (\E i \in 1..n : f[i] = k) /\ (\E i \in 1..n : g[i] = k)
  BY CountsAll
<1> HIDE DEF n
<1>4. ASSUME Differ # {} PROVE FALSE
  <2>1. Differ \in SUBSET Nat
    BY <1>1
  <2>2. PICK i \in Differ : \A j \in Differ : i <= j
    BY <1>4, <2>1, NatLeast
  <2>3. i \in 1..n /\ f[i] # g[i] /\ \A j \in 1..n : j < i => f[j] = g[j]
    BY <1>1, <2>2
  <2>4. f[i] \in K /\ g[i] \in K /\ f[i] \in Nat /\ g[i] \in Nat
    BY <1>2, <2>3
  <2>5. PICK j \in 1..n : g[j] = f[i]
    BY <1>3, <2>4
  <2>6. PICK k \in 1..n : f[k] = g[i]
    BY <1>3, <2>4
  <2>7. g[i] < f[i]
    <3>1. j # i /\ ~(j < i)
      <4>1. j # i
        BY <2>3, <2>5
      <4>2. ASSUME j < i PROVE FALSE
        <5>1. f[j] = f[i] /\ f[j] < f[i]
          BY <1>2, <2>3, <2>5, <4>2
        <5> QED BY <2>4, <5>1
      <4> QED BY <4>1, <4>2
    <3>2. i < j
      BY <1>1, <2>3, <3>1
    <3> QED BY <1>2, <2>3, <2>5, <3>2
  <2>8. f[i] < g[i]
    <3>1. k # i /\ ~(k < i)
      <4>1. k # i
        BY <2>3, <2>6
      <4>2. ASSUME k < i PROVE FALSE
        <5>1. g[k] = g[i] /\ g[k] < g[i]
          BY <1>2, <2>3, <2>6, <4>2
        <5> QED BY <2>4, <5>1
      <4> QED BY <4>1, <4>2
    <3>2. i < k
      BY <1>1, <2>3, <3>1
    <3> QED BY <1>2, <2>3, <2>6, <3>2
  <2> QED BY <2>4, <2>7, <2>8
<1>5. \A i \in 1..n : f[i] = g[i]
  BY <1>4
<1>6. f = [i \in 1..n |-> f[i]] /\ g = [i \in 1..n |-> g[i]]
  BY <1>2
<1> QED BY <1>5, <1>6

LEMMA SortedCounts ==
    ASSUME NEW K \in SUBSET Nat, IsFiniteSet(K)
    PROVE  /\ Cardinality(K) \in Nat
           /\ Counts(Sorted(K), Cardinality(K), K)
           /\ \A f : Counts(f, Cardinality(K), K) => Sorted(K) = f
<1>1. Cardinality(K) \in Nat
  BY FS_CardinalityType
<1>2. PICK f : Counts(f, Cardinality(K), K)
  BY <1>1, CountsExist
<1>3. \E g \in [1..Cardinality(K) -> K] : Ascending(g, Cardinality(K))
  BY <1>2 DEF Counts
<1>4. Counts(Sorted(K), Cardinality(K), K)
  BY <1>3 DEF Sorted, Counts
<1> QED BY <1>1, <1>4, CountsOnce

-----------------------------------------------------------------------------
(* The messages in a sequence of pieces.                                    *)
LEMMA MessagesFacts ==
    ASSUME NEW q \in Seq(Pieces)
    PROVE  /\ Ends(q) \in SUBSET Nat /\ IsFiniteSet(Ends(q)) /\ Ends(q) \subseteq 1..Len(q)
           /\ Cardinality(Ends(q)) \in Nat
           /\ Counts(Sorted(Ends(q)), Cardinality(Ends(q)), Ends(q))
           /\ MessagesIn(q) \in Seq(Senders)
           /\ Len(MessagesIn(q)) = Cardinality(Ends(q))
           /\ DOMAIN MessagesIn(q) = 1..Cardinality(Ends(q))
           /\ \A i \in 1..Cardinality(Ends(q)) :
                 Sorted(Ends(q))[i] \in Ends(q) /\ MessagesIn(q)[i] = q[Sorted(Ends(q))[i]].of
<1> DEFINE K == Ends(q)
           n == Cardinality(K)
           m == MessagesIn(q)
<1>1. K \subseteq 1..Len(q) /\ K \in SUBSET Nat
  BY DEF Ends
<1>2. IsFiniteSet(K)
  <2>1. Len(q) \in Nat
    OBVIOUS
  <2>2. IsFiniteSet(1..Len(q))
    BY <2>1, FS_Interval
  <2> QED BY <1>1, <2>2, FS_Subset
<1>3. n \in Nat /\ Counts(Sorted(K), n, K)
  BY <1>1, <1>2, SortedCounts
<1>4. \A i \in 1..n : Sorted(K)[i] \in K /\ q[Sorted(K)[i]].of \in Senders
  <2>1. \A i \in 1..n : Sorted(K)[i] \in K
    BY <1>3 DEF Counts
  <2> QED BY <1>1, <2>1, ElementsOf, PieceFacts
<1>5. m = [i \in 1..n |-> q[Sorted(K)[i]].of]
  BY DEF MessagesIn
<1> HIDE DEF K, n, m
<1>6. m \in [1..n -> Senders]
  BY <1>4, <1>5
<1>7. m \in Seq(Senders) /\ Len(m) = n /\ DOMAIN m = 1..n
  BY <1>3, <1>6
<1>8. \A i \in 1..n : m[i] = q[Sorted(K)[i]].of
  BY <1>5
<1> QED BY <1>1, <1>2, <1>3, <1>4, <1>7, <1>8 DEF K, n, m

(* Any way of counting through the ends gives the messages.                 *)
LEMMA MessagesAre ==
    ASSUME NEW q \in Seq(Pieces), NEW n \in Nat, NEW f, Counts(f, n, Ends(q)),
           \A k \in Ends(q) : \E i \in 1..n : f[i] = k
    PROVE  /\ Cardinality(Ends(q)) = n /\ Sorted(Ends(q)) = f
           /\ Len(MessagesIn(q)) = n /\ \A i \in 1..n : MessagesIn(q)[i] = q[f[i]].of
<1> DEFINE K == Ends(q)
<1>1. K \in SUBSET Nat /\ IsFiniteSet(K)
  BY MessagesFacts
<1>2. f \in Bijection(1..n, K)
  <2>1. f \in [1..n -> K] /\ \A i, j \in 1..n : i < j => f[i] < f[j]
    BY DEF Counts, Ascending
  <2>2. ASSUME NEW i \in 1..n, NEW j \in 1..n, i # j PROVE f[i] # f[j]
    <3>1. f[i] \in Nat /\ f[j] \in Nat /\ (i < j \/ j < i)
      BY <1>1, <2>1, <2>2
    <3> QED BY <2>1, <3>1
  <2> QED BY <2>1, <2>2 DEF Bijection, Injection, Surjection, IsInjective
<1>3. IsFiniteSet(1..n) /\ Cardinality(1..n) = n
  BY FS_Interval
<1>4. Cardinality(K) = n
  <2>1. ExistsBijection(1..n, K)
    BY <1>2 DEF ExistsBijection
  <2> QED BY <1>3, <2>1, FS_Bijection
<1>5. Sorted(K) = f
  BY <1>1, <1>4, SortedCounts
<1> QED BY <1>4, <1>5, MessagesFacts

LEMMA FromZero == \A n, t \in Nat : n <= t => n \in 0..t
OBVIOUS

(* Sequence b is what a loss leaves of a.                                   *)
LoseFrom(a, b) ==
    \E n \in 0..Len(a) : \E kept \in [1..n -> DOMAIN a] :
        /\ \A i, j \in 1..n : i < j => kept[i] < kept[j]
        /\ b = [i \in 1..n |-> a[kept[i]]]

(* When some of the pieces stay, in their order, some of the messages do.   *)
LEMMA SomeStay ==
    ASSUME NEW q \in Seq(Pieces), NEW r \in Seq(Pieces),
           NEW h \in [1..Len(r) -> 1..Len(q)],
           \A i, j \in 1..Len(r) : i < j => h[i] < h[j],
           \A i \in 1..Len(r) : r[i] = q[h[i]]
    PROVE  LoseFrom(MessagesIn(q), MessagesIn(r))
<1> DEFINE K == Ends(q)
           J == Ends(r)
           m == Cardinality(K)
           n == Cardinality(J)
           f == Sorted(K)
           g == Sorted(J)
           kept == [i \in 1..n |-> CHOOSE a \in 1..m : f[a] = h[g[i]]]
<1>1. /\ K \in SUBSET Nat /\ K \subseteq 1..Len(q) /\ m \in Nat /\ Counts(f, m, K)
      /\ J \in SUBSET Nat /\ J \subseteq 1..Len(r) /\ n \in Nat /\ Counts(g, n, J)
      /\ IsFiniteSet(K) /\ IsFiniteSet(J)
  BY MessagesFacts
<1>2. \A k \in K : \E i \in 1..m : f[i] = k
  <2> HIDE DEF K, f
  <2>1. K \in SUBSET Nat /\ IsFiniteSet(K) /\ Counts(f, Cardinality(K), K)
    BY <1>1
  <2> QED BY <2>1, CountsAll
<1>3. \A j \in J : h[j] \in K
  BY <1>1 DEF Ends
<1>4. /\ DOMAIN MessagesIn(q) = 1..m /\ Len(MessagesIn(q)) = m
      /\ \A i \in 1..m : MessagesIn(q)[i] = q[f[i]].of
      /\ MessagesIn(r) \in Seq(Senders) /\ Len(MessagesIn(r)) = n /\ DOMAIN MessagesIn(r) = 1..n
      /\ \A i \in 1..n : MessagesIn(r)[i] = r[g[i]].of
      /\ MessagesIn(r) = [i \in 1..n |-> r[g[i]].of]
  BY MessagesFacts DEF MessagesIn
<1> HIDE DEF K, J, m, n, f, g
<1>5. /\ f \in [1..m -> K] /\ g \in [1..n -> J]
      /\ \A i, j \in 1..m : i < j => f[i] < f[j]
      /\ \A i, j \in 1..n : i < j => g[i] < g[j]
  BY <1>1 DEF Counts, Ascending
<1>6. \A i \in 1..n : kept[i] \in 1..m /\ f[kept[i]] = h[g[i]]
  BY <1>2, <1>3, <1>5
<1>7. kept \in [1..n -> 1..m]
  BY <1>6
<1> HIDE DEF kept
<1>8. ASSUME NEW i \in 1..n, NEW j \in 1..n, i < j PROVE kept[i] < kept[j]
  <2>1. h[g[i]] < h[g[j]]
    BY <1>1, <1>5, <1>8
  <2>2. kept[i] \in Nat /\ kept[j] \in Nat /\ kept[i] \in 1..m /\ kept[j] \in 1..m
    <3>1. kept[i] \in 1..m /\ kept[j] \in 1..m
      BY <1>6
    <3> QED BY <1>1, <3>1
  <2>3. f[kept[i]] \in Nat /\ f[kept[j]] \in Nat /\ f[kept[i]] < f[kept[j]]
    BY <1>1, <1>5, <1>6, <2>1, <2>2
  <2>4. kept[j] < kept[i] => f[kept[j]] < f[kept[i]]
    BY <1>5, <2>2
  <2>5. kept[i] # kept[j]
    BY <2>3
  <2> QED BY <2>2, <2>3, <2>4, <2>5
<1>9. n <= m
  <2>1. IsFiniteSet(1..n) /\ Cardinality(1..n) = n /\ IsFiniteSet(1..m) /\ Cardinality(1..m) = m
    BY <1>1, FS_Interval
  <2>2. ASSUME NEW i \in 1..n, NEW j \in 1..n, i # j PROVE kept[i] # kept[j]
    <3>1. kept[i] \in Nat /\ kept[j] \in Nat /\ (i < j \/ j < i)
      BY <1>1, <1>6, <2>2
    <3> QED BY <1>8, <3>1
  <2>3. kept \in Injection(1..n, 1..m)
    BY <1>7, <2>2 DEF Injection, IsInjective
  <2>4. Cardinality(1..n) <= Cardinality(1..m)
    BY <2>1, <2>3, FS_Injection
  <2> QED BY <2>1, <2>4
<1>10. MessagesIn(r) = [i \in 1..n |-> MessagesIn(q)[kept[i]]]
  <2>1. \A i \in 1..n : MessagesIn(q)[kept[i]] = r[g[i]].of
    <3> SUFFICES ASSUME NEW i \in 1..n PROVE MessagesIn(q)[kept[i]] = r[g[i]].of
      OBVIOUS
    <3>1. MessagesIn(q)[kept[i]] = q[f[kept[i]]].of
      BY <1>4, <1>6
    <3>2. q[f[kept[i]]] = r[g[i]]
      BY <1>1, <1>5, <1>6
    <3> QED BY <3>1, <3>2
  <2> QED BY <1>4, <2>1
<1>11. n \in 0..Len(MessagesIn(q))
  BY <1>1, <1>4, <1>9, FromZero
<1>12. kept \in [1..n -> DOMAIN MessagesIn(q)]
  BY <1>4, <1>7
<1> QED BY <1>8, <1>10, <1>11, <1>12 DEF LoseFrom

LEMMA NoneMore ==
    ASSUME NEW q \in Seq(Pieces), NEW w \in Seq(Pieces), \A i \in 1..Len(w) : w[i].part # 2
    PROVE  MessagesIn(q \o w) = MessagesIn(q)
<1> DEFINE c == q \o w
<1>1. /\ c \in Seq(Pieces) /\ Len(c) = Len(q) + Len(w) /\ Len(q) \in Nat /\ Len(w) \in Nat
      /\ \A i \in 1..Len(q) : c[i] = q[i] /\ i \in 1..Len(c)
      /\ \A i \in 1..Len(c) : i <= Len(q) \/ (i - Len(q) \in 1..Len(w) /\ c[i] = w[i - Len(q)])
  BY Concat
<1> HIDE DEF c
<1>2. Ends(c) = Ends(q)
  <2>1. \A i : i \in Ends(q) <=> i \in 1..Len(q) /\ q[i].part = 2
    BY DEF Ends
  <2>2. \A i : i \in Ends(c) <=> i \in 1..Len(c) /\ c[i].part = 2
    BY <1>1 DEF Ends
  <2>3. ASSUME NEW i \in Ends(c) PROVE i \in Ends(q)
    <3>1. i \in 1..Len(c) /\ c[i].part = 2
      BY <2>2
    <3>2. i <= Len(q)
      BY <1>1, <3>1
    <3>3. i \in 1..Len(q)
      BY <1>1, <3>1, <3>2
    <3> QED BY <1>1, <2>1, <3>1, <3>3
  <2>4. ASSUME NEW i \in Ends(q) PROVE i \in Ends(c)
    <3>1. i \in 1..Len(q) /\ q[i].part = 2
      BY <2>1
    <3>2. i \in 1..Len(c) /\ c[i] = q[i]
      BY <1>1, <3>1
    <3> QED BY <2>2, <3>1, <3>2
  <2> QED BY <2>3, <2>4
<1>3. \A i \in 1..Cardinality(Ends(q)) : c[Sorted(Ends(q))[i]] = q[Sorted(Ends(q))[i]]
  <2>1. \A i \in 1..Cardinality(Ends(q)) : Sorted(Ends(q))[i] \in 1..Len(q)
    BY MessagesFacts
  <2> QED BY <1>1, <2>1
<1>4. MessagesIn(c) = MessagesIn(q)
  BY <1>2, <1>3 DEF MessagesIn
<1> QED BY <1>4 DEF c

LEMMA OneMore ==
    ASSUME NEW q \in Seq(Pieces), NEW w \in Seq(Pieces), NEW p \in 1..Len(w),
           \A i \in 1..Len(w) : w[i].part = 2 <=> i = p
    PROVE  MessagesIn(q \o w) = Append(MessagesIn(q), w[p].of)
<1> DEFINE c == q \o w
           n == Cardinality(Ends(q))
           g == Sorted(Ends(q))
           k == Len(q) + p
           f == [i \in 1..(n + 1) |-> IF i = n + 1 THEN k ELSE g[i]]
<1>1. /\ c \in Seq(Pieces) /\ Len(c) = Len(q) + Len(w) /\ Len(q) \in Nat /\ Len(w) \in Nat
      /\ \A i \in 1..Len(q) : c[i] = q[i] /\ i \in 1..Len(c)
      /\ \A i \in 1..Len(w) : c[Len(q) + i] = w[i] /\ Len(q) + i \in 1..Len(c)
      /\ \A i \in 1..Len(c) : i <= Len(q) \/ (i - Len(q) \in 1..Len(w) /\ c[i] = w[i - Len(q)])
  BY Concat
<1>2. k \in 1..Len(c) /\ c[k] = w[p] /\ w[p].part = 2
  BY <1>1
<1>3. /\ n \in Nat /\ Counts(g, n, Ends(q)) /\ Ends(q) \subseteq 1..Len(q)
      /\ \A j \in Ends(q) : \E i \in 1..n : g[i] = j
      /\ MessagesIn(q) \in Seq(Senders) /\ Len(MessagesIn(q)) = n
      /\ \A i \in 1..n : g[i] \in Ends(q) /\ MessagesIn(q)[i] = q[g[i]].of
  <2>1. /\ Ends(q) \in SUBSET Nat /\ IsFiniteSet(Ends(q)) /\ Ends(q) \subseteq 1..Len(q)
        /\ n \in Nat /\ Counts(g, n, Ends(q))
        /\ MessagesIn(q) \in Seq(Senders) /\ Len(MessagesIn(q)) = n
        /\ \A i \in 1..n : g[i] \in Ends(q) /\ MessagesIn(q)[i] = q[g[i]].of
    BY MessagesFacts
  <2>2. \A j \in Ends(q) : \E i \in 1..n : g[i] = j
    <3>1. /\ Ends(q) \in SUBSET Nat /\ IsFiniteSet(Ends(q))
          /\ Counts(g, Cardinality(Ends(q)), Ends(q))
      BY <2>1
    <3> HIDE DEF g
    <3> QED BY <3>1, CountsAll
  <2> QED BY <2>1, <2>2
<1>4. k > Len(q) /\ k \in Nat
  BY <1>1
<1> HIDE DEF c
<1>5. Ends(c) = Ends(q) \cup {k}
  <2>1. \A i : i \in Ends(q) <=> i \in 1..Len(q) /\ q[i].part = 2
    BY DEF Ends
  <2>2. \A i : i \in Ends(c) <=> i \in 1..Len(c) /\ c[i].part = 2
    BY <1>1 DEF Ends
  <2>3. ASSUME NEW i \in Ends(c) PROVE i \in Ends(q) \/ i = k
    <3>1. i \in 1..Len(c) /\ c[i].part = 2
      BY <2>2
    <3>2. CASE i <= Len(q)
      <4>1. i \in 1..Len(q)
        BY <1>1, <3>1, <3>2
      <4> QED BY <1>1, <2>1, <3>1, <4>1
    <3>3. CASE i - Len(q) \in 1..Len(w) /\ c[i] = w[i - Len(q)]
      <4>1. i - Len(q) = p
        BY <3>1, <3>3
      <4> QED BY <1>1, <3>1, <4>1
    <3> QED BY <1>1, <3>1, <3>2, <3>3
  <2>4. ASSUME NEW i \in Ends(q) PROVE i \in Ends(c)
    <3>1. i \in 1..Len(q) /\ q[i].part = 2
      BY <2>1
    <3>2. i \in 1..Len(c) /\ c[i] = q[i]
      BY <1>1, <3>1
    <3> QED BY <2>2, <3>1, <3>2
  <2>5. k \in Ends(c)
    BY <1>2, <2>2
  <2> QED BY <2>3, <2>4, <2>5
<1> HIDE DEF n, g, k
<1>6. /\ \A i \in 1..n : f[i] = g[i] /\ i \in 1..(n + 1)
      /\ f[n + 1] = k /\ n + 1 \in 1..(n + 1)
      /\ \A i \in 1..(n + 1) : i = n + 1 \/ i \in 1..n
      /\ f \in [1..(n + 1) -> Ends(c)]
  <2>1. \A i \in 1..(n + 1) : i = n + 1 \/ i \in 1..n
    BY <1>3
  <2>2. \A i \in 1..n : f[i] = g[i] /\ i \in 1..(n + 1)
    BY <1>3
  <2>3. f[n + 1] = k /\ n + 1 \in 1..(n + 1)
    BY <1>3
  <2>4. f \in [1..(n + 1) -> Ends(c)]
    BY <1>3, <1>5, <2>1
  <2> QED BY <2>1, <2>2, <2>3, <2>4
<1> HIDE DEF f
<1>7. ASSUME NEW i \in 1..(n + 1), NEW j \in 1..(n + 1), i < j PROVE f[i] < f[j]
  <2>1. i \in 1..n
    BY <1>3, <1>7
  <2>2. CASE j = n + 1
    <3>1. f[i] = g[i] /\ g[i] \in 1..Len(q)
      BY <1>3, <1>6, <2>1
    <3>2. g[i] <= Len(q) /\ g[i] \in Nat
      BY <1>1, <3>1
    <3> QED BY <1>1, <1>4, <1>6, <2>2, <3>1, <3>2
  <2>3. CASE j \in 1..n
    BY <1>3, <1>6, <1>7, <2>1, <2>3 DEF Counts, Ascending
  <2> QED BY <1>6, <2>2, <2>3
<1>8. Counts(f, n + 1, Ends(c))
  BY <1>6, <1>7 DEF Counts, Ascending
<1>9. \A j \in Ends(c) : \E i \in 1..(n + 1) : f[i] = j
  BY <1>3, <1>5, <1>6
<1>10. Len(MessagesIn(c)) = n + 1 /\ \A i \in 1..(n + 1) : MessagesIn(c)[i] = c[f[i]].of
  BY <1>1, <1>3, <1>8, <1>9, MessagesAre
<1>11. w[p].of \in Senders
  BY ElementsOf, PieceFacts
<1>12. MessagesIn(c) \in Seq(Senders)
  BY <1>1, MessagesFacts
<1>13. /\ Append(MessagesIn(q), w[p].of) \in Seq(Senders)
       /\ Len(Append(MessagesIn(q), w[p].of)) = n + 1
       /\ \A i \in 1..n : Append(MessagesIn(q), w[p].of)[i] = MessagesIn(q)[i]
       /\ Append(MessagesIn(q), w[p].of)[n + 1] = w[p].of
  BY <1>3, <1>11
<1>14. \A i \in 1..(n + 1) : MessagesIn(c)[i] = Append(MessagesIn(q), w[p].of)[i]
  <2>1. ASSUME NEW i \in 1..n PROVE MessagesIn(c)[i] = MessagesIn(q)[i]
    <3>1. f[i] = g[i] /\ g[i] \in 1..Len(q) /\ i \in 1..(n + 1)
      BY <1>3, <1>6
    <3>2. c[g[i]] = q[g[i]]
      BY <1>1, <3>1
    <3> QED BY <1>3, <1>10, <3>1, <3>2
  <2>2. MessagesIn(c)[n + 1] = w[p].of
    BY <1>2, <1>6, <1>10
  <2> QED BY <1>6, <1>13, <2>1, <2>2
<1>15. MessagesIn(c) = Append(MessagesIn(q), w[p].of)
  BY <1>10, <1>12, <1>13, <1>14, Same
<1> QED BY <1>15 DEF c

LEMMA OneLess ==
    ASSUME NEW l \in Seq(Pieces), NEW r \in Seq(Pieces), NEW p \in 1..Len(l),
           \A i \in 1..Len(l) : l[i].part = 2 <=> i = p
    PROVE  /\ MessagesIn(l \o r) # <<>> /\ Head(MessagesIn(l \o r)) = l[p].of
           /\ Tail(MessagesIn(l \o r)) = MessagesIn(r)
<1> DEFINE c == l \o r
           n == Cardinality(Ends(r))
           g == Sorted(Ends(r))
           k == Len(l)
           f == [i \in 1..(n + 1) |-> IF i = 1 THEN p ELSE k + g[i - 1]]
<1>1. /\ c \in Seq(Pieces) /\ Len(c) = Len(l) + Len(r) /\ Len(l) \in Nat /\ Len(r) \in Nat
      /\ \A i \in 1..Len(l) : c[i] = l[i] /\ i \in 1..Len(c)
      /\ \A i \in 1..Len(r) : c[Len(l) + i] = r[i] /\ Len(l) + i \in 1..Len(c)
      /\ \A i \in 1..Len(c) : i <= Len(l) \/ (i - Len(l) \in 1..Len(r) /\ c[i] = r[i - Len(l)])
  BY Concat
<1>2. k \in Nat /\ p \in Nat /\ p <= k /\ p \in 1..Len(c) /\ c[p] = l[p] /\ l[p].part = 2
  BY <1>1
<1>3. /\ n \in Nat /\ Counts(g, n, Ends(r)) /\ Ends(r) \subseteq 1..Len(r) /\ Ends(r) \in SUBSET Nat
      /\ \A j \in Ends(r) : \E i \in 1..n : g[i] = j
      /\ MessagesIn(r) \in Seq(Senders) /\ Len(MessagesIn(r)) = n
      /\ \A i \in 1..n : g[i] \in Ends(r) /\ MessagesIn(r)[i] = r[g[i]].of
  <2>1. /\ Ends(r) \in SUBSET Nat /\ IsFiniteSet(Ends(r)) /\ Ends(r) \subseteq 1..Len(r)
        /\ n \in Nat /\ Counts(g, n, Ends(r))
        /\ MessagesIn(r) \in Seq(Senders) /\ Len(MessagesIn(r)) = n
        /\ \A i \in 1..n : g[i] \in Ends(r) /\ MessagesIn(r)[i] = r[g[i]].of
    BY MessagesFacts
  <2>2. \A j \in Ends(r) : \E i \in 1..n : g[i] = j
    <3>1. /\ Ends(r) \in SUBSET Nat /\ IsFiniteSet(Ends(r))
          /\ Counts(g, Cardinality(Ends(r)), Ends(r))
      BY <2>1
    <3> HIDE DEF g
    <3> QED BY <3>1, CountsAll
  <2> QED BY <2>1, <2>2
<1> HIDE DEF c
<1>4. Ends(c) = {p} \cup {k + i : i \in Ends(r)}
  <2>1. \A i : i \in Ends(r) <=> i \in 1..Len(r) /\ r[i].part = 2
    BY DEF Ends
  <2>2. \A i : i \in Ends(c) <=> i \in 1..Len(c) /\ c[i].part = 2
    BY <1>1 DEF Ends
  <2>3. ASSUME NEW i \in Ends(c) PROVE i = p \/ \E j \in Ends(r) : i = k + j
    <3>1. i \in 1..Len(c) /\ c[i].part = 2
      BY <2>2
    <3>2. CASE i <= Len(l)
      <4>1. i \in 1..Len(l)
        BY <1>1, <3>1, <3>2
      <4> QED BY <1>1, <3>1, <4>1
    <3>3. CASE i - Len(l) \in 1..Len(r) /\ c[i] = r[i - Len(l)]
      <4>1. i - Len(l) \in Ends(r)
        BY <2>1, <3>1, <3>3
      <4>2. i = k + (i - Len(l))
        BY <1>1, <3>1
      <4> QED BY <4>1, <4>2
    <3> QED BY <1>1, <3>1, <3>2, <3>3
  <2>4. ASSUME NEW i \in Ends(r) PROVE k + i \in Ends(c)
    <3>1. i \in 1..Len(r) /\ r[i].part = 2
      BY <2>1
    <3>2. k + i \in 1..Len(c) /\ c[k + i] = r[i]
      BY <1>1, <3>1
    <3> QED BY <2>2, <3>1, <3>2
  <2>5. p \in Ends(c)
    BY <1>2, <2>2
  <2> QED BY <2>3, <2>4, <2>5
<1> HIDE DEF n, g, k
<1>5. /\ \A i \in 1..n : f[i + 1] = k + g[i] /\ i + 1 \in 1..(n + 1)
      /\ f[1] = p /\ 1 \in 1..(n + 1)
      /\ \A i \in 1..(n + 1) : i = 1 \/ (i - 1 \in 1..n /\ f[i] = k + g[i - 1])
      /\ f \in [1..(n + 1) -> Ends(c)]
  <2>1. \A i \in 1..(n + 1) : i = 1 \/ (i - 1 \in 1..n /\ f[i] = k + g[i - 1])
    BY <1>3
  <2>2. \A i \in 1..n : f[i + 1] = k + g[i] /\ i + 1 \in 1..(n + 1)
    <3> SUFFICES ASSUME NEW i \in 1..n PROVE f[i + 1] = k + g[i] /\ i + 1 \in 1..(n + 1)
      OBVIOUS
    <3>1. i + 1 \in 1..(n + 1) /\ i + 1 # 1 /\ (i + 1) - 1 = i
      BY <1>3
    <3> QED BY <3>1
  <2>3. f[1] = p /\ 1 \in 1..(n + 1)
    BY <1>3
  <2>4. f \in [1..(n + 1) -> Ends(c)]
    BY <1>3, <1>4, <2>1
  <2> QED BY <2>1, <2>2, <2>3, <2>4
<1> HIDE DEF f
<1>6. ASSUME NEW i \in 1..(n + 1), NEW j \in 1..(n + 1), i < j PROVE f[i] < f[j]
  <2>1. j - 1 \in 1..n /\ f[j] = k + g[j - 1] /\ g[j - 1] \in Nat \ {0}
    <3>1. j # 1
      BY <1>3, <1>6
    <3>2. j - 1 \in 1..n /\ f[j] = k + g[j - 1]
      BY <1>5, <3>1
    <3>3. g[j - 1] \in 1..Len(r)
      BY <1>3, <3>2
    <3> QED BY <1>1, <3>2, <3>3
  <2>2. CASE i = 1
    BY <1>2, <1>5, <2>1, <2>2
  <2>3. CASE i # 1
    <3>1. i - 1 \in 1..n /\ f[i] = k + g[i - 1] /\ i - 1 < j - 1
      BY <1>3, <1>5, <1>6, <2>3
    <3>2. g[i - 1] < g[j - 1] /\ g[i - 1] \in Nat
      BY <1>3, <2>1, <3>1 DEF Counts, Ascending
    <3> QED BY <1>2, <2>1, <3>1, <3>2
  <2> QED BY <2>2, <2>3
<1>7. Counts(f, n + 1, Ends(c))
  BY <1>5, <1>6 DEF Counts, Ascending
<1>8. ASSUME NEW j \in Ends(c) PROVE \E i \in 1..(n + 1) : f[i] = j
  <2>1. CASE j = p
    BY <1>5, <2>1
  <2>2. ASSUME NEW e \in Ends(r), j = k + e PROVE \E i \in 1..(n + 1) : f[i] = j
    <3>1. PICK i \in 1..n : g[i] = e
      BY <1>3
    <3>2. i + 1 \in 1..(n + 1) /\ f[i + 1] = j
      BY <1>5, <2>2, <3>1
    <3> QED BY <3>2
  <2> QED BY <1>4, <2>1, <2>2
<1>9. Len(MessagesIn(c)) = n + 1 /\ \A i \in 1..(n + 1) : MessagesIn(c)[i] = c[f[i]].of
  BY <1>1, <1>3, <1>7, <1>8, MessagesAre
<1> DEFINE m == MessagesIn(c)
<1>10. m \in Seq(Senders)
  BY <1>1, MessagesFacts
<1>11. m[1] = l[p].of
  BY <1>2, <1>5, <1>9
<1>12. \A i \in 1..n : m[i + 1] = MessagesIn(r)[i]
  <2> SUFFICES ASSUME NEW i \in 1..n PROVE m[i + 1] = MessagesIn(r)[i]
    OBVIOUS
  <2>1. f[i + 1] = k + g[i] /\ i + 1 \in 1..(n + 1) /\ g[i] \in 1..Len(r)
    BY <1>3, <1>5
  <2>2. c[k + g[i]] = r[g[i]]
    BY <1>1, <2>1 DEF k
  <2> QED BY <1>3, <1>9, <2>1, <2>2
<1>13. Len(m) = n + 1
  BY <1>9
<1> HIDE DEF m
<1>14. m # <<>> /\ Head(m) = l[p].of
  BY <1>3, <1>10, <1>11, <1>13
<1>15. /\ Tail(m) \in Seq(Senders) /\ Len(Tail(m)) = n
       /\ \A i \in 1..n : Tail(m)[i] = m[i + 1]
  BY <1>3, <1>10, <1>13
<1>16. Tail(m) = MessagesIn(r)
  BY <1>3, <1>12, <1>15, Same
<1> QED BY <1>14, <1>16 DEF c, m

(* Losing what stood in front, or behind.                                   *)
LEMMA LoseFront ==
    ASSUME NEW l \in Seq(Pieces), NEW r \in Seq(Pieces)
    PROVE  LoseFrom(MessagesIn(l \o r), MessagesIn(r))
<1> DEFINE c == l \o r
           h == [i \in 1..Len(r) |-> Len(l) + i]
<1>1. /\ c \in Seq(Pieces) /\ Len(l) \in Nat /\ Len(r) \in Nat
      /\ \A i \in 1..Len(r) : c[Len(l) + i] = r[i] /\ Len(l) + i \in 1..Len(c)
  BY Concat
<1> HIDE DEF c
<1>2. /\ h \in [1..Len(r) -> 1..Len(c)]
      /\ \A i, j \in 1..Len(r) : i < j => h[i] < h[j]
      /\ \A i \in 1..Len(r) : r[i] = c[h[i]]
  BY <1>1
<1> HIDE DEF h
<1>3. LoseFrom(MessagesIn(c), MessagesIn(r))
  BY <1>1, <1>2, SomeStay
<1> QED BY <1>3 DEF c

LEMMA LoseBack ==
    ASSUME NEW l \in Seq(Pieces), NEW r \in Seq(Pieces)
    PROVE  LoseFrom(MessagesIn(l \o r), MessagesIn(l))
<1> DEFINE c == l \o r
           h == [i \in 1..Len(l) |-> i]
<1>1. /\ c \in Seq(Pieces) /\ Len(l) \in Nat
      /\ \A i \in 1..Len(l) : c[i] = l[i] /\ i \in 1..Len(c)
  BY Concat
<1> HIDE DEF c
<1>2. /\ h \in [1..Len(l) -> 1..Len(c)]
      /\ \A i, j \in 1..Len(l) : i < j => h[i] < h[j]
      /\ \A i \in 1..Len(l) : l[i] = c[h[i]]
  BY <1>1
<1> HIDE DEF h
<1>3. LoseFrom(MessagesIn(c), MessagesIn(l))
  BY <1>1, <1>2, SomeStay
<1> QED BY <1>3 DEF c

-----------------------------------------------------------------------------
(* No message enters the stream a second time: when the last piece of its   *)
(* JSON is there, or it was received, the sender is past it.                *)
Passed(s) == pc[s] \in {"sent", "failed", "dropped"} \/ (writer = s /\ Len(toWrite) = 1)

OnWire(s) == LastJson(s) \in Range(stream) \cup Range(line)

ChannelInv ==
    /\ LockInv
    /\ \A s \in Senders : OnWire(s) \/ s \in Range(received) => Passed(s)

LEMMA ChannelInvInit == TcpInit => ChannelInv
<1> SUFFICES ASSUME TcpInit PROVE ChannelInv
  OBVIOUS
<1>1. Range(stream) = {} /\ Range(line) = {} /\ Range(received) = {}
  BY DEF TcpInit, Range
<1> QED BY <1>1, LockInit DEF ChannelInv, OnWire

(* What Write(s) writes.                                                    *)
LEMMA Written ==
    ASSUME LockInv, NEW s \in Senders, Write(s)
    PROVE  /\ pc[s] = "writing" /\ writer = s /\ DOMAIN pc = Senders \cup Receivers
           /\ UNCHANGED <<line, received>>
           /\ \/ toWrite' = <<>> /\ pc' = [pc EXCEPT ![s] = "sent"]
              \/ toWrite' # <<>> /\ UNCHANGED <<writer, pc>>
           /\ \E now \in Seq(Pieces) :
                 /\ stream' = stream \o now
                 /\ Len(now) \in Nat /\ Len(toWrite) \in Nat /\ Len(now) <= Len(toWrite)
                 /\ Len(toWrite') = Len(toWrite) - Len(now)
                 /\ \A i \in 1..Len(now) : now[i].of = s /\ now[i].part = 3 - Len(toWrite) + i
<1>1. /\ pc[s] = "writing" /\ writer = s /\ RestOf(toWrite, s) /\ DOMAIN pc = Senders \cup Receivers
      /\ UNCHANGED <<line, received>> /\ toWrite \in Seq(Pieces)
  BY Typed, TcpAssumption DEF Write, receiveVars, LockInv
<1>2. PICK n \in 1..Len(toWrite) :
         /\ stream' = stream \o SubSeq(toWrite, 1, n)
         /\ toWrite' = SubSeq(toWrite, n + 1, Len(toWrite))
  BY DEF Write
<1>3. n \in Nat \ {0} /\ n <= Len(toWrite) /\ Len(toWrite) \in Nat
  BY <1>1
<1> DEFINE now == SubSeq(toWrite, 1, n)
<1>4. now \in Seq(Pieces) /\ Len(now) = n /\ \A i \in 1..n : now[i] = toWrite[i]
  <2>1. /\ now \in Seq(Pieces)
        /\ Len(now) = IF 1 <= n THEN n - 1 + 1 ELSE 0
        /\ \A i \in 1..Len(now) : now[i] = toWrite[1 + i - 1]
    BY <1>1, <1>3, Cut
  <2> HIDE DEF now
  <2>2. Len(now) = n
    BY <1>3, <2>1
  <2> QED BY <1>3, <2>1, <2>2
<1>5. Len(toWrite') = Len(toWrite) - n
  BY <1>1, <1>2, RestOfRest
<1>6. stream' = stream \o now
  BY <1>2
<1> HIDE DEF now
<1>7. \A i \in 1..n : now[i].of = s /\ now[i].part = 3 - Len(toWrite) + i
  <2> SUFFICES ASSUME NEW i \in 1..n PROVE now[i].of = s /\ now[i].part = 3 - Len(toWrite) + i
    OBVIOUS
  <2>1. now[i] = Piece(s, 3 - Len(toWrite) + i)
    <3>1. i \in 1..Len(toWrite)
      BY <1>3
    <3> QED BY <1>1, <1>4, <3>1 DEF RestOf
  <2> QED BY <2>1 DEF Piece
<1>8. \/ toWrite' = <<>> /\ pc' = [pc EXCEPT ![s] = "sent"]
      \/ toWrite' # <<>> /\ UNCHANGED <<writer, pc>>
  BY DEF Write, Goto
<1> QED BY <1>1, <1>3, <1>4, <1>5, <1>6, <1>7, <1>8

(* What a line that is returned adds to what was received.                  *)
LEMMA ReceivedMore ==
    ASSUME NEW l \in Seq(Pieces), NEW q \in Seq(Senders), NEW m \in Range(q \o SetToSeq(Parsed(l)))
    PROVE  m \in Range(q) \/ LastJson(m) \in Range(l)
<1>1. CASE Parsed(l) = {}
  <2>1. SetToSeq(Parsed(l)) = <<>>
    BY <1>1, ParsedSequence
  <2>2. q \o <<>> = q
    OBVIOUS
  <2> QED BY <2>1, <2>2
<1>2. ASSUME NEW n \in Parsed(l) PROVE m \in Range(q) \/ LastJson(m) \in Range(l)
  <2>1. n \in Senders /\ (l = LineOf(n) \/ l = <<Piece(n, 1), Piece(n, 2)>>)
    BY ParsedOne
  <2>2. SetToSeq(Parsed(l)) = <<n>>
    BY ParsedSequence
  <2>3. Range(q \o <<n>>) = Range(q) \cup Range(<<n>>)
    <3>1. <<n>> \in Seq(Senders)
      BY <2>1
    <3>2. \A w \in Seq(Senders) : Range(q \o w) = Range(q) \cup Range(w)
      BY RangeConcat
    <3> QED BY <3>1, <3>2
  <2>4. Range(<<n>>) = {n}
    BY DEF Range
  <2>5. l[2] = LastJson(n) /\ 2 \in 1..Len(l)
    <3>1. CASE l = LineOf(n)
      <4>1. RestOf(l, n) /\ Len(l) = 3
        BY <2>1, <3>1, LineFacts
      <4>2. l[2] = Piece(n, 3 - 3 + 2)
        BY <4>1 DEF RestOf
      <4> QED BY <2>1, <4>1, <4>2, LineFacts
    <3>2. CASE l = <<Piece(n, 1), Piece(n, 2)>>
      <4>1. Len(l) = 2 /\ l[2] = Piece(n, 2)
        BY <3>2
      <4> QED BY <2>1, <4>1, LineFacts
    <3> QED BY <2>1, <3>1, <3>2
  <2>6. LastJson(n) \in Range(l)
    BY <2>5, InRange
  <2> QED BY <2>2, <2>3, <2>4, <2>6
<1> QED BY <1>1, <1>2

LEMMA ChannelInvStep == ChannelInv /\ [TcpNext]_tcpVars => ChannelInv'
<1> SUFFICES ASSUME ChannelInv, [TcpNext]_tcpVars PROVE ChannelInv'
  OBVIOUS
<1>1. /\ LockInv /\ LockInv' /\ DOMAIN pc = Senders \cup Receivers
      /\ line \in Seq(Pieces) /\ stream \in Seq(Pieces) /\ Range(<<>>) = {}
  BY LockStep, Typed DEF ChannelInv, LockInv, Range
<1> DEFINE Entered(m) == OnWire(m) \/ m \in Range(received)
<1>2. \A m \in Senders : Entered(m) => Passed(m)
  BY DEF ChannelInv
<1>3. SUFFICES ASSUME NEW m \in Senders, Entered(m)' PROVE Passed(m)'
  BY <1>1 DEF ChannelInv
<1> HIDE DEF Entered
<1>4. ASSUME NEW s \in Senders, Send(s) \/ SenderStep(s) \/ DropSend(s) PROVE Passed(m)'
  <2>1. CASE Write(s)
    <3>1. /\ pc[s] = "writing" /\ writer = s /\ UNCHANGED <<line, received>>
          /\ \/ toWrite' = <<>> /\ pc' = [pc EXCEPT ![s] = "sent"]
             \/ toWrite' # <<>> /\ UNCHANGED <<writer, pc>>
      BY <1>1, <2>1, Written
    <3>2. PICK now \in Seq(Pieces) :
             /\ stream' = stream \o now
             /\ Len(now) \in Nat /\ Len(toWrite) \in Nat /\ Len(now) <= Len(toWrite)
             /\ Len(toWrite') = Len(toWrite) - Len(now)
             /\ \A i \in 1..Len(now) : now[i].of = s /\ now[i].part = 3 - Len(toWrite) + i
      BY <1>1, <2>1, Written
    <3>3. Range(stream') = Range(stream) \cup Range(now)
      BY <1>1, <3>2, RangeConcat
    <3>4. CASE Entered(m)
      <4>1. Passed(m)
        BY <1>2, <3>4
      <4>2. CASE m = s
        <5>1. Len(toWrite) = 1
          BY <3>1, <4>1, <4>2 DEF Passed
        <5>2. Len(toWrite') = 1 \/ Len(toWrite') = 0
          <6> DEFINE k == Len(now)
          <6>1. k \in Nat /\ k <= 1 /\ Len(toWrite') = 1 - k
            BY <3>2, <5>1
          <6> HIDE DEF k
          <6> QED BY <6>1
        <5>3. toWrite' \in Seq(Pieces)
          BY <1>1 DEF LockInv, TcpTypeOK
        <5>4. toWrite' = <<>> \/ Len(toWrite') = 1
          BY <5>2, <5>3
        <5> QED BY <1>1, <3>1, <4>2, <5>4 DEF Passed
      <4>3. CASE m # s
        BY <1>1, <3>1, <4>1, <4>3 DEF Passed
      <4> QED BY <4>2, <4>3
    <3>5. CASE ~Entered(m)
      <4>1. LastJson(m) \in Range(now)
        BY <1>3, <3>1, <3>3, <3>5 DEF Entered, OnWire
      <4>2. PICK i \in 1..Len(now) : now[i] = LastJson(m)
        BY <4>1, <3>2, InRange
      <4>3. m = s /\ 3 - Len(toWrite) + i = 2
        BY <3>2, <4>2 DEF LastJson
      <4>4. Len(toWrite') = 0 \/ Len(toWrite') = 1
        BY <3>2, <4>3
      <4>5. toWrite' \in Seq(Pieces)
        BY <1>1 DEF LockInv, TcpTypeOK
      <4>6. toWrite' = <<>> \/ Len(toWrite') = 1
        BY <4>4, <4>5
      <4> QED BY <1>1, <3>1, <4>3, <4>6 DEF Passed
    <3> QED BY <3>4, <3>5
  <2>2. ASSUME Send(s) \/ LockWriter(s) \/ WriteFails(s) \/ DropSend(s) PROVE Passed(m)'
    <3>1. UNCHANGED <<stream, line, received>>
      BY <2>2 DEF Send, LockWriter, WriteFails, DropSend, receiveVars
    <3>2. Passed(m)
      BY <1>2, <1>3, <3>1 DEF Entered, OnWire
    <3>3. CASE Send(s)
      BY <1>1, <3>2, <3>3 DEF Send, Goto, sendVars, Passed
    <3>4. CASE LockWriter(s)
      BY <1>1, <3>2, <3>4, TcpAssumption DEF LockWriter, Goto, Passed
    <3>5. CASE WriteFails(s)
      <4>1. writer = s /\ pc' = [pc EXCEPT ![s] = "failed"]
        BY <1>1, <3>5 DEF WriteFails, Goto, LockInv, TcpTypeOK
      <4> QED BY <1>1, <3>2, <4>1 DEF Passed
    <3>6. CASE DropSend(s)
      <4>1. pc' = [pc EXCEPT ![s] = "dropped"] /\ (writer = s \/ UNCHANGED <<writer, toWrite>>)
        BY <1>1, <3>6 DEF DropSend, Goto, LockInv, TcpTypeOK
      <4> QED BY <1>1, <3>2, <4>1 DEF Passed
    <3> QED BY <2>2, <3>3, <3>4, <3>5, <3>6
  <2> QED BY <1>4, <2>1, <2>2 DEF SenderStep
<1>5. ASSUME NEW r \in Receivers, ReceiverStep(r) \/ DropReceive(r) PROVE Passed(m)'
  <2>1. /\ UNCHANGED <<writer, toWrite>> /\ pc' \in {pc} \cup {[pc EXCEPT ![r] = x] : x \in ReceiverStages}
    BY <1>5 DEF ReceiverStep, Receive, LockReader, ReadSome, ReturnLine, ReturnClosed, ReadFails,
                DropReceive, Goto, sendVars, ReceiverStages
  <2>2. pc'[m] = pc[m]
    BY <1>1, <2>1, TcpAssumption
  <2>3. Entered(m)
    <3>1. CASE ReadSome(r)
      <4>1. /\ line' = Append(line, Head(stream)) /\ stream' = Tail(stream) /\ stream # <<>>
            /\ received' = received
        BY <3>1 DEF ReadSome
      <4> DEFINE a == Append(line, Head(stream))
                 b == Tail(stream)
      <4>2. a \in Seq(Pieces) /\ b \in Seq(Pieces)
        BY <1>1, <4>1
      <4>3. a \o b = line \o stream
        BY <1>1, <4>1, MoveOne
      <4>4. Range(a) \cup Range(b) = Range(line) \cup Range(stream)
        <5> HIDE DEF a, b
        <5>1. Range(a \o b) = Range(a) \cup Range(b)
          BY <4>2, RangeConcat
        <5>2. Range(line \o stream) = Range(line) \cup Range(stream)
          BY <1>1, RangeConcat
        <5> QED BY <4>3, <5>1, <5>2
      <4>5. line' = a /\ stream' = b
        BY <4>1
      <4> HIDE DEF a, b
      <4> QED BY <1>3, <4>1, <4>4, <4>5 DEF Entered, OnWire
    <3>2. CASE ReturnLine(r)
      <4>1. /\ line' = <<>> /\ stream' = stream /\ received' = received \o SetToSeq(Parsed(line))
        BY <3>2 DEF ReturnLine
      <4>2. OnWire(m)' => OnWire(m)
        BY <1>1, <4>1 DEF OnWire
      <4>3. ASSUME m \in Range(received') PROVE Entered(m)
        <5>1. received \in Seq(Senders) /\ m \in Range(received \o SetToSeq(Parsed(line)))
          BY <1>1, <4>1, <4>3, Typed
        <5>2. m \in Range(received) \/ LastJson(m) \in Range(line)
          BY <1>1, <5>1, ReceivedMore
        <5> QED BY <5>2 DEF Entered, OnWire
      <4> QED BY <1>3, <4>2, <4>3 DEF Entered
    <3>3. ASSUME ~ReadSome(r), ~ReturnLine(r) PROVE Entered(m)
      <4>1. stream' = stream /\ line' \in {line, <<>>} /\ received' = received
        BY <1>5, <3>3 DEF ReceiverStep, Receive, LockReader, ReturnClosed, ReadFails,
                          DropReceive, receiveVars
      <4> QED BY <1>1, <1>3, <4>1 DEF Entered, OnWire
    <3> QED BY <3>1, <3>2, <3>3
  <2>4. Passed(m)
    BY <1>2, <2>3
  <2> QED BY <2>1, <2>2, <2>4 DEF Passed
<1>6. CASE ShutDown
  BY <1>1, <1>2, <1>3, <1>6 DEF ShutDown, sendVars, receiveVars, Entered, OnWire, Passed
<1>7. CASE Reset
  <2>1. PICK n \in 0..Len(stream) : stream' = SubSeq(stream, 1, n)
    BY <1>7 DEF Reset
  <2>2. Range(stream') \subseteq Range(stream)
    BY <1>1, <2>1, Prefix
  <2> QED BY <1>1, <1>2, <1>3, <1>7, <2>2 DEF Reset, sendVars, receiveVars, Entered, OnWire, Passed
<1>8. CASE UNCHANGED tcpVars
  BY <1>2, <1>3, <1>8 DEF tcpVars, Entered, OnWire, Passed
<1> QED BY <1>4, <1>5, <1>6, <1>7, <1>8 DEF TcpNext

-----------------------------------------------------------------------------
(* Every step is a step of the channel, or none.                            *)
LEMMA QuietChannel ==
    ASSUME line' \o stream' = line \o stream, received' = received
    PROVE  UNCHANGED Channel!channelVars
BY DEF Channel!channelVars, InTransit

LEMMA LosingChannel ==
    ASSUME LoseFrom(InTransit, InTransit'), received' = received
    PROVE  Channel!Lose
BY DEF LoseFrom, Channel!Lose

LEMMA WriteChannel ==
    ASSUME ChannelInv, NEW s \in Senders, Write(s)
    PROVE  Channel!Transmit(s) \/ UNCHANGED Channel!channelVars
<1>1. LockInv /\ line \in Seq(Pieces) /\ stream \in Seq(Pieces) /\ line \o stream \in Seq(Pieces)
  BY Typed DEF ChannelInv
<1>2. pc[s] = "writing" /\ writer = s /\ line' = line /\ received' = received
  BY <1>1, Written
<1>3. PICK now \in Seq(Pieces) :
         /\ stream' = stream \o now
         /\ Len(now) \in Nat /\ Len(toWrite) \in Nat /\ Len(now) <= Len(toWrite)
         /\ Len(toWrite') = Len(toWrite) - Len(now)
         /\ \A i \in 1..Len(now) : now[i].of = s /\ now[i].part = 3 - Len(toWrite) + i
  BY <1>1, Written
<1>4. line' \o stream' = (line \o stream) \o now
  <2>1. (line \o stream) \o now = line \o (stream \o now)
    BY <1>1, Associative
  <2> QED BY <1>2, <1>3, <2>1
<1> DEFINE p == Len(toWrite) - 1
<1>5. \A i \in 1..Len(now) : now[i].part = 2 <=> i = p
  BY <1>3
<1>6. CASE p \in 1..Len(now)
  <2>1. InTransit' = Append(InTransit, s)
    <3>1. now[p].of = s
      BY <1>3, <1>6
    <3> DEFINE q == line \o stream
    <3>2. q \in Seq(Pieces)
      BY <1>1
    <3> HIDE DEF q, p
    <3>3. MessagesIn(q \o now) = Append(MessagesIn(q), now[p].of)
      BY <1>5, <1>6, <3>2, OneMore
    <3> QED BY <1>4, <3>1, <3>3 DEF q, InTransit
  <2>2. ASSUME NEW i \in DOMAIN InTransit, InTransit[i] = s PROVE FALSE
    <3> DEFINE q == line \o stream
               e == Sorted(Ends(q))[i]
    <3>1. q \in Seq(Pieces) /\ e \in 1..Len(q) /\ q[e].of = s /\ q[e].part = 2
      <4>1. i \in 1..Cardinality(Ends(q)) /\ e \in Ends(q) /\ q[e].of = s
        BY <1>1, <2>2, MessagesFacts DEF InTransit
      <4>2. \A k : k \in Ends(q) <=> k \in 1..Len(q) /\ q[k].part = 2
        BY <1>1 DEF Ends
      <4> HIDE DEF e
      <4> QED BY <1>1, <4>1, <4>2
    <3>2. q[e] = LastJson(s)
      <4>1. q[e] \in Pieces
        BY <3>1, ElementsOf
      <4> HIDE DEF q, e
      <4>2. q[e] = Piece(s, 2)
        BY <3>1, <4>1, PieceFacts
      <4> QED BY <4>2, LineFacts
    <3>3. LastJson(s) \in Range(stream) \cup Range(line)
      <4>1. LastJson(s) \in Range(q)
        <5> HIDE DEF q, e
        <5> QED BY <3>1, <3>2, InRange
      <4> QED BY <1>1, <4>1, RangeConcat
    <3>4. Len(toWrite) = 1
      BY <1>2, <3>3 DEF ChannelInv, OnWire, Passed
    <3> QED BY <1>6, <3>4
  <2>3. ASSUME s \in Range(received) PROVE FALSE
    <3>1. Len(toWrite) = 1
      BY <1>2, <2>3 DEF ChannelInv, Passed
    <3> QED BY <1>6, <3>1
  <2>4. \A i \in DOMAIN received : received[i] # s
    BY <2>3 DEF Range
  <2> QED BY <1>2, <2>1, <2>2, <2>4 DEF Channel!Transmit
<1>7. CASE p \notin 1..Len(now)
  <2>1. InTransit' = InTransit
    <3> DEFINE q == line \o stream
    <3>1. q \in Seq(Pieces)
      BY <1>1
    <3>2. \A i \in 1..Len(now) : now[i].part # 2
      BY <1>5, <1>7
    <3> HIDE DEF q, p
    <3>3. MessagesIn(q \o now) = MessagesIn(q)
      BY <3>1, <3>2, NoneMore
    <3> QED BY <1>4, <3>3 DEF q, InTransit
  <2> QED BY <1>2, <2>1 DEF Channel!channelVars
<1> QED BY <1>6, <1>7

LEMMA ReturnLineChannel ==
    ASSUME ChannelInv, NEW r \in Receivers, ReturnLine(r)
    PROVE  Channel!Deliver \/ Channel!Lose
<1>1. line \in Seq(Pieces) /\ stream \in Seq(Pieces) /\ received \in Seq(Senders)
  BY Typed DEF ChannelInv
<1>2. line' = <<>> /\ stream' = stream /\ received' = received \o SetToSeq(Parsed(line))
  BY DEF ReturnLine
<1>3. InTransit' = MessagesIn(stream)
  <2>1. <<>> \o stream = stream
    BY <1>1
  <2> QED BY <1>2, <2>1 DEF InTransit
<1>4. CASE Parsed(line) = {}
  <2>1. SetToSeq(Parsed(line)) = <<>>
    BY <1>4, ParsedSequence
  <2>2. received' = received
    BY <1>1, <1>2, <2>1
  <2>3. LoseFrom(InTransit, InTransit')
    BY <1>1, <1>3, LoseFront DEF InTransit
  <2> QED BY <2>2, <2>3, LosingChannel
<1>5. ASSUME NEW m \in Parsed(line) PROVE Channel!Deliver
  <2>1. m \in Senders /\ (line = LineOf(m) \/ line = <<Piece(m, 1), Piece(m, 2)>>)
    BY ParsedOne
  <2>2. 2 \in 1..Len(line) /\ line[2].of = m /\ \A i \in 1..Len(line) : line[i].part = 2 <=> i = 2
    <3>1. CASE line = LineOf(m)
      <4>1. Len(line) = 3 /\ \A i \in 1..3 : line[i] = Piece(m, i)
        BY <2>1, <3>1, LineFacts DEF RestOf
      <4> QED BY <4>1 DEF Piece
    <3>2. CASE line = <<Piece(m, 1), Piece(m, 2)>>
      <4>1. Len(line) = 2 /\ line[1] = Piece(m, 1) /\ line[2] = Piece(m, 2)
        BY <3>2
      <4> QED BY <4>1 DEF Piece
    <3> QED BY <2>1, <3>1, <3>2
  <2>3. /\ InTransit # <<>> /\ Head(InTransit) = m /\ Tail(InTransit) = InTransit'
    BY <1>1, <1>3, <2>2, OneLess DEF InTransit
  <2>4. received' = Append(received, m)
    <3>1. SetToSeq(Parsed(line)) = <<m>>
      BY ParsedSequence
    <3>2. received \o <<m>> = Append(received, m)
      BY <1>1, <2>1
    <3> QED BY <1>2, <3>1, <3>2
  <2> QED BY <2>3, <2>4 DEF Channel!Deliver
<1> QED BY <1>4, <1>5

LEMMA ChannelStep == ChannelInv /\ [TcpNext]_tcpVars => [Channel!ChannelNext]_Channel!channelVars
<1> SUFFICES ASSUME ChannelInv, [TcpNext]_tcpVars PROVE [Channel!ChannelNext]_Channel!channelVars
  OBVIOUS
<1> DEFINE Quiet == UNCHANGED Channel!channelVars
<1>1. LockInv /\ line \in Seq(Pieces) /\ stream \in Seq(Pieces)
  BY Typed DEF ChannelInv
<1>2. ASSUME UNCHANGED <<stream, line, received>> PROVE Quiet
  BY <1>2, QuietChannel
<1>3. ASSUME line' = <<>>, UNCHANGED <<stream, received>> PROVE Channel!Lose
  <2>1. InTransit' = MessagesIn(stream)
    <3>1. <<>> \o stream = stream
      BY <1>1
    <3> QED BY <1>3, <3>1 DEF InTransit
  <2>2. LoseFrom(InTransit, InTransit')
    BY <1>1, <2>1, LoseFront DEF InTransit
  <2> QED BY <1>3, <2>2, LosingChannel
<1> SUFFICES Quiet \/ Channel!ChannelNext
  OBVIOUS
<1> HIDE DEF Quiet
<1>4. ASSUME NEW s \in Senders, Send(s) \/ SenderStep(s) \/ DropSend(s)
      PROVE  Quiet \/ Channel!ChannelNext
  <2>1. CASE Write(s)
    BY <2>1, WriteChannel DEF Channel!ChannelNext, Quiet
  <2>2. CASE Send(s) \/ LockWriter(s) \/ WriteFails(s) \/ DropSend(s)
    BY <1>2, <2>2 DEF Send, LockWriter, WriteFails, DropSend, receiveVars
  <2> QED BY <1>4, <2>1, <2>2 DEF SenderStep
<1>5. ASSUME NEW r \in Receivers, ReceiverStep(r) \/ DropReceive(r)
      PROVE  Quiet \/ Channel!ChannelNext
  <2>1. CASE ReadSome(r)
    <3>1. line' \o stream' = line \o stream /\ received' = received
      BY <1>1, <2>1, MoveOne DEF ReadSome
    <3> QED BY <3>1, QuietChannel DEF Quiet
  <2>2. CASE ReturnLine(r)
    BY <2>2, ReturnLineChannel DEF Channel!ChannelNext
  <2>3. CASE Receive(r) \/ LockReader(r) \/ ReturnClosed(r)
    <3>1. UNCHANGED <<stream, line, received>>
      BY <1>1, <2>3 DEF Receive, LockReader, ReturnClosed, receiveVars, LockInv
    <3> QED BY <1>2, <3>1
  <2>4. CASE ReadFails(r)
    BY <1>3, <2>4 DEF ReadFails, Channel!ChannelNext
  <2>5. CASE DropReceive(r)
    <3>1. UNCHANGED <<stream, received>> /\ (line' = <<>> \/ line' = line)
      BY <2>5 DEF DropReceive
    <3> QED BY <1>2, <1>3, <3>1 DEF Channel!ChannelNext
  <2> QED BY <1>5, <2>1, <2>2, <2>3, <2>4, <2>5 DEF ReceiverStep
<1>6. CASE ShutDown
  BY <1>2, <1>6 DEF ShutDown, receiveVars
<1>7. CASE Reset
  <2>1. line' = line /\ received' = received
    BY <1>7 DEF Reset, receiveVars
  <2>2. PICK n \in 0..Len(stream) : stream' = SubSeq(stream, 1, n)
    BY <1>7 DEF Reset
  <2>3. LoseFrom(InTransit, InTransit')
    <3> DEFINE kept == line \o SubSeq(stream, 1, n)
               gone == SubSeq(stream, n + 1, Len(stream))
    <3>1. n \in Nat /\ n <= Len(stream) /\ Len(stream) \in Nat
      BY <1>1
    <3>2. kept \o gone = line \o stream
      BY <1>1, <3>1, CutInTwo
    <3>3. SubSeq(stream, 1, n) \in Seq(Pieces) /\ gone \in Seq(Pieces)
      BY <1>1, <3>1, Cut
    <3>4. kept \in Seq(Pieces)
      BY <1>1, <3>3
    <3> HIDE DEF kept, gone
    <3>5. LoseFrom(MessagesIn(line \o stream), MessagesIn(kept))
      BY <3>2, <3>3, <3>4, LoseBack
    <3> QED BY <2>1, <2>2, <3>5 DEF InTransit, kept
  <2>4. Channel!Lose
    BY <2>1, <2>3, LosingChannel
  <2> QED BY <2>4 DEF Channel!ChannelNext
<1>8. CASE UNCHANGED tcpVars
  BY <1>2, <1>8 DEF tcpVars
<1> QED BY <1>4, <1>5, <1>6, <1>7, <1>8 DEF TcpNext

LEMMA ChannelStarts == TcpInit => Channel!ChannelInit
<1> SUFFICES ASSUME TcpInit PROVE Channel!ChannelInit
  OBVIOUS
<1>1. line \o stream = <<>> /\ <<>> \in Seq(Pieces) /\ received = <<>>
  BY DEF TcpInit
<1>2. Ends(<<>>) = {}
  BY DEF Ends
<1>3. Cardinality(Ends(<<>>)) = 0
  BY <1>2, FS_EmptySet
<1>4. MessagesIn(<<>>) \in Seq(Senders) /\ Len(MessagesIn(<<>>)) = 0
  BY <1>1, <1>3, MessagesFacts
<1>5. InTransit = <<>>
  BY <1>1, <1>4 DEF InTransit
<1> QED BY <1>1, <1>5 DEF Channel!ChannelInit

(* TcpTransport is a channel that keeps the order of the messages and       *)
(* delivers none twice: ImplementsChannel of McpTcp, the refinement of      *)
(* MessageChannel by send and receive.                                      *)
THEOREM TransportIsChannel == TcpSpec => ImplementsChannel
BY ChannelInvInit, ChannelInvStep, ChannelStarts, ChannelStep, PTL
   DEF TcpSpec, ImplementsChannel, Channel!ChannelSpec

(* What the channel promises: nothing is delivered twice.                   *)
OnceInv ==
    /\ \A i, j \in DOMAIN InTransit : InTransit[i] = InTransit[j] => i = j
    /\ \A i, j \in DOMAIN received : received[i] = received[j] => i = j
    /\ \A i \in DOMAIN InTransit, j \in DOMAIN received : InTransit[i] # received[j]

LEMMA OnceStep ==
    ASSUME LockInv, OnceInv, [Channel!ChannelNext]_Channel!channelVars
    PROVE  OnceInv'
<1> DEFINE t == InTransit
           d == received
<1>1. t \in Seq(Senders) /\ d \in Seq(Senders)
  <2>1. line \o stream \in Seq(Pieces) /\ received \in Seq(Senders)
    BY Typed
  <2> QED BY <2>1, MessagesFacts DEF InTransit
<1>2. /\ \A i, j \in DOMAIN t : t[i] = t[j] => i = j
      /\ \A i, j \in DOMAIN d : d[i] = d[j] => i = j
      /\ \A i \in DOMAIN t, j \in DOMAIN d : t[i] # d[j]
  BY DEF OnceInv
<1>3. SUFFICES /\ \A i, j \in DOMAIN t' : t'[i] = t'[j] => i = j
               /\ \A i, j \in DOMAIN d' : d'[i] = d'[j] => i = j
               /\ \A i \in DOMAIN t', j \in DOMAIN d' : t'[i] # d'[j]
  BY DEF OnceInv
<1>4. ASSUME NEW m \in Senders, Channel!Transmit(m) PROVE <1>3!1
  <2>1. t' = Append(t, m) /\ d' = d /\ (\A i \in DOMAIN t : t[i] # m) /\ \A i \in DOMAIN d : d[i] # m
    BY <1>4 DEF Channel!Transmit
  <2> HIDE DEF t, d
  <2> QED BY <1>1, <1>2, <2>1
<1>5. CASE Channel!Deliver
  <2>1. t # <<>> /\ t' = Tail(t) /\ d' = Append(d, Head(t))
    BY <1>5 DEF Channel!Deliver
  <2> HIDE DEF t, d
  <2>2. /\ \A i \in DOMAIN t' : i + 1 \in DOMAIN t /\ t'[i] = t[i + 1] /\ i + 1 # 1
        /\ Head(t) = t[1] /\ 1 \in DOMAIN t
    BY <1>1, <2>1
  <2>3. \A i, j \in DOMAIN t' : t'[i] = t'[j] => i = j
    <3> SUFFICES ASSUME NEW i \in DOMAIN t', NEW j \in DOMAIN t', t'[i] = t'[j] PROVE i = j
      OBVIOUS
    <3>1. i + 1 = j + 1
      BY <1>2, <2>2
    <3> QED BY <1>1, <2>1, <3>1
  <2>4. \A i, j \in DOMAIN d' : d'[i] = d'[j] => i = j
    BY <1>1, <1>2, <2>1, <2>2
  <2>5. \A i \in DOMAIN t', j \in DOMAIN d' : t'[i] # d'[j]
    BY <1>1, <1>2, <2>1, <2>2
  <2> QED BY <2>3, <2>4, <2>5
<1>6. CASE Channel!Lose
  <2>1. PICK n : \E kept \in [1..n -> DOMAIN t] :
           /\ \A i, j \in 1..n : i < j => kept[i] < kept[j]
           /\ t' = [i \in 1..n |-> t[kept[i]]]
    BY <1>6 DEF Channel!Lose
  <2>2. PICK kept \in [1..n -> DOMAIN t] :
           /\ \A i, j \in 1..n : i < j => kept[i] < kept[j]
           /\ t' = [i \in 1..n |-> t[kept[i]]]
    BY <2>1
  <2>3. d' = d
    BY <1>6 DEF Channel!Lose
  <2> HIDE DEF t, d
  <2>4. ASSUME NEW i \in 1..n, NEW j \in 1..n, kept[i] = kept[j] PROVE i = j
    <3>1. kept[i] \in Nat /\ kept[j] \in Nat
      BY <1>1
    <3>2. ~(i < j) /\ ~(j < i)
      BY <2>2, <2>4, <3>1
    <3> QED BY <3>2
  <2> QED BY <1>2, <2>2, <2>3, <2>4
<1>7. CASE UNCHANGED Channel!channelVars
  BY <1>2, <1>7 DEF Channel!channelVars
<1> QED BY <1>4, <1>5, <1>6, <1>7 DEF Channel!ChannelNext

(* No message is received twice, whatever futures are dropped: it follows   *)
(* from the channel that the transport implements.                          *)
THEOREM ReceivedOnce ==
    TcpSpec => [](\A i, j \in DOMAIN received : received[i] = received[j] => i = j)
<1>1. Channel!ChannelInit => OnceInv
  BY DEF Channel!ChannelInit, OnceInv
<1>2. LockInv /\ OnceInv /\ [Channel!ChannelNext]_Channel!channelVars => OnceInv'
  BY OnceStep
<1>3. OnceInv => \A i, j \in DOMAIN received : received[i] = received[j] => i = j
  BY DEF OnceInv
<1>4. TcpSpec => []LockInv
  BY LockInit, LockStep, PTL DEF TcpSpec
<1> QED BY <1>1, <1>2, <1>3, <1>4, TransportIsChannel, PTL
           DEF ImplementsChannel, Channel!ChannelSpec

=============================================================================
