--------------------------- MODULE SsePathsProofs ---------------------------
(***************************************************************************)
(* What holds of a streamed answer for every sequence of lines, every way  *)
(* of cutting it into chunks, every capacity of the channel and any number *)
(* of calls on a response.                                                 *)
(***************************************************************************)
EXTENDS SsePaths, SequenceTheorems, FiniteSetTheorems, TLAPS

-----------------------------------------------------------------------------
(* Sequences of items whose pieces ascend, and what one more item does.     *)
LEMMA AppendElements ==
    ASSUME NEW S, NEW s \in Seq(S), NEW e \in S
    PROVE  /\ Append(s, e) \in Seq(S)
           /\ DOMAIN Append(s, e) = 1..(Len(s) + 1) /\ DOMAIN s = 1..Len(s)
           /\ \A i \in 1..(Len(s) + 1) :
                 Append(s, e)[i] = IF i <= Len(s) THEN s[i] ELSE e
           /\ Len(s) \in Nat /\ Len(Append(s, e)) = Len(s) + 1
OBVIOUS

LEMMA AscendingAppend ==
    ASSUME NEW S, NEW s \in Seq(S), NEW e \in S, Ascending(s),
           \A i \in 1..Len(s) : \A p \in s[i].pieces, q \in e.pieces : p < q
    PROVE  Ascending(Append(s, e))
BY AppendElements DEF Ascending

(* What the client takes from the front of the channel stays where it was.  *)
LEMMA ReceivedInPlace ==
    ASSUME NEW S, NEW s \in Seq(S), NEW t \in Seq(S), t # <<>>
    PROVE  /\ Append(s, Head(t)) \in Seq(S) /\ Tail(t) \in Seq(S)
           /\ Append(s, Head(t)) \o Tail(t) = s \o t
           /\ Len(Tail(t)) = Len(t) - 1
<1>1. Head(t) \in S /\ Tail(t) \in Seq(S) /\ t = <<Head(t)>> \o Tail(t) /\ Len(Tail(t)) = Len(t) - 1
  OBVIOUS
<1>2. Append(s, Head(t)) = s \o <<Head(t)>>
  BY <1>1, AppendIsConcat
<1>3. <<Head(t)>> \in Seq(S)
  BY <1>1
<1>4. (s \o <<Head(t)>>) \o Tail(t) = s \o (<<Head(t)>> \o Tail(t))
  BY <1>1, <1>3, ConcatAssociative
<1> QED BY <1>1, <1>2, <1>4, AppendProperties

LEMMA SentAppended ==
    ASSUME NEW S, NEW s \in Seq(S), NEW t \in Seq(S), NEW e \in S
    PROVE  s \o Append(t, e) = Append(s \o t, e) /\ s \o t \in Seq(S)
<1>1. Append(t, e) = t \o <<e>> /\ <<e>> \in Seq(S) /\ s \o t \in Seq(S)
  BY AppendIsConcat, ConcatProperties
<1>2. s \o (t \o <<e>>) = (s \o t) \o <<e>>
  BY <1>1, ConcatAssociative
<1> QED BY <1>1, <1>2, AppendIsConcat

-----------------------------------------------------------------------------
(* Chunks.  The data lines of an aligned chunk that reaches as far as the   *)
(* end of line i are line i alone, and it is whole.                         *)
LEMMA SizeType == Len(Lines) \in Nat /\ Size \in Nat /\ DOMAIN Lines = 1..Len(Lines)
BY LinesAssumption DEF Size

LEMMA MinOfOne == \A i \in Nat : Min({i}) = i
BY DEF Min

LEMMA AlignedChunk ==
    ASSUME NEW from \in Nat, NEW to \in 1..Size, from < to, IsAligned((from + 1)..to),
           NEW i \in DOMAIN Lines, Lines[i] # "other", 3 * i > from, 3 * i <= to
    PROVE  /\ DataLines((from + 1)..to) = {i}
           /\ Min(DataLines((from + 1)..to)) = i
           /\ PiecesOf(i) \subseteq (from + 1)..to
<1> DEFINE chunk == (from + 1)..to
           parts == {k \in DOMAIN Lines : Lines[k] # "other" /\ PiecesOf(k) \cap chunk # {}}
<1>1. Size \in Nat /\ DOMAIN Lines = 1..Len(Lines) /\ Len(Lines) \in Nat /\ i \in Nat
  BY SizeType
<1>2. Cardinality(parts) <= 1 /\ \A k \in parts : IsWhole(k, chunk)
  BY DEF IsAligned
<1>3. i \in parts
  <2>1. 3 * i \in PiecesOf(i) \cap chunk
    BY <1>1 DEF PiecesOf
  <2> QED BY <2>1
<1>4. PiecesOf(i) \subseteq chunk
  BY <1>2, <1>3 DEF IsWhole
<1>5. ASSUME NEW k \in parts PROVE k = i
  <2>1. IsFiniteSet(parts)
    <3>1. parts \in SUBSET (1..Len(Lines)) /\ 1 \in Int /\ Len(Lines) \in Int
      BY <1>1
    <3>2. IsFiniteSet(1..Len(Lines))
      BY <3>1, FS_Interval
    <3> QED BY <3>1, <3>2, FS_Subset
  <2>2. SUFFICES ASSUME k # i PROVE FALSE
    OBVIOUS
  <2>3. {i, k} \in SUBSET parts /\ Cardinality({i, k}) = 2
    <3>1. IsFiniteSet({i}) /\ Cardinality({i}) = 1
      BY FS_Singleton
    <3>2. Cardinality({i} \cup {k}) = Cardinality({i}) + 1
      BY <2>2, <3>1, FS_AddElement
    <3>3. {i} \cup {k} = {i, k}
      OBVIOUS
    <3> QED BY <1>3, <1>5, <3>1, <3>2, <3>3
  <2>4. Cardinality({i, k}) <= Cardinality(parts) /\ Cardinality(parts) \in Nat
    BY <2>1, <2>3, FS_Subset, FS_CardinalityType
  <2> QED BY <1>2, <2>3, <2>4
<1>6. DataLines(chunk) \subseteq parts
  <2> SUFFICES ASSUME NEW k \in DataLines(chunk) PROVE k \in parts
    OBVIOUS
  <2>1. k \in 1..Len(Lines) /\ Lines[k] # "other" /\ 3 * k - 1 \in chunk
    BY <1>1 DEF DataLines, HasPrefix
  <2>2. 3 * k - 1 \in PiecesOf(k)
    BY <2>1 DEF PiecesOf
  <2> QED BY <2>1, <2>2, <1>1
<1>7. i \in DataLines(chunk)
  <2>1. {3 * i - 2, 3 * i - 1} \subseteq PiecesOf(i)
    BY <1>1 DEF PiecesOf
  <2> QED BY <1>4, <2>1 DEF DataLines, HasPrefix
<1>8. DataLines(chunk) = {i}
  BY <1>5, <1>6, <1>7
<1> QED BY <1>1, <1>4, <1>8, MinOfOne

-----------------------------------------------------------------------------
(* The relay.  Sent is what has left the task: the client's buffer and then *)
(* the channel.                                                             *)
Sent == got \o channel

(* The client's buffer, the channel and the task's item, in this order,     *)
(* hold pieces that were read and that ascend.                              *)
SentInOrder ==
    /\ Ascending(Sent)
    /\ \A i \in 1..Len(Sent) : Sent[i].pieces \subseteq 1..pos
    /\ pc = "sending" =>
          /\ item.pieces \subseteq 1..pos
          /\ \A i \in 1..Len(Sent) : \A p \in Sent[i].pieces, q \in item.pieces : p < q

(* [DONE] is sent last, once the task is through with the upstream, and not *)
(* at all to a client that has left.                                        *)
DoneIsLast ==
    /\ pc = "sending" => item.type # "done"
    /\ pc = "closing" => item = Done
    /\ pc # "finished" => \A i \in 1..Len(Sent) : Sent[i].type # "done"
    /\ \A i \in 1..Len(Sent) : Sent[i].type = "done" => i = Len(Sent)
    /\ pc = "finished" /\ client # "gone" => Sent # <<>> /\ Sent[Len(Sent)].type = "done"
    /\ client = "ended" => pc = "finished" /\ channel = <<>>

(* A line is on the way: in an item that was sent or that the task holds.   *)
Relayed(i) ==
    \/ \E j \in 1..Len(Sent) : PiecesOf(i) \subseteq Sent[j].pieces
    \/ pc = "sending" /\ PiecesOf(i) \subseteq item.pieces

AlignedRelayed ==
    aligned /\ client # "gone" =>
        \A i \in DOMAIN Lines : Lines[i] # "other" /\ 3 * i <= pos => Relayed(i)

RelayInv == RelayTypeOK /\ SentInOrder /\ DoneIsLast /\ AlignedRelayed

LEMMA RelayInitOK == RelayInit => RelayInv
<1> SUFFICES ASSUME RelayInit PROVE RelayInv
  OBVIOUS
<1>1. Sent = <<>> /\ Len(Sent) = 0
  BY DEF RelayInit, Sent
<1>2. RelayTypeOK
  BY SizeType, RelayAssumption DEF RelayInit, RelayTypeOK, Done, Items
<1>3. \A i \in DOMAIN Lines : ~(3 * i <= pos)
  BY SizeType DEF RelayInit
<1> QED BY <1>1, <1>2, <1>3 DEF RelayInit, RelayInv, SentInOrder, Ascending, DoneIsLast, AlignedRelayed

(* What the task makes of a chunk: pieces of it, and never [DONE] by itself.*)
LEMMA ParsedChunk ==
    ASSUME NEW chunk \in SUBSET (1..Size)
    PROVE  /\ ParseSseChunk(chunk) \in Items
           /\ ParseSseChunk(chunk).type # "done"
           /\ ParseSseChunk(chunk).pieces \subseteq chunk
BY DEF ParseSseChunk, Items, Raw, Event

LEMMA ReadKeeps ==
    ASSUME RelayInv, NEW to \in 1..Size, ReadChunk(to)
    PROVE  RelayInv'
<1> DEFINE chunk == (pos + 1)..to
<1>1. /\ pc = "reading" /\ pc' = "sending" /\ pos < to /\ pos' = to
      /\ item' = ParseSseChunk(chunk) /\ aligned' = (aligned /\ IsAligned(chunk))
      /\ UNCHANGED <<adapter, channel, client, got>>
  BY DEF ReadChunk
<1>2. pos \in Nat /\ to \in Nat /\ Size \in Nat /\ chunk \in SUBSET (1..Size) /\ to <= Size
  BY <1>1, SizeType DEF RelayInv, RelayTypeOK
<1>3. item' \in Items /\ item'.type # "done" /\ item'.pieces \subseteq chunk
  BY <1>1, <1>2, ParsedChunk
<1>4. Sent' = Sent /\ Sent \in Seq(Items)
  BY <1>1, ConcatProperties DEF Sent, RelayInv, RelayTypeOK
<1>5. RelayTypeOK'
  BY <1>1, <1>2, <1>3 DEF RelayInv, RelayTypeOK
<1>6. SentInOrder'
  BY <1>1, <1>2, <1>3, <1>4 DEF RelayInv, SentInOrder
<1>7. DoneIsLast'
  BY <1>1, <1>3, <1>4 DEF RelayInv, DoneIsLast
<1>8. AlignedRelayed'
  <2> SUFFICES ASSUME aligned', client' # "gone",
                      NEW i \in DOMAIN Lines, Lines[i] # "other", 3 * i <= to
               PROVE  Relayed(i)'
    BY <1>1 DEF AlignedRelayed
  <2>1. i \in Nat
    BY SizeType
  <2>2. CASE 3 * i <= pos
    BY <1>1, <1>4, <2>2 DEF RelayInv, AlignedRelayed, Relayed
  <2>3. CASE ~(3 * i <= pos)
    <3> HIDE DEF chunk
    <3>1. IsAligned(chunk)
      BY <1>1
    <3>2. 3 * i > pos
      BY <1>2, <2>1, <2>3
    <3>3. /\ DataLines(chunk) = {i} /\ Min(DataLines(chunk)) = i
          /\ PiecesOf(i) \subseteq chunk
      BY <1>1, <1>2, <3>1, <3>2, AlignedChunk DEF chunk
    <3>4. PiecesOf(i) \subseteq item'.pieces
      BY <1>1, <3>3 DEF ParseSseChunk, Raw, Event
    <3> QED BY <1>1, <3>4 DEF Relayed
  <2> QED BY <2>2, <2>3
<1> QED BY <1>5, <1>6, <1>7, <1>8 DEF RelayInv

LEMMA SendKeeps ==
    ASSUME RelayInv, Send
    PROVE  RelayInv'
<1>1. /\ pc \in {"sending", "closing"} /\ client = "reading" /\ Len(channel) < Capacity
      /\ channel' = Append(channel, item)
      /\ pc' = IF pc = "closing" THEN "finished" ELSE "reading"
      /\ UNCHANGED <<adapter, pos, item, client, got, aligned>>
  BY DEF Send, AfterSend
<1>2. /\ Sent' = Append(Sent, item) /\ Sent \in Seq(Items) /\ item \in Items
      /\ channel' \in Seq(Items) /\ Len(channel') = Len(channel) + 1
      /\ channel \in Seq(Items) /\ Len(channel) \in Nat
  BY <1>1, SentAppended, AppendElements DEF Sent, RelayInv, RelayTypeOK
<1>3. /\ Len(Sent') = Len(Sent) + 1 /\ Len(Sent) \in Nat
      /\ \A i \in 1..(Len(Sent) + 1) : Sent'[i] = IF i <= Len(Sent) THEN Sent[i] ELSE item
  BY <1>2, AppendElements
<1>4. RelayTypeOK'
  BY <1>1, <1>2, RelayAssumption DEF RelayInv, RelayTypeOK
<1>5. SentInOrder'
  <2>1. item.pieces \subseteq 1..pos
    BY <1>1 DEF RelayInv, SentInOrder, DoneIsLast, Done
  <2>2. \A i \in 1..Len(Sent) : \A p \in Sent[i].pieces, q \in item.pieces : p < q
    BY <1>1 DEF RelayInv, SentInOrder, DoneIsLast, Done
  <2>3. Ascending(Sent')
    BY <1>2, <2>2, AscendingAppend DEF RelayInv, SentInOrder
  <2>4. \A i \in 1..Len(Sent') : Sent'[i].pieces \subseteq 1..pos'
    BY <1>1, <1>3, <2>1 DEF RelayInv, SentInOrder
  <2> QED BY <1>1, <2>3, <2>4 DEF SentInOrder
<1>6. DoneIsLast'
  <2>1. pc = "closing" => item.type = "done"
    BY DEF RelayInv, DoneIsLast, Done
  <2>2. pc = "sending" => item.type # "done"
    BY DEF RelayInv, DoneIsLast
  <2>3. Sent' # <<>> /\ Sent'[Len(Sent')] = item
    BY <1>2, <1>3
  <2>4. \A i \in 1..Len(Sent) : Sent[i].type # "done"
    BY <1>1 DEF RelayInv, DoneIsLast
  <2> QED BY <1>1, <1>3, <2>1, <2>2, <2>3, <2>4 DEF DoneIsLast
<1>7. AlignedRelayed'
  <2> SUFFICES ASSUME aligned, NEW i \in DOMAIN Lines, Lines[i] # "other", 3 * i <= pos
               PROVE  \E j \in 1..Len(Sent') : PiecesOf(i) \subseteq Sent'[j].pieces
    BY <1>1 DEF AlignedRelayed, Relayed
  <2>1. Relayed(i)
    BY <1>1 DEF RelayInv, AlignedRelayed
  <2> QED BY <1>3, <2>1 DEF Relayed
<1> QED BY <1>4, <1>5, <1>6, <1>7 DEF RelayInv

LEMMA RelayStep == RelayInv /\ [RelayNext]_relayVars => RelayInv'
<1> SUFFICES ASSUME RelayInv, [RelayNext]_relayVars PROVE RelayInv'
  OBVIOUS
<1>1. RelayTypeOK /\ Sent \in Seq(Items) /\ got \in Seq(Items) /\ channel \in Seq(Items)
  BY ConcatProperties DEF Sent, RelayInv, RelayTypeOK
<1>2. ASSUME NEW to \in 1..Size, ReadChunk(to) PROVE RelayInv'
  BY <1>2, ReadKeeps
<1>3. CASE UpstreamStops
  <2>1. Sent' = Sent
    BY <1>3 DEF UpstreamStops, Sent
  <2>2. RelayTypeOK'
    BY <1>3, <1>1 DEF UpstreamStops, RelayTypeOK, Done, Items
  <2> QED BY <1>3, <2>1, <2>2
          DEF UpstreamStops, RelayInv, SentInOrder, DoneIsLast, AlignedRelayed, Relayed
<1>4. CASE Send
  BY <1>4, SendKeeps
<1>5. CASE SendToNobody
  <2>1. Sent' = Sent
    BY <1>5 DEF SendToNobody, Sent
  <2>2. RelayTypeOK'
    BY <1>5, <1>1 DEF SendToNobody, AfterSend, RelayTypeOK
  <2> QED BY <1>5, <2>1, <2>2
          DEF SendToNobody, AfterSend, RelayInv, SentInOrder, DoneIsLast, AlignedRelayed
<1>6. CASE ClientReceives
  <2>1. /\ Sent' = Sent /\ got' \in Seq(Items) /\ channel' \in Seq(Items)
        /\ Len(channel') = Len(channel) - 1 /\ Len(channel) \in Nat /\ Capacity \in Nat
    BY <1>1, <1>6, ReceivedInPlace, RelayAssumption DEF ClientReceives, Sent
  <2>2. RelayTypeOK'
    BY <1>1, <1>6, <2>1 DEF ClientReceives, RelayTypeOK
  <2> QED BY <1>6, <2>1, <2>2
          DEF ClientReceives, RelayInv, SentInOrder, DoneIsLast, AlignedRelayed, Relayed
<1>7. CASE ClientSeesEnd
  <2>1. Sent' = Sent
    BY <1>7 DEF ClientSeesEnd, Sent
  <2>2. RelayTypeOK'
    BY <1>1, <1>7 DEF ClientSeesEnd, RelayTypeOK
  <2> QED BY <1>7, <2>1, <2>2
          DEF ClientSeesEnd, RelayInv, SentInOrder, DoneIsLast, AlignedRelayed, Relayed
<1>8. CASE ClientLeaves
  <2>1. Sent' = got /\ channel' = <<>> /\ Len(got) \in Nat /\ Len(Sent) = Len(got) + Len(channel)
        /\ DOMAIN got = 1..Len(got) /\ DOMAIN Sent = 1..Len(Sent)
        /\ Len(channel) \in Nat
        /\ \A i \in 1..Len(got) : got[i] = Sent[i]
    BY <1>1, <1>8, ConcatProperties, ConcatEmptySeq DEF ClientLeaves, Sent
  <2>2. RelayTypeOK'
    BY <1>1, <1>8, RelayAssumption DEF ClientLeaves, RelayTypeOK
  <2>3. SentInOrder'
    BY <1>8, <2>1 DEF ClientLeaves, RelayInv, SentInOrder, Ascending
  <2>4. DoneIsLast'
    <3>1. /\ UNCHANGED <<pc, item>> /\ client' = "gone" /\ Len(Sent') = Len(got)
          /\ \A i \in 1..Len(got) : i \in 1..Len(Sent) /\ Sent'[i] = Sent[i]
      BY <1>8, <2>1 DEF ClientLeaves
    <3>2. \A i \in 1..Len(got) : got[i].type = "done" => i = Len(got)
      BY <2>1, <3>1 DEF RelayInv, DoneIsLast
    <3> QED BY <2>1, <3>1, <3>2 DEF RelayInv, DoneIsLast
  <2> QED BY <1>8, <2>2, <2>3, <2>4 DEF ClientLeaves, RelayInv, AlignedRelayed
<1>9. CASE UNCHANGED relayVars
  BY <1>9 DEF relayVars, RelayInv, RelayTypeOK, SentInOrder, DoneIsLast, AlignedRelayed, Relayed, Sent
<1> QED BY <1>2, <1>3, <1>4, <1>5, <1>6, <1>7, <1>8, <1>9 DEF RelayNext, TaskStep, ClientStep

-----------------------------------------------------------------------------
(* The proxy crate's response.  Delivered are the calls that returned its   *)
(* body, or as much of it as there was.                                     *)
Delivered == {i \in DOMAIN outcomes : outcomes[i] \in {"json", "events", "broken"}}

(* The body is with the response, then with one call, then delivered or     *)
(* lost with that call.                                                     *)
BodyMovesOn ==
    /\ call = "forwarding" => response = "none"
    /\ call \in {"json", "collecting"} => response = "taken" /\ Delivered = {}
    /\ response # "taken" => Delivered = {} /\ read = 0
    /\ \A i, j \in Delivered : i = j

(* The events collected so far are in the order of the bytes, and complete  *)
(* as long as the chunks were aligned.                                      *)
EventsSoFar ==
    /\ Ascending(events)
    /\ \A i \in 1..Len(events) : events[i].pieces \subseteq 1..read
    /\ neat /\ call = "collecting" =>
           \A i \in DOMAIN Lines : Lines[i] # "other" /\ 3 * i <= read =>
               /\ Lines[i] = "data"
               /\ \E j \in 1..Len(events) : PiecesOf(i) \subseteq events[j].pieces

ResponseInv == ResponseTypeOK /\ BodyMovesOn /\ EventsSoFar

EventItems == [type : {"event", "raw"}, pieces : SUBSET (1..Size)]

LEMMA ResponseInitOK == ResponseInit => ResponseInv
BY SizeType DEF ResponseInit, ResponseInv, ResponseTypeOK, BodyMovesOn, EventsSoFar, Ascending,
   Delivered

(* A call that returns adds one outcome.                                    *)
LEMMA ReturnAdds ==
    ASSUME ResponseTypeOK, NEW outcome \in Outcomes, Return(outcome)
    PROVE  /\ call' = "idle" /\ outcomes' \in Seq(Outcomes)
           /\ outcome \notin {"json", "events", "broken"} => Delivered' = Delivered
           /\ Delivered = {} => \A i, j \in Delivered' : i = j
<1>1. /\ outcomes' = Append(outcomes, outcome) /\ outcomes \in Seq(Outcomes)
      /\ call' = "idle"
  BY DEF Return, ResponseTypeOK
<1>2. /\ outcomes' \in Seq(Outcomes) /\ Len(outcomes) \in Nat
      /\ DOMAIN outcomes' = 1..(Len(outcomes) + 1) /\ DOMAIN outcomes = 1..Len(outcomes)
      /\ \A i \in 1..(Len(outcomes) + 1) :
            outcomes'[i] = IF i <= Len(outcomes) THEN outcomes[i] ELSE outcome
  BY <1>1, AppendElements
<1>3. \A i \in Delivered' : i \in Delivered \/ (i = Len(outcomes) + 1
                                             /\ outcome \in {"json", "events", "broken"})
  BY <1>2 DEF Delivered
<1>4. Delivered \subseteq Delivered'
  BY <1>2 DEF Delivered
<1> QED BY <1>1, <1>2, <1>3, <1>4

LEMMA NextEventKeeps ==
    ASSUME ResponseInv, NEW to \in 1..Size, NextEvent(to)
    PROVE  ResponseInv'
<1> DEFINE chunk == (read + 1)..to
           first == Min(DataLines(chunk))
           event == IF DataLines(chunk) = {} THEN Raw(chunk) ELSE Event(PiecesOf(first) \cap chunk)
           ends  == DataLines(chunk) # {} /\ IsDoneMarker(first, chunk)
<1>1. /\ call = "collecting" /\ read < to /\ read' = to /\ response' = response
      /\ neat' = (neat /\ IsAligned(chunk))
      /\ IF ends THEN Return("events") /\ UNCHANGED events
                 ELSE events' = Append(events, event) /\ UNCHANGED <<call, outcomes>>
  BY DEF NextEvent
<1>2. /\ read \in Nat /\ to \in Nat /\ Size \in Nat /\ to <= Size
      /\ chunk \in SUBSET (1..Size) /\ events \in Seq(EventItems)
      /\ response = "taken" /\ Delivered = {}
  BY <1>1, SizeType DEF ResponseInv, ResponseTypeOK, EventItems, BodyMovesOn
<1>3. event \in EventItems /\ event.pieces \subseteq chunk
  BY <1>2 DEF EventItems, Raw, Event
<1> HIDE DEF event, ends
<1>4. CASE ends
  <2>1. call' = "idle" /\ outcomes' \in Seq(Outcomes) /\ \A i, j \in Delivered' : i = j
    BY <1>1, <1>2, <1>4, ReturnAdds DEF ResponseInv, Outcomes
  <2>2. ResponseTypeOK'
    BY <1>1, <1>2, <1>4, <2>1 DEF ResponseInv, ResponseTypeOK
  <2>3. BodyMovesOn'
    BY <1>1, <1>2, <2>1 DEF BodyMovesOn
  <2>4. EventsSoFar'
    BY <1>1, <1>2, <1>4, <2>1 DEF ResponseInv, EventsSoFar
  <2> QED BY <2>2, <2>3, <2>4 DEF ResponseInv
<1>5. CASE ~ends
  <2>1. events' = Append(events, event) /\ UNCHANGED <<call, outcomes>>
    BY <1>1, <1>5
  <2>2. /\ events' \in Seq(EventItems) /\ Len(events) \in Nat /\ Len(events') = Len(events) + 1
        /\ \A i \in 1..(Len(events) + 1) :
              events'[i] = IF i <= Len(events) THEN events[i] ELSE event
    BY <1>2, <1>3, <2>1, AppendElements
  <2>3. ResponseTypeOK'
    BY <1>1, <1>2, <2>1, <2>2 DEF ResponseInv, ResponseTypeOK, EventItems
  <2>4. BodyMovesOn'
    BY <1>1, <1>2, <2>1 DEF ResponseInv, BodyMovesOn, Delivered
  <2>5. \A i \in 1..Len(events) : \A p \in events[i].pieces, q \in event.pieces : p < q
    BY <1>1, <1>2, <1>3 DEF ResponseInv, EventsSoFar
  <2>6. Ascending(events')
    BY <1>2, <1>3, <2>1, <2>5, AscendingAppend DEF ResponseInv, EventsSoFar
  <2>7. \A i \in 1..Len(events') : events'[i].pieces \subseteq 1..read'
    BY <1>1, <1>2, <1>3, <2>2 DEF ResponseInv, EventsSoFar
  <2>8. ASSUME neat', NEW i \in DOMAIN Lines, Lines[i] # "other", 3 * i <= to
        PROVE  /\ Lines[i] = "data"
               /\ \E j \in 1..Len(events') : PiecesOf(i) \subseteq events'[j].pieces
    <3>1. i \in Nat
      BY SizeType
    <3>2. neat /\ IsAligned(chunk)
      BY <1>1, <2>8
    <3>3. CASE 3 * i <= read
      BY <1>1, <2>2, <2>8, <3>2, <3>3 DEF ResponseInv, EventsSoFar
    <3>4. CASE ~(3 * i <= read)
      <4>1. 3 * i > read
        BY <1>2, <3>1, <3>4
      <4>2. DataLines(chunk) = {i} /\ first = i /\ PiecesOf(i) \subseteq chunk
        BY <1>1, <1>2, <2>8, <3>2, <4>1, AlignedChunk
      <4>3. event = Event(PiecesOf(i))
        BY <4>2 DEF Event, event
      <4>4. PiecesOf(i) \subseteq event.pieces
        BY <4>3 DEF Event
      <4>5. Lines[i] # "DONE"
        BY <1>5, <4>2 DEF IsDoneMarker, IsWhole, ends
      <4>6. Lines[i] = "data"
        BY <2>8, <4>5, LinesAssumption
      <4>7. Len(events) + 1 \in 1..Len(events') /\ events'[Len(events) + 1] = event
        BY <2>2
      <4> QED BY <4>4, <4>6, <4>7
    <3> QED BY <3>3, <3>4
  <2>9. EventsSoFar'
    BY <1>1, <2>6, <2>7, <2>8 DEF EventsSoFar
  <2> QED BY <2>3, <2>4, <2>9 DEF ResponseInv
<1> QED BY <1>4, <1>5

LEMMA ResponseStep == ResponseInv /\ [ResponseNext]_responseVars => ResponseInv'
<1> SUFFICES ASSUME ResponseInv, [ResponseNext]_responseVars PROVE ResponseInv'
  OBVIOUS
<1>1. ResponseTypeOK /\ BodyMovesOn /\ EventsSoFar /\ Size \in Nat
  BY SizeType DEF ResponseInv
<1> USE DEF ResponseInv
<1>2. CASE ForwardRequest
  BY <1>1, <1>2 DEF ForwardRequest, MayCall, ResponseTypeOK, BodyMovesOn, EventsSoFar, Delivered
<1>3. CASE UpstreamAnswers
  <2>1. PICK outcome \in {"connected", "unreachable"} :
            Return(outcome) /\ response' \in {"there", response}
    BY <1>3 DEF UpstreamAnswers
  <2>2. call' = "idle" /\ outcomes' \in Seq(Outcomes) /\ Delivered' = Delivered
    BY <1>1, <2>1, ReturnAdds DEF Outcomes
  <2> QED BY <1>1, <1>3, <2>1, <2>2
          DEF UpstreamAnswers, ResponseTypeOK, BodyMovesOn, EventsSoFar
<1>4. CASE AsJson
  <2>1. CASE response = "there"
    BY <1>1, <1>4, <2>1
       DEF AsJson, Take, MayCall, ResponseTypeOK, BodyMovesOn, EventsSoFar, Delivered
  <2>2. CASE response # "there"
    <3>1. Return("consumed") /\ response' = response
      BY <1>4, <2>2 DEF AsJson, Take
    <3>2. call' = "idle" /\ outcomes' \in Seq(Outcomes) /\ Delivered' = Delivered
      BY <1>1, <3>1, ReturnAdds DEF Outcomes
    <3> QED BY <1>1, <1>4, <3>1, <3>2 DEF AsJson, ResponseTypeOK, BodyMovesOn, EventsSoFar
  <2> QED BY <2>1, <2>2
<1>5. CASE StreamResponse
  <2>1. events' = <<>> /\ Ascending(events') /\ Len(events') = 0 /\ UNCHANGED <<read, neat>>
    BY <1>5 DEF StreamResponse, Ascending
  <2>2. CASE response = "there"
    <3>1. read = 0 /\ \A i \in DOMAIN Lines : ~(3 * i <= read)
      BY <1>1, <2>2, SizeType DEF BodyMovesOn
    <3> QED BY <1>1, <1>5, <2>1, <2>2, <3>1
            DEF StreamResponse, Take, MayCall, ResponseTypeOK, BodyMovesOn, EventsSoFar, Delivered
  <2>3. CASE response # "there"
    <3>1. Return("no_events") /\ response' = response
      BY <1>5, <2>3 DEF StreamResponse, Take
    <3>2. call' = "idle" /\ outcomes' \in Seq(Outcomes) /\ Delivered' = Delivered
      BY <1>1, <3>1, ReturnAdds DEF Outcomes
    <3> QED BY <1>1, <2>1, <3>1, <3>2 DEF ResponseTypeOK, BodyMovesOn, EventsSoFar
  <2> QED BY <2>2, <2>3
<1>6. ASSUME NEW to \in 1..Size, NextEvent(to) PROVE ResponseInv'
  BY <1>6, NextEventKeeps
<1>7. CASE StreamStops
  <2>1. /\ Return("events") /\ UNCHANGED <<response, read, events, neat>>
        /\ response = "taken" /\ Delivered = {}
    BY <1>1, <1>7 DEF StreamStops, BodyMovesOn
  <2>2. call' = "idle" /\ outcomes' \in Seq(Outcomes) /\ \A i, j \in Delivered' : i = j
    BY <1>1, <2>1, ReturnAdds DEF Outcomes
  <2> QED BY <1>1, <2>1, <2>2 DEF ResponseTypeOK, BodyMovesOn, EventsSoFar
<1>8. CASE JsonReturns
  <2>1. PICK outcome \in {"json", "broken"} : Return(outcome)
    BY <1>8 DEF JsonReturns
  <2>2. /\ read' = Size /\ UNCHANGED <<response, events, neat>>
        /\ response = "taken" /\ Delivered = {}
    BY <1>1, <1>8 DEF JsonReturns, BodyMovesOn
  <2>3. call' = "idle" /\ outcomes' \in Seq(Outcomes) /\ \A i, j \in Delivered' : i = j
    BY <1>1, <2>1, <2>2, ReturnAdds DEF Outcomes
  <2>4. read \in 0..Size
    BY <1>1 DEF ResponseTypeOK
  <2> QED BY <1>1, <2>2, <2>3, <2>4 DEF ResponseTypeOK, BodyMovesOn, EventsSoFar
<1>9. CASE DropCall
  <2>1. /\ Return("dropped") /\ UNCHANGED <<response, read, neat>>
        /\ events' = <<>> /\ Ascending(events') /\ Len(events') = 0
    BY <1>9 DEF DropCall, Ascending
  <2>2. call' = "idle" /\ outcomes' \in Seq(Outcomes) /\ Delivered' = Delivered
    BY <1>1, <2>1, ReturnAdds DEF Outcomes
  <2> QED BY <1>1, <2>1, <2>2 DEF ResponseTypeOK, BodyMovesOn, EventsSoFar
<1>10. CASE UNCHANGED responseVars
  BY <1>1, <1>10 DEF responseVars, ResponseTypeOK, BodyMovesOn, EventsSoFar, Delivered
<1> QED BY <1>2, <1>3, <1>4, <1>5, <1>6, <1>7, <1>8, <1>9, <1>10 DEF ResponseNext, ReaderStep

-----------------------------------------------------------------------------
(* Whichever of the two reads the answer, the other is at rest.             *)
PathInv == path \in {"relay", "response"} /\ RelayInv /\ ResponseInv

(* The inductive invariant of both readers: what was sent or collected is   *)
(* in the order of the bytes that were read, [DONE] is sent last, and the   *)
(* body is in one place.                                                    *)
THEOREM PathInductive == PathSpec => []PathInv
<1>1. PathInit => PathInv
  BY RelayInitOK, ResponseInitOK DEF PathInit, PathInv
<1>2. PathInv /\ [PathNext]_pathVars => PathInv'
  <2>1. UNCHANGED pathVars => UNCHANGED path /\ UNCHANGED relayVars /\ UNCHANGED responseVars
    BY DEF pathVars
  <2>2. [PathNext]_pathVars =>
           /\ path' = path /\ [RelayNext]_relayVars /\ [ResponseNext]_responseVars
    BY <2>1 DEF PathNext, OnRelay, OnResponse
  <2> QED BY <2>2, RelayStep, ResponseStep DEF PathInv
<1> QED BY <1>1, <1>2, PTL DEF PathSpec

(* The variables of both readers keep their types, and the channel its      *)
(* capacity.                                                                *)
THEOREM PathTypeCorrect == PathSpec => []PathTypeOK
<1>1. PathInv => PathTypeOK
  BY DEF PathInv, PathTypeOK, RelayInv, ResponseInv
<1> QED BY <1>1, PathInductive, PTL

(* What is in flight is what was sent and the item the task holds.          *)
LEMMA InFlightElements ==
    ASSUME RelayInv
    PROVE  /\ DOMAIN InFlight = 1..Len(InFlight) /\ Len(Sent) \in Nat
           /\ \A i \in 1..Len(Sent) : i \in DOMAIN InFlight /\ InFlight[i] = Sent[i]
           /\ pc \in {"sending", "closing"} =>
                 /\ Len(InFlight) = Len(Sent) + 1 /\ InFlight[Len(Sent) + 1] = item
                 /\ InFlight = Append(Sent, item)
           /\ pc \notin {"sending", "closing"} => InFlight = Sent
<1>1. Sent \in Seq(Items) /\ item \in Items /\ InFlight = Sent \o Pending
  BY ConcatProperties DEF RelayInv, RelayTypeOK, InFlight, Sent
<1>2. CASE pc \in {"sending", "closing"}
  <2>1. InFlight = Append(Sent, item)
    BY <1>1, <1>2, AppendIsConcat DEF Pending
  <2> QED BY <1>1, <1>2, <2>1, AppendElements
<1>3. CASE pc \notin {"sending", "closing"}
  <2>1. InFlight = Sent
    BY <1>1, <1>3, ConcatEmptySeq DEF Pending
  <2> QED BY <1>1, <1>3, <2>1
<1> QED BY <1>2, <1>3

(* The client sees the upstream's bytes in order and none twice, however    *)
(* the chunks are cut and whenever the task, the server and the client run. *)
THEOREM InOrder == PathSpec => []InOrderNoDuplicates
<1>1. PathInv => InOrderNoDuplicates
  <2> SUFFICES ASSUME RelayInv PROVE Ascending(InFlight)
    BY DEF PathInv, InOrderNoDuplicates
  <2>1. Sent \in Seq(Items) /\ item \in Items
    BY ConcatProperties DEF RelayInv, RelayTypeOK, Sent
  <2>2. CASE pc \in {"sending", "closing"}
    <3>1. \A i \in 1..Len(Sent) : \A p \in Sent[i].pieces, q \in item.pieces : p < q
      BY <2>2 DEF RelayInv, SentInOrder, DoneIsLast, Done
    <3> QED BY <2>1, <2>2, <3>1, InFlightElements, AscendingAppend DEF RelayInv, SentInOrder
  <2>3. CASE pc \notin {"sending", "closing"}
    BY <2>3, InFlightElements DEF RelayInv, SentInOrder
  <2> QED BY <2>2, <2>3
<1> QED BY <1>1, PathInductive, PTL

(* Every body that ends, ends with the relay's [DONE], and nothing follows. *)
THEOREM DoneEndsBody == PathSpec => []EndsWithDone
<1>1. PathInv => EndsWithDone
  <2> SUFFICES ASSUME RelayInv PROVE EndsWithDone
    BY DEF PathInv
  <2>1. /\ Len(got) \in Nat /\ Len(channel) \in Nat /\ Len(Sent) = Len(got) + Len(channel)
        /\ DOMAIN got = 1..Len(got) /\ (Len(channel) = 0 => channel = <<>>)
        /\ (channel = <<>> => Sent = got)
        /\ \A i \in 1..Len(got) : i \in 1..Len(Sent) /\ Sent[i] = got[i]
    BY ConcatProperties, ConcatEmptySeq DEF RelayInv, RelayTypeOK, Sent
  <2>2. \A i \in DOMAIN got : got[i].type = "done" => i = Len(got) /\ channel = <<>>
    BY <2>1 DEF RelayInv, DoneIsLast
  <2>3. client = "ended" => got # <<>> /\ got[Len(got)].type = "done"
    BY <2>1 DEF RelayInv, DoneIsLast
  <2> QED BY <2>2, <2>3 DEF EndsWithDone
<1> QED BY <1>1, PathInductive, PTL

(* As long as every chunk holds at most one data line, and that whole, no   *)
(* data line is lost between parse_sse_chunk and the client.                *)
THEOREM NothingLostWhenAligned == PathSpec => []AlignedIsLossless
<1>1. PathInv => AlignedIsLossless
  BY InFlightElements DEF PathInv, RelayInv, AlignedRelayed, Relayed, AlignedIsLossless
<1> QED BY <1>1, PathInductive, PTL

(* Of all calls on a response, in whatever order they are made, fail or are *)
(* dropped, at most one returns the body, in order and, for aligned chunks, *)
(* complete.                                                                *)
THEOREM DeliveredOnce == PathSpec => []BodyOnce
<1>1. PathInv => BodyOnce
  <2> SUFFICES ASSUME ResponseInv PROVE BodyOnce
    BY DEF PathInv
  <2>1. Cardinality(Delivered) <= 1
    <3>1. CASE Delivered = {}
      <4>1. Cardinality(Delivered) = 0
        BY <3>1, FS_EmptySet
      <4> QED BY <4>1
    <3>2. CASE Delivered # {}
      <4>1. PICK i : Delivered = {i}
        BY <3>2 DEF ResponseInv, BodyMovesOn
      <4>2. Cardinality(Delivered) = 1
        BY <4>1, FS_Singleton
      <4> QED BY <4>2
    <3> QED BY <3>1, <3>2
  <2>2. DOMAIN events = 1..Len(events)
    BY DEF ResponseInv, ResponseTypeOK
  <2> QED BY <2>1, <2>2 DEF BodyOnce, Delivered, ResponseInv, EventsSoFar
<1> QED BY <1>1, PathInductive, PTL
=============================================================================
