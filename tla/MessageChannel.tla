--------------------------- MODULE MessageChannel ---------------------------
(***************************************************************************)
(* What a sequence of McpTransport::send on one end and receive on the     *)
(* other promises (crates/mcp/src/transport.rs): messages arrive in the    *)
(* order in which they were sent, each at most once.  Some may be lost.    *)
(***************************************************************************)
EXTENDS Naturals, Sequences

CONSTANT Messages

VARIABLES inTransit,    \* messages sent and not yet received or lost
          delivered     \* messages received, in order

channelVars == <<inTransit, delivered>>

ChannelInit == inTransit = <<>> /\ delivered = <<>>

Transmit(m) ==
    /\ m \notin {inTransit[i] : i \in DOMAIN inTransit} \cup {delivered[i] : i \in DOMAIN delivered}
    /\ inTransit' = Append(inTransit, m)
    /\ UNCHANGED delivered

Deliver ==
    /\ inTransit # <<>>
    /\ inTransit' = Tail(inTransit)
    /\ delivered' = Append(delivered, Head(inTransit))

Lose ==             \* some stay, in their order
    /\ \E n \in 0..Len(inTransit) : \E kept \in [1..n -> DOMAIN inTransit] :
          /\ \A i, j \in 1..n : i < j => kept[i] < kept[j]
          /\ inTransit' = [i \in 1..n |-> inTransit[kept[i]]]
    /\ UNCHANGED delivered

ChannelNext == (\E m \in Messages : Transmit(m)) \/ Deliver \/ Lose

ChannelSpec == ChannelInit /\ [][ChannelNext]_channelVars
=============================================================================
