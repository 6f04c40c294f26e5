---------------------------- MODULE EventChannel ----------------------------
(***************************************************************************)
(* What the transactional outbox promises its users: an event committed    *)
(* with a mutation is delivered at least once, unless it is dropped for    *)
(* its age; an event whose mutation was rolled back is never delivered,    *)
(* and one that was dropped is not replayed.  Outbox implements it.        *)
(***************************************************************************)
EXTENDS Naturals, Sequences

CONSTANTS Messages, MayDrop

VARIABLES
  sent,      \* events whose transaction committed
  dropped,   \* events given up
  stream     \* deliveries in order, repetitions included

channelVars == <<sent, dropped, stream>>

Delivered == {stream[i] : i \in DOMAIN stream}

ChannelInit == sent = {} /\ dropped = {} /\ stream = <<>>

Send(m) ==
  /\ m \notin sent
  /\ sent' = sent \cup {m}
  /\ UNCHANGED <<dropped, stream>>

Deliver(m) ==
  /\ m \in sent \ dropped
  /\ stream' = Append(stream, m)
  /\ UNCHANGED <<sent, dropped>>

Drop(S) ==
  /\ MayDrop
  /\ S \subseteq sent
  /\ dropped' = dropped \cup S
  /\ UNCHANGED <<sent, stream>>

ChannelNext ==
  \/ \E m \in Messages : Send(m) \/ Deliver(m)
  \/ \E S \in SUBSET Messages : Drop(S)

ChannelSafe == ChannelInit /\ [][ChannelNext]_channelVars

\* Every committed event is delivered or dropped, sooner or later.
AtLeastOnce == \A m \in Messages : m \in sent ~> m \in Delivered \cup dropped

ChannelSpec == ChannelSafe /\ AtLeastOnce
=============================================================================
