------------------------------ MODULE EventBus -------------------------------
(***************************************************************************)
(* eventbus/event-bus.go: a publisher holds the lock for reading while it  *)
(* offers its event to the channel of every subscriber of the event's      *)
(* name, so publishers overlap with each other, but not with Subscribe.    *)
(* The controller's methods call these two with a fixed name.  A           *)
(* subscription that is cancelled keeps its channel.                       *)
(***************************************************************************)
EXTENDS Integers, Sequences, FiniteSets

CONSTANTS Subscribers, Publishers, Names,
          BufferSize,
          MaxEvents  \* bound: the events of one publisher

ASSUME BusAssumption == {BufferSize, MaxEvents} \subseteq Nat

VARIABLES name,      \* what each subscriber has subscribed to: a set of one name, or none
          loop,      \* its goroutine, startSubscriber
          channel,   \* its internalChannel
          onMessage, \* the events it was called with
          offer,     \* the event each publisher holds, and the channels it still goes to
          sent,      \* events of each publisher so far
          \* history:
          since,     \* sent, when the subscription was made
          full       \* subscribers and events that met a full channel

busVars == <<name, loop, channel, onMessage, offer, sent, since, full>>

Events == Publishers \X (1..MaxEvents) \X Names
Publishes(p) == offer[p].to # {}

BusTypeOK == /\ \A s \in Subscribers : name[s] \in SUBSET Names /\ Cardinality(name[s]) <= 1
             /\ loop \in [Subscribers -> {"off", "on", "ended"}]
             /\ \A s \in Subscribers : Len(channel[s]) <= BufferSize
             /\ sent \in [Publishers -> 0..MaxEvents]
             /\ full \subseteq Subscribers \X Events

BusInit == /\ name = [s \in Subscribers |-> {}]
           /\ loop = [s \in Subscribers |-> "off"]
           /\ channel = [s \in Subscribers |-> <<>>]
           /\ onMessage = channel
           /\ offer = [p \in Publishers |-> [event |-> <<>>, to |-> {}]]
           /\ sent = [p \in Publishers |-> 0]
           /\ since = [s \in Subscribers |-> sent]
           /\ full = {}

Subscribe(s, n) ==
    /\ loop[s] = "off" /\ \A p \in Publishers : ~Publishes(p)
    /\ name' = [name EXCEPT ![s] = {n}]
    /\ loop' = [loop EXCEPT ![s] = "on"]
    /\ since' = [since EXCEPT ![s] = sent]
    /\ UNCHANGED <<channel, onMessage, offer, sent, full>>

\* Without a subscriber the event is discarded.
Publish(p, n) ==
    /\ ~Publishes(p) /\ sent[p] < MaxEvents
    /\ sent' = [sent EXCEPT ![p] = @ + 1]
    /\ offer' = [offer EXCEPT ![p] = [event |-> <<p, sent[p] + 1, n>>,
                                      to |-> {s \in Subscribers : n \in name[s]}]]
    /\ UNCHANGED <<name, loop, channel, onMessage, since, full>>

busUnchanged == UNCHANGED <<name, loop, onMessage, sent, since>>

Delivers(p, s) ==
    /\ s \in offer[p].to /\ Len(channel[s]) < BufferSize
    /\ offer' = [offer EXCEPT ![p].to = @ \ {s}]
    /\ channel' = [channel EXCEPT ![s] = Append(@, offer[p].event)]
    /\ UNCHANGED full /\ busUnchanged

\* A full channel misses the event; the publisher goes on with others.
Misses(p, s, others) ==
    /\ s \in offer[p].to /\ Len(channel[s]) >= BufferSize
    /\ offer' = [offer EXCEPT ![p].to = others]
    /\ full' = full \cup {<<s, offer[p].event>>}
    /\ UNCHANGED channel /\ busUnchanged

\* Mutant: the loop over the channels ends at a full one.
OfferUntilFull(p, s) == Delivers(p, s) \/ Misses(p, s, {})

\* Mutant: no limit.
OfferAlways(p, s) == /\ s \in offer[p].to
                     /\ offer' = [offer EXCEPT ![p].to = @ \ {s}]
                     /\ channel' = [channel EXCEPT ![s] = Append(@, offer[p].event)]
                     /\ UNCHANGED full /\ busUnchanged

\* The loop over the channels, in any order.
Offer(p, s) == Delivers(p, s) \/ Misses(p, s, offer[p].to \ {s})

Receive(s) ==
    /\ loop[s] = "on" /\ channel[s] # <<>>
    /\ onMessage' = [onMessage EXCEPT ![s] = Append(@, Head(channel[s]))]
    /\ channel' = [channel EXCEPT ![s] = Tail(@)]
    /\ UNCHANGED <<name, loop, offer, sent, since, full>>

\* The context is over and the goroutine has seen it.
SubscriberEnds(s) ==
    /\ loop[s] = "on"
    /\ loop' = [loop EXCEPT ![s] = "ended"]
    /\ UNCHANGED <<name, channel, onMessage, offer, sent, since, full>>

BusNext ==
    \/ \E p \in Publishers, n \in Names : Publish(p, n)
    \/ \E p \in Publishers, s \in Subscribers : Offer(p, s)
    \/ \E s \in Subscribers :
          \/ \E n \in Names : Subscribe(s, n)
          \/ Receive(s) \/ SubscriberEnds(s)
-----------------------------------------------------------------------------
Delivered(s) == onMessage[s] \o channel[s]

\* A subscriber is handed every event published under its name since it subscribed, once
\* and in the order of its publisher, except the ones that met its full channel
\* (event-bus.go:93, which speaks of blocking).
BusDelivers ==
    \A s \in Subscribers :
       /\ \A i, j \in DOMAIN Delivered(s) :
             i < j => LET d == Delivered(s)[i]
                          e == Delivered(s)[j]
                      IN d[1] = e[1] => d[2] < e[2]
       /\ \A i \in DOMAIN Delivered(s) : Delivered(s)[i][3] \in name[s]
       /\ \A p \in Publishers, k \in 1..MaxEvents :
             LET e == offer[p].event
             IN (/\ k = sent[p] /\ k > since[s][p] /\ e[3] \in name[s] /\ s \notin offer[p].to)
                => \/ <<s, e>> \in full
                   \/ \E i \in DOMAIN Delivered(s) : Delivered(s)[i] = e
=============================================================================
