--------------------------- MODULE RealtimeProofs ---------------------------
(***************************************************************************)
(* Proofs about Realtime, for every number of clients, capacity of the     *)
(* hub and of its channels: the hub stays consistent and no client that    *)
(* keeps its subscription misses a hint.                                   *)
(***************************************************************************)
EXTENDS Realtime, FiniteSetTheorems, TLAPS

-----------------------------------------------------------------------------
(* The inductive invariant.                                                *)

Hints ==
  [kind : {"token", "launch", "reorg", "stray"}, version : Nat, token : Tokens \cup {NoToken}]

ChannelStates == [open : BOOLEAN, buf : Seq(Hints)]

ClientStates ==
  [state : {"connecting", "connected", "retrying", "exhausted", "off"}, id : 0..MaxID,
   attempt : Nat, page : Tokens \cup {NoToken}, data : {"loading", "shown", "error"},
   loaded : BOOLEAN, seen : Nat, since : Nat, dirty : BOOLEAN]

SourceOK ==
  /\ version \in Nat
  /\ kept \subseteq Hints
  /\ \A hint \in kept : hint.version \in 1..version
  /\ unsent \subseteq Hints
  /\ wire \in Seq(Hints)
  /\ notices \in Nat
  /\ listening \in BOOLEAN

HubOK ==
  /\ nextID \in 0..MaxID
  /\ subscribers \subseteq 1..nextID
  /\ channel \in [IDs -> ChannelStates]
  /\ active \in Int
  /\ panicked \in BOOLEAN
  /\ HubConsistent

ClientsOK ==
  /\ serving \subseteq IDs
  /\ stopping \in BOOLEAN
  /\ client \in [Clients -> ClientStates]
  /\ \A c \in Clients : client[c].id <= nextID

\* A hint is in a queue.
Holds(queue, hint) == \E i \in 1..Len(queue) : queue[i] = hint

\* Where a hint that was not lost is, for a subscribed client whose page it concerns: it has
\* not been sent, is at the listener, waits in the channel, has made the client refetch, or
\* the page shows its commit already, or an error.
OnItsWay(c, hint) ==
  \/ hint \in unsent
  \/ Holds(wire, hint)
  \/ Holds(channel[client[c].id].buf, hint)
  \/ client[c].dirty
  \/ client[c].seen >= hint.version
  \/ client[c].data = "error"

\* A client listens for a hint: its stream runs, and its page has to be refetched for it.
Listens(c, hint) ==
  /\ client[c].state = "connected" /\ client[c].id \in subscribers
  /\ hint.version > client[c].since
  /\ Concerns(c, hint)

HintsTracked ==
  \A c \in Clients, hint \in kept : Listens(c, hint) => OnItsWay(c, hint)

IInv ==
  /\ SourceOK
  /\ HubOK
  /\ ClientsOK
  /\ HintsTracked

-----------------------------------------------------------------------------
(* Queues of hints.                                                        *)

\* What is appended is in the queue, and what was in it stays.
LEMMA HoldsAppend ==
  ASSUME NEW queue \in Seq(Hints), NEW hint \in Hints
  PROVE  /\ Append(queue, hint) \in Seq(Hints)
         /\ Holds(Append(queue, hint), hint)
         /\ \A h : Holds(queue, h) => Holds(Append(queue, hint), h)
  <1> DEFINE longer == Append(queue, hint)
  <1>1. /\ longer \in Seq(Hints) /\ Len(queue) \in Nat
        /\ Len(longer) = Len(queue) + 1 /\ longer[Len(queue) + 1] = hint
        /\ \A i \in 1..Len(queue) : longer[i] = queue[i]
    OBVIOUS
  <1> HIDE DEF longer
  <1>2. \A i \in 1..Len(queue) : i \in 1..Len(longer)
    BY <1>1
  <1>3. Len(queue) + 1 \in 1..Len(longer)
    BY <1>1
  <1>4. Holds(longer, hint)
    BY <1>1, <1>3 DEF Holds
  <1>5. ASSUME NEW h, Holds(queue, h) PROVE Holds(longer, h)
    BY <1>1, <1>2, <1>5 DEF Holds
  <1> QED BY <1>1, <1>4, <1>5 DEF longer

\* Taking the head off a queue leaves the others in it.
LEMMA HoldsTail ==
  ASSUME NEW queue \in Seq(Hints), queue # <<>>
  PROVE  /\ Head(queue) \in Hints /\ Tail(queue) \in Seq(Hints)
         /\ \A h : Holds(queue, h) => h = Head(queue) \/ Holds(Tail(queue), h)
  <1>1. /\ Head(queue) \in Hints /\ Tail(queue) \in Seq(Hints) /\ Head(queue) = queue[1]
        /\ Len(queue) \in Nat /\ Len(Tail(queue)) = Len(queue) - 1
        /\ \A i \in 1..Len(Tail(queue)) : Tail(queue)[i] = queue[i + 1]
    OBVIOUS
  <1>2. ASSUME NEW h, Holds(queue, h), h # Head(queue) PROVE Holds(Tail(queue), h)
    <2>1. PICK i \in 1..Len(queue) : queue[i] = h
      BY <1>2 DEF Holds
    <2>2. i # 1 /\ i \in Nat
      BY <1>1, <1>2, <2>1
    <2>3. i - 1 \in 1..Len(Tail(queue)) /\ (i - 1) + 1 = i
      BY <1>1, <2>1, <2>2
    <2>4. Tail(queue)[i - 1] = h
      BY <1>1, <2>1, <2>3
    <2> QED BY <2>3, <2>4 DEF Holds
  <1> QED BY <1>1, <1>2

\* Nothing is in an empty queue.
LEMMA HoldsNothing == \A h : ~Holds(<<>>, h)
  BY DEF Holds

\* The hints that the model makes.
LEMMA HintTypes ==
  /\ Stray \in Hints /\ Stray.version = 0
  /\ \A kind \in {"token", "launch", "reorg"}, v \in Nat, t \in Tokens \cup {NoToken} :
       HintOf(kind, v, t) \in Hints /\ HintOf(kind, v, t).version = v
  BY DEF Stray, HintOf, Hints

\* A hint of a commit is not a stray.
LEMMA KeptIsOurs == ASSUME SourceOK, NEW hint \in kept PROVE hint # Stray
  <1>1. hint.version \in 1..version /\ version \in Nat
    BY DEF SourceOK
  <1>2. hint.version # 0
    BY <1>1
  <1> QED BY <1>2, HintTypes

-----------------------------------------------------------------------------
(* The hub.                                                                *)

\* The subscribers are finitely many.
LEMMA SubscribersFinite ==
  ASSUME HubOK PROVE IsFiniteSet(subscribers) /\ subscribers \subseteq IDs
  <1>1. IsFiniteSet(1..nextID)
    BY FS_Interval, RealtimeAssumption DEF HubOK
  <1>2. IsFiniteSet(subscribers)
    BY <1>1, FS_Subset DEF HubOK
  <1> QED BY <1>2, RealtimeAssumption DEF HubOK, IDs

\* Publishing closes and counts exactly the subscribers that are full, once.
LEMMA PublishKeepsHub ==
  ASSUME HubOK, NEW hint \in Hints, Publish(hint)
  PROVE  /\ HubOK'
         /\ subscribers' \subseteq subscribers
         /\ \A id \in subscribers' : Holds(channel'[id].buf, hint)
         /\ \A h : \A id \in subscribers' : Holds(channel[id].buf, h) => Holds(channel'[id].buf, h)
         /\ nextID' = nextID
  <1> DEFINE full == {id \in subscribers : Full(id)}
  <1>1. IsFiniteSet(subscribers) /\ subscribers \subseteq IDs
    BY SubscribersFinite
  <1>2. /\ IsFiniteSet(full) /\ full \subseteq subscribers
        /\ Cardinality(full) \in Nat /\ Cardinality(subscribers) \in Nat
        /\ Cardinality(subscribers \ full) = Cardinality(subscribers) - Cardinality(full)
    <2>1. full \subseteq subscribers
      OBVIOUS
    <2>2. IsFiniteSet(full)
      BY <1>1, <2>1, FS_Subset
    <2>3. subscribers \cap full = full
      BY <2>1
    <2>4. Cardinality(full) \in Nat /\ Cardinality(subscribers) \in Nat
      BY <1>1, <2>2, FS_CardinalityType
    <2>5. Cardinality(subscribers \ full) = Cardinality(subscribers) - Cardinality(subscribers \cap full)
      BY <1>1, FS_Difference
    <2> QED BY <2>1, <2>2, <2>3, <2>4, <2>5
  <1> HIDE DEF full
  <1>3. /\ subscribers' = subscribers \ full
        /\ active' = active - Cardinality(full)
        /\ panicked' = (panicked \/ \E id \in subscribers : ~channel[id].open)
        /\ nextID' = nextID
        /\ channel' = [id \in IDs |->
             CASE id \in full               -> [channel[id] EXCEPT !.open = FALSE]
               [] id \in subscribers \ full -> [channel[id] EXCEPT !.buf = Append(@, hint)]
               [] OTHER                     -> channel[id]]
    BY DEF Publish, full
  <1>4. \A id \in IDs : channel[id] \in ChannelStates
    BY DEF HubOK
  <1>5. ASSUME NEW id \in IDs
        PROVE  /\ channel'[id] \in ChannelStates
               /\ id \in full => channel'[id].open = FALSE
               /\ id \notin full => channel'[id].open = channel[id].open
               /\ id \in subscribers \ full => channel'[id].buf = Append(channel[id].buf, hint)
    <2>1. CASE id \in full
      BY <1>2, <1>3, <1>4, <1>5, <2>1 DEF ChannelStates
    <2>2. CASE id \in subscribers \ full
      <3>1. channel'[id] = [channel[id] EXCEPT !.buf = Append(channel[id].buf, hint)]
        BY <1>2, <1>3, <1>5, <2>2
      <3>2. channel[id] \in ChannelStates /\ Append(channel[id].buf, hint) \in Seq(Hints)
        BY <1>4, <1>5, HoldsAppend DEF ChannelStates
      <3> QED BY <2>2, <3>1, <3>2 DEF ChannelStates
    <2>3. CASE id \notin subscribers
      BY <1>2, <1>3, <1>4, <1>5, <2>3 DEF ChannelStates
    <2> QED BY <2>1, <2>2, <2>3
  <1>6. channel' \in [IDs -> ChannelStates]
    BY <1>3, <1>5
  <1>7. ~panicked'
    BY <1>1, <1>3 DEF HubOK, HubConsistent
  <1>8. subscribers' = {id \in IDs : channel'[id].open}
    BY <1>1, <1>3, <1>5 DEF HubOK, HubConsistent
  <1>9. active' = Cardinality(subscribers')
    BY <1>2, <1>3 DEF HubOK, HubConsistent
  <1>10. ASSUME NEW id \in subscribers'
         PROVE  /\ Holds(channel'[id].buf, hint)
                /\ \A h : Holds(channel[id].buf, h) => Holds(channel'[id].buf, h)
    <2>1. id \in IDs /\ channel[id].buf \in Seq(Hints) /\ id \in subscribers \ full
      BY <1>1, <1>3, <1>4, <1>10 DEF ChannelStates
    <2>2. channel'[id].buf = Append(channel[id].buf, hint)
      BY <1>5, <2>1
    <2> QED BY <2>1, <2>2, HoldsAppend
  <1>11. /\ nextID' \in 0..MaxID /\ subscribers' \subseteq 1..nextID'
         /\ active' \in Int /\ panicked' \in BOOLEAN
    BY <1>2, <1>3, <1>7 DEF HubOK
  <1>12. HubOK'
    BY <1>6, <1>7, <1>8, <1>9, <1>11 DEF HubOK, HubConsistent
  <1>13. subscribers' \subseteq subscribers /\ nextID' = nextID
    BY <1>3
  <1> QED BY <1>10, <1>12, <1>13

\* A new subscription gets an id and a channel that nobody has.
LEMMA SubscribeKeepsHub ==
  ASSUME HubOK, nextID < MaxID, Subscribe
  PROVE  /\ HubOK'
         /\ nextID + 1 \in IDs
         /\ \A id \in IDs : id # nextID + 1 => channel'[id] = channel[id]
  <1> DEFINE new == nextID + 1
  <1>1. IsFiniteSet(subscribers) /\ subscribers \subseteq IDs
    BY SubscribersFinite
  <1>2. new \in IDs /\ new \notin subscribers /\ new \in 0..MaxID
    BY RealtimeAssumption DEF HubOK, IDs
  <1>3. /\ nextID' = new
        /\ subscribers' = subscribers \cup {new}
        /\ channel' = [channel EXCEPT ![new] = [open |-> TRUE, buf |-> <<>>]]
        /\ active' = active + 1
        /\ UNCHANGED panicked
    BY DEF Subscribe
  <1>4. Cardinality(subscribers') = Cardinality(subscribers) + 1
    BY <1>1, <1>2, <1>3, FS_AddElement
  <1>5. channel' \in [IDs -> ChannelStates]
    <2>1. [open |-> TRUE, buf |-> <<>>] \in ChannelStates
      BY DEF ChannelStates
    <2> QED BY <1>3, <2>1 DEF HubOK
  <1>6. subscribers' = {id \in IDs : channel'[id].open}
    BY <1>2, <1>3 DEF HubOK, HubConsistent
  <1>7. subscribers' \subseteq 1..nextID'
    BY <1>2, <1>3, RealtimeAssumption DEF HubOK
  <1>8. \A id \in IDs : id # new => channel'[id] = channel[id]
    BY <1>3 DEF HubOK
  <1> QED BY <1>2, <1>3, <1>4, <1>5, <1>6, <1>7, <1>8 DEF HubOK, HubConsistent

\* Removing a subscription closes its channel, unless it is closed already.
LEMMA RemoveKeepsHub ==
  ASSUME HubOK, NEW i \in IDs, Remove(i)
  PROVE  /\ HubOK'
         /\ subscribers' = subscribers \ {i}
         /\ \A id \in IDs : id # i => channel'[id] = channel[id]
         /\ nextID' = nextID
  <1>1. IsFiniteSet(subscribers) /\ subscribers \subseteq IDs
    BY SubscribersFinite
  <1>2. /\ subscribers' = subscribers \ {i}
        /\ channel' = [channel EXCEPT ![i] = [open |-> FALSE, buf |-> <<>>]]
        /\ nextID' = nextID
    BY DEF Remove
  <1>3. [open |-> FALSE, buf |-> <<>>] \in ChannelStates
    BY DEF ChannelStates
  <1>4. /\ channel' \in [IDs -> ChannelStates]
        /\ \A id \in IDs : id # i => channel'[id] = channel[id]
        /\ channel'[i].open = FALSE
    BY <1>2, <1>3 DEF HubOK
  <1>5. subscribers' = {id \in IDs : channel'[id].open}
    BY <1>1, <1>2, <1>4 DEF HubOK, HubConsistent
  <1>6. /\ active' = Cardinality(subscribers') /\ active' \in Int
        /\ ~panicked' /\ panicked' \in BOOLEAN
    <2>1. CASE i \in subscribers
      <3>1. active' = active - 1 /\ panicked' = (panicked \/ ~channel[i].open)
        BY <2>1 DEF Remove
      <3>2. Cardinality(subscribers') = Cardinality(subscribers) - 1
        BY <1>1, <1>2, <2>1, FS_RemoveElement
      <3>3. ~panicked' /\ panicked' \in BOOLEAN
        BY <2>1, <3>1 DEF HubOK, HubConsistent
      <3> QED BY <3>1, <3>2, <3>3 DEF HubOK, HubConsistent
    <2>2. CASE i \notin subscribers
      <3>1. subscribers' = subscribers /\ UNCHANGED <<active, panicked>>
        BY <1>2, <2>2 DEF Remove
      <3> QED BY <3>1 DEF HubOK, HubConsistent
    <2> QED BY <2>1, <2>2
  <1>7. nextID' \in 0..MaxID /\ subscribers' \subseteq 1..nextID'
    BY <1>2 DEF HubOK
  <1>8. HubOK'
    BY <1>4, <1>5, <1>6, <1>7 DEF HubOK, HubConsistent
  <1> QED BY <1>2, <1>4, <1>8

-----------------------------------------------------------------------------
(* Commits, notifications and the listener.                                *)

\* A step that leaves the hub and the clients alone, and keeps track of every hint that it
\* keeps: an old one stays where it is, a new one is to be sent or on the wire.
LEMMA SourceStep ==
  ASSUME IInv, SourceOK', UNCHANGED <<hubVars, serving, stopping, client>>,
         \A hint \in kept' :
           \/ hint \in unsent' \/ Holds(wire', hint)
           \/ hint \in kept /\ hint \notin unsent /\ ~Holds(wire, hint)
  PROVE  IInv'
  <1>1. HubOK' /\ ClientsOK'
    BY DEF IInv, HubOK, ClientsOK, HubConsistent, hubVars
  <1>2. HintsTracked'
    <2> SUFFICES ASSUME NEW c \in Clients, NEW hint \in kept', Listens(c, hint)'
                 PROVE  OnItsWay(c, hint)'
      BY DEF HintsTracked
    <2>1. CASE hint \in unsent' \/ Holds(wire', hint)
      BY <2>1 DEF OnItsWay
    <2>2. CASE hint \in kept /\ hint \notin unsent /\ ~Holds(wire, hint)
      <3>1. Listens(c, hint)
        BY DEF Listens, Concerns, hubVars
      <3>2. OnItsWay(c, hint)
        BY <2>2, <3>1 DEF IInv, HintsTracked
      <3> QED BY <2>2, <3>2 DEF OnItsWay, hubVars
    <2> QED BY <2>1, <2>2
  <1> QED BY <1>1, <1>2 DEF IInv

\* A hint reaches the wire, or nobody hears it.
LEMMA NotifiedFacts ==
  ASSUME SourceOK, NEW hint \in Hints, Notified(hint)
  PROVE  /\ wire' \in Seq(Hints)
         /\ \A h : Holds(wire, h) => Holds(wire', h)
         /\ hint \in Unheard(hint) \/ Holds(wire', hint)
  <1>1. CASE listening
    <2>1. wire' = Append(wire, hint) /\ wire \in Seq(Hints)
      BY <1>1 DEF Notified, SourceOK
    <2> QED BY <2>1, HoldsAppend
  <1>2. CASE ~listening
    BY <1>2 DEF Notified, Unheard, SourceOK
  <1> QED BY <1>1, <1>2 DEF SourceOK

\* A transaction of the indexer: its hints are on the wire, or still to be sent.
LEMMA IndexerCommitStep == ASSUME IInv, IndexerCommit PROVE IInv'
  <1> DEFINE after == HintOf("token", version + 1, NoToken)
             inside == {HintOf("launch", version + 1, t) : t \in Tokens}
                       \cup {HintOf("reorg", version + 1, NoToken)}
  <1>0. SourceOK /\ version + 1 \in Nat
    BY DEF IInv, SourceOK
  <1>1. /\ after \in Hints /\ after.version = version + 1
        /\ \A hint \in inside : hint \in Hints /\ hint.version = version + 1
    BY <1>0, HintTypes
  <1>2. /\ version' = version + 1 /\ unsent' = unsent \cup {after}
        /\ UNCHANGED <<listening, hubVars, serving, stopping, client>>
        /\ \/ notices' = notices + 1 /\ kept' = kept \cup {after} /\ UNCHANGED wire
           \/ /\ notices' = notices + 2
              /\ \E hint \in inside :
                   kept' = kept \cup ({after, hint} \ Unheard(hint)) /\ Notified(hint)
    BY DEF IndexerCommit
  <1> HIDE DEF after, inside
  <1>3. CASE notices' = notices + 1 /\ kept' = kept \cup {after} /\ UNCHANGED wire
    <2>1. SourceOK'
      BY <1>0, <1>1, <1>2, <1>3 DEF SourceOK
    <2>2. \A hint \in kept' :
            \/ hint \in unsent' \/ Holds(wire', hint)
            \/ hint \in kept /\ hint \notin unsent /\ ~Holds(wire, hint)
      BY <1>2, <1>3
    <2> QED BY <1>2, <2>1, <2>2, SourceStep
  <1>4. CASE /\ notices' = notices + 2
             /\ \E hint \in inside :
                  kept' = kept \cup ({after, hint} \ Unheard(hint)) /\ Notified(hint)
    <2>1. PICK hint \in inside :
            kept' = kept \cup ({after, hint} \ Unheard(hint)) /\ Notified(hint)
      BY <1>4
    <2>2. hint \in Hints /\ hint.version = version + 1
      BY <1>1, <2>1
    <2>3. /\ wire' \in Seq(Hints)
          /\ \A h : Holds(wire, h) => Holds(wire', h)
          /\ hint \in Unheard(hint) \/ Holds(wire', hint)
      BY <1>0, <2>1, <2>2, NotifiedFacts
    <2>4. \A h \in kept' : h \in kept \/ h = after \/ (h = hint /\ h \notin Unheard(hint))
      BY <2>1
    <2>5. SourceOK'
      <3>1. \A h \in kept' : h \in Hints /\ h.version \in 1..version'
        BY <1>0, <1>1, <1>2, <2>2, <2>4 DEF SourceOK
      <3> QED BY <1>0, <1>1, <1>2, <1>4, <2>3, <3>1 DEF SourceOK
    <2>6. ASSUME NEW h \in kept'
          PROVE  \/ h \in unsent' \/ Holds(wire', h)
                 \/ h \in kept /\ h \notin unsent /\ ~Holds(wire, h)
      BY <1>2, <2>3, <2>4, <2>6
    <2> QED BY <1>2, <2>5, <2>6, SourceStep
  <1> QED BY <1>2, <1>3, <1>4

\* A replacement of metadata: its hint is still to be sent.
LEMMA MetadataCommitStep == ASSUME IInv, MetadataCommit PROVE IInv'
  <1>0. SourceOK /\ version + 1 \in Nat
    BY DEF IInv, SourceOK
  <1>1. PICK t \in Tokens : /\ unsent' = unsent \cup {HintOf("token", version + 1, t)}
                            /\ kept' = kept \cup {HintOf("token", version + 1, t)}
    BY DEF MetadataCommit
  <1> DEFINE hint == HintOf("token", version + 1, t)
  <1>2. hint \in Hints /\ hint.version = version + 1
    BY <1>0, <1>1, HintTypes
  <1>3. unsent' = unsent \cup {hint} /\ kept' = kept \cup {hint}
    BY <1>1
  <1> HIDE DEF hint
  <1>4. /\ version' = version + 1 /\ notices' = notices + 1
        /\ UNCHANGED <<wire, listening, hubVars, serving, stopping, client>>
    BY DEF MetadataCommit
  <1>5. SourceOK'
    BY <1>0, <1>2, <1>3, <1>4 DEF SourceOK
  <1>6. \A h \in kept' :
          \/ h \in unsent' \/ Holds(wire', h)
          \/ h \in kept /\ h \notin unsent /\ ~Holds(wire, h)
    BY <1>3, <1>4
  <1> QED BY <1>4, <1>5, <1>6, SourceStep

\* The notification of a commit is sent, or its failure is logged.
LEMMA NotifyRefreshStep == ASSUME IInv, NotifyRefresh PROVE IInv'
  <1>0. SourceOK
    BY DEF IInv
  <1>1. UNCHANGED <<version, notices, listening, hubVars, serving, stopping, client>>
    BY DEF NotifyRefresh
  <1>2. PICK hint \in unsent :
          /\ unsent' = unsent \ {hint}
          /\ \/ Notified(hint) /\ kept' = kept \ Unheard(hint)
             \/ UNCHANGED wire /\ kept' = kept \ {hint}
    BY DEF NotifyRefresh
  <1>3. hint \in Hints
    BY <1>0, <1>2 DEF SourceOK
  <1>4. /\ wire' \in Seq(Hints)
        /\ \A h : Holds(wire, h) => Holds(wire', h)
        /\ hint \notin kept' \/ Holds(wire', hint)
        /\ kept' \subseteq kept
    <2>1. CASE Notified(hint) /\ kept' = kept \ Unheard(hint)
      BY <1>0, <1>3, <2>1, NotifiedFacts
    <2>2. CASE UNCHANGED wire /\ kept' = kept \ {hint}
      BY <1>0, <2>2 DEF SourceOK
    <2> QED BY <1>2, <2>1, <2>2
  <1>5. SourceOK'
    BY <1>0, <1>1, <1>2, <1>4 DEF SourceOK
  <1>6. \A h \in kept' :
          \/ h \in unsent' \/ Holds(wire', h)
          \/ h \in kept /\ h \notin unsent /\ ~Holds(wire, h)
    BY <1>2, <1>4
  <1> QED BY <1>1, <1>5, <1>6, SourceStep

\* A notification that is not for this deployment.
LEMMA NotifyStrayStep == ASSUME IInv, NotifyStray PROVE IInv'
  <1>0. SourceOK /\ Stray \in Hints
    BY HintTypes DEF IInv
  <1>1. /\ UNCHANGED <<version, kept, unsent, listening, hubVars, serving, stopping, client>>
        /\ notices' = notices + 1 /\ Notified(Stray)
    BY DEF NotifyStray
  <1>2. wire' \in Seq(Hints) /\ \A h : Holds(wire, h) => Holds(wire', h)
    BY <1>0, <1>1, NotifiedFacts
  <1>3. SourceOK'
    BY <1>0, <1>1, <1>2 DEF SourceOK
  <1>4. \A h \in kept' :
          \/ h \in unsent' \/ Holds(wire', h)
          \/ h \in kept /\ h \notin unsent /\ ~Holds(wire, h)
    BY <1>1, <1>2
  <1> QED BY <1>1, <1>3, <1>4, SourceStep

\* The listener loses what was on the wire: those hints are lost.
LEMMA ListenerFailsStep == ASSUME IInv, ListenerFails PROVE IInv'
  <1>0. SourceOK
    BY DEF IInv
  <1>1. /\ UNCHANGED <<version, unsent, notices, hubVars, serving, stopping, client>>
        /\ listening' = FALSE /\ wire' = <<>>
        /\ kept' = kept \ {wire[i] : i \in 1..Len(wire)}
    BY DEF ListenerFails
  <1>2. \A h \in kept' : h \in kept /\ ~Holds(wire, h)
    BY <1>1 DEF Holds
  <1>3. <<>> \in Seq(Hints)
    OBVIOUS
  <1>4. SourceOK'
    BY <1>0, <1>1, <1>2, <1>3 DEF SourceOK
  <1>5. \A h \in kept' :
          \/ h \in unsent' \/ Holds(wire', h)
          \/ h \in kept /\ h \notin unsent /\ ~Holds(wire, h)
    BY <1>1, <1>2
  <1> QED BY <1>1, <1>4, <1>5, SourceStep

\* The listener has a connection again.
LEMMA RelistenStep == ASSUME IInv, Relisten PROVE IInv'
  <1>1. /\ UNCHANGED <<version, kept, unsent, wire, notices, hubVars, serving, stopping, client>>
        /\ listening' = TRUE
    BY DEF Relisten
  <1>2. SourceOK'
    BY <1>1 DEF IInv, SourceOK
  <1>3. \A h \in kept' :
          \/ h \in unsent' \/ Holds(wire', h)
          \/ h \in kept /\ h \notin unsent /\ ~Holds(wire, h)
    BY <1>1
  <1> QED BY <1>1, <1>2, <1>3, SourceStep

\* The listener takes a notification off the wire; a hint goes to every subscriber that stays.
LEMMA ReceiveStep == ASSUME IInv, Receive PROVE IInv'
  <1>0. HubOK /\ SourceOK /\ ClientsOK /\ HintsTracked
    BY DEF IInv
  <1>1. /\ wire \in Seq(Hints) /\ wire # <<>> /\ wire' = Tail(wire)
        /\ UNCHANGED <<version, kept, unsent, notices, listening, serving, stopping, client>>
    BY <1>0 DEF Receive, SourceOK
  <1>2. /\ Head(wire) \in Hints /\ wire' \in Seq(Hints)
        /\ \A h : Holds(wire, h) => h = Head(wire) \/ Holds(wire', h)
    BY <1>1, HoldsTail
  <1>3. SourceOK'
    BY <1>0, <1>1, <1>2 DEF SourceOK
  <1>4. CASE ForUs(Head(wire))
    <2>1. Publish(Head(wire))
      BY <1>4 DEF Receive
    <2>2. /\ HubOK' /\ subscribers' \subseteq subscribers
          /\ \A id \in subscribers' : Holds(channel'[id].buf, Head(wire))
          /\ \A h : \A id \in subscribers' : Holds(channel[id].buf, h) => Holds(channel'[id].buf, h)
          /\ nextID' = nextID
      BY <1>0, <1>2, <2>1, PublishKeepsHub
    <2>3. HintsTracked'
      <3> SUFFICES ASSUME NEW c \in Clients, NEW hint \in kept', Listens(c, hint)'
                   PROVE  OnItsWay(c, hint)'
        BY DEF HintsTracked
      <3>1. /\ client' = client /\ client[c].id \in subscribers' /\ hint \in kept
            /\ unsent' = unsent
        BY <1>1 DEF Listens
      <3>2. Listens(c, hint)
        BY <2>2, <3>1 DEF Listens, Concerns
      <3>3. OnItsWay(c, hint)
        BY <1>0, <3>1, <3>2 DEF HintsTracked
      <3>4. CASE Holds(wire, hint)
        <4>1. Holds(channel'[client[c].id].buf, hint) \/ Holds(wire', hint)
          BY <1>2, <2>2, <3>1, <3>4
        <4> QED BY <3>1, <4>1 DEF OnItsWay
      <3>5. CASE Holds(channel[client[c].id].buf, hint)
        <4>1. Holds(channel'[client[c].id].buf, hint)
          BY <2>2, <3>1, <3>5
        <4> QED BY <3>1, <4>1 DEF OnItsWay
      <3> QED BY <3>1, <3>3, <3>4, <3>5 DEF OnItsWay
    <2>4. ClientsOK'
      BY <1>0, <1>1, <2>2 DEF ClientsOK
    <2> QED BY <1>3, <2>2, <2>3, <2>4 DEF IInv
  <1>5. CASE ~ForUs(Head(wire))
    <2>1. UNCHANGED hubVars
      BY <1>5 DEF Receive
    <2>2. \A h \in kept' :
            \/ h \in unsent' \/ Holds(wire', h)
            \/ h \in kept /\ h \notin unsent /\ ~Holds(wire, h)
      BY <1>0, <1>1, <1>2, <1>5, KeptIsOurs DEF ForUs
    <2> QED BY <1>1, <1>3, <2>1, <2>2, SourceStep
  <1> QED BY <1>4, <1>5

-----------------------------------------------------------------------------
(* Streams.                                                                *)

\* A stream that ends removes its subscription.
LEMMA EndStreamStep ==
  ASSUME IInv, NEW id \in IDs, EndStream(id), UNCHANGED <<sourceVars, stopping, client>>
  PROVE  IInv'
  <1>1. /\ HubOK' /\ subscribers' = subscribers \ {id}
        /\ \A i \in IDs : i # id => channel'[i] = channel[i]
        /\ nextID' = nextID
    BY RemoveKeepsHub DEF IInv, EndStream
  <1>2. SourceOK' /\ ClientsOK'
    BY <1>1 DEF IInv, SourceOK, ClientsOK, EndStream, sourceVars
  <1>3. subscribers \subseteq IDs
    BY SubscribersFinite DEF IInv
  <1>4. HintsTracked'
    <2> SUFFICES ASSUME NEW c \in Clients, NEW hint \in kept', Listens(c, hint)'
                 PROVE  OnItsWay(c, hint)'
      BY DEF HintsTracked
    <2>1. UNCHANGED <<kept, unsent, wire, client>>
      BY DEF sourceVars
    <2>2. client[c].id \in subscribers \ {id} /\ hint \in kept
      BY <1>1, <2>1 DEF Listens
    <2>3. channel'[client[c].id] = channel[client[c].id]
      BY <1>1, <1>3, <2>2
    <2>4. Listens(c, hint)
      BY <2>1, <2>2 DEF Listens, Concerns
    <2>5. OnItsWay(c, hint)
      BY <2>2, <2>4 DEF IInv, HintsTracked
    <2> QED BY <2>1, <2>3, <2>5 DEF OnItsWay
  <1> QED BY <1>1, <1>2, <1>4 DEF IInv

\* A hint is sent to its client, which refetches if it concerns its page.
LEMMA DeliverStep == ASSUME IInv, NEW id \in IDs, Deliver(id) PROVE IInv'
  <1>1. CASE ClientOf(id) = {}
    BY <1>1, EndStreamStep DEF Deliver
  <1>2. CASE ClientOf(id) # {}
    <2>0. HubOK /\ SourceOK /\ ClientsOK /\ HintsTracked
      BY DEF IInv
    <2>1. /\ channel[id].buf # <<>>
          /\ channel' = [channel EXCEPT ![id].buf = Tail(channel[id].buf)]
          /\ client' = [c \in Clients |->
               IF c \in ClientOf(id)
               THEN [client[c] EXCEPT !.dirty = client[c].dirty
                                                  \/ Concerns(c, Head(channel[id].buf)),
                                      !.attempt = 0]
               ELSE client[c]]
          /\ UNCHANGED <<subscribers, active, nextID, panicked, serving>>
          /\ UNCHANGED <<sourceVars, stopping>>
      BY <1>2 DEF Deliver
    <2>2. channel[id].buf \in Seq(Hints)
      BY <2>0 DEF HubOK, ChannelStates
    <2>3. /\ Tail(channel[id].buf) \in Seq(Hints)
          /\ \A h : Holds(channel[id].buf, h)
                => h = Head(channel[id].buf) \/ Holds(Tail(channel[id].buf), h)
      BY <2>1, <2>2, HoldsTail
    <2>4. \A i \in IDs :
            /\ channel'[i] \in ChannelStates
            /\ channel'[i].open = channel[i].open
            /\ i # id => channel'[i] = channel[i]
            /\ i = id => channel'[i].buf = Tail(channel[id].buf)
      BY <2>0, <2>1, <2>3 DEF HubOK, ChannelStates
    <2>5. channel' \in [IDs -> ChannelStates]
      BY <2>0, <2>1, <2>4 DEF HubOK
    <2>6. HubOK'
      BY <2>0, <2>1, <2>4, <2>5 DEF HubOK, HubConsistent
    <2>7. ASSUME NEW c \in Clients
          PROVE  /\ client'[c] \in ClientStates
                 /\ client'[c].state = client[c].state /\ client'[c].id = client[c].id
                 /\ client'[c].since = client[c].since /\ client'[c].seen = client[c].seen
                 /\ client'[c].page = client[c].page /\ client'[c].loaded = client[c].loaded
                 /\ client'[c].data = client[c].data
                 /\ client[c].dirty => client'[c].dirty
                 /\ client[c].id = id /\ Concerns(c, Head(channel[id].buf)) => client'[c].dirty
                 /\ client[c].id # id => client'[c] = client[c]
      <3>1. client[c] \in ClientStates
        BY <2>0 DEF ClientsOK
      <3>2. PICK dirty \in BOOLEAN :
              dirty = (client[c].dirty \/ Concerns(c, Head(channel[id].buf)))
        BY <3>1 DEF Concerns, ClientStates
      <3>3. CASE client[c].id = id
        <4>1. client'[c] = [client[c] EXCEPT !.dirty = dirty, !.attempt = 0]
          BY <2>1, <3>2, <3>3 DEF ClientOf
        <4>2. /\ client'[c] \in ClientStates /\ client'[c].dirty = dirty
              /\ client'[c].state = client[c].state /\ client'[c].id = client[c].id
              /\ client'[c].since = client[c].since /\ client'[c].seen = client[c].seen
              /\ client'[c].page = client[c].page /\ client'[c].loaded = client[c].loaded
              /\ client'[c].data = client[c].data
          <5>1. PICK me \in ClientStates : me = client[c]
            BY <3>1
          <5>2. PICK you : you = client'[c]
            OBVIOUS
          <5>3. you = [me EXCEPT !.dirty = dirty, !.attempt = 0]
            BY <4>1, <5>1, <5>2
          <5>4. you \in ClientStates
            BY <3>2, <5>1, <5>3 DEF ClientStates
          <5>5. you.dirty = dirty
            BY <3>2, <5>1, <5>3 DEF ClientStates
          <5>6. you.state = me.state /\ you.id = me.id /\ you.since = me.since
            BY <3>2, <5>1, <5>3 DEF ClientStates
          <5>7. /\ you.seen = me.seen /\ you.page = me.page /\ you.loaded = me.loaded
                /\ you.data = me.data
            BY <3>2, <5>1, <5>3 DEF ClientStates
          <5> QED BY <5>1, <5>2, <5>4, <5>5, <5>6, <5>7
        <4>3. client[c].dirty \/ Concerns(c, Head(channel[id].buf)) => client'[c].dirty
          BY <3>2, <4>2
        <4> QED BY <3>3, <4>2, <4>3
      <3>4. CASE client[c].id # id
        <4>1. client'[c] = client[c]
          BY <2>1, <3>4 DEF ClientOf
        <4> QED BY <3>1, <3>4, <4>1
      <3> QED BY <3>3, <3>4
    <2>8. ClientsOK' /\ SourceOK'
      <3>1. client' \in [Clients -> ClientStates]
        BY <2>1, <2>7
      <3>2. \A c \in Clients : client'[c].id <= nextID'
        BY <2>0, <2>1, <2>7 DEF ClientsOK
      <3> QED BY <2>0, <2>1, <3>1, <3>2 DEF ClientsOK, SourceOK, sourceVars
    <2>9. HintsTracked'
      <3> SUFFICES ASSUME NEW c \in Clients, NEW hint \in kept', Listens(c, hint)'
                   PROVE  OnItsWay(c, hint)'
        BY DEF HintsTracked
      <3>1. UNCHANGED <<kept, unsent, wire, subscribers>>
        BY <2>1 DEF sourceVars
      <3>2. Listens(c, hint) /\ hint \in kept /\ Concerns(c, hint)
        BY <2>7, <3>1 DEF Listens, Concerns
      <3>3. OnItsWay(c, hint) /\ client[c].id \in IDs
        BY <2>0, <3>2, SubscribersFinite DEF HintsTracked, Listens
      <3>4. CASE Holds(channel[client[c].id].buf, hint)
        <4>1. CASE client[c].id = id
          <5>1. hint = Head(channel[id].buf) \/ Holds(channel'[id].buf, hint)
            BY <2>3, <2>4, <3>4, <4>1
          <5> QED BY <2>7, <3>2, <4>1, <5>1 DEF OnItsWay
        <4>2. CASE client[c].id # id
          BY <2>4, <2>7, <3>3, <3>4, <4>2 DEF OnItsWay
        <4> QED BY <4>1, <4>2
      <3>5. CASE ~Holds(channel[client[c].id].buf, hint)
        BY <2>7, <3>1, <3>3, <3>5 DEF OnItsWay
      <3> QED BY <3>4, <3>5
    <2> QED BY <2>6, <2>8, <2>9 DEF IInv
  <1> QED BY <1>1, <1>2

\* A stream returns.
LEMMA StreamReturnsStep == ASSUME IInv, NEW id \in IDs, StreamReturns(id) PROVE IInv'
  BY EndStreamStep DEF StreamReturns

\* The server shuts down.
LEMMA ShutdownStep == ASSUME IInv, Shutdown PROVE IInv'
  <1>1. HubOK' /\ ClientsOK' /\ SourceOK'
    BY DEF IInv, HubOK, ClientsOK, SourceOK, HubConsistent, Shutdown, hubVars, sourceVars
  <1>2. HintsTracked'
    BY DEF IInv, HintsTracked, OnItsWay, Listens, Concerns, Shutdown, hubVars, sourceVars
  <1> QED BY <1>1, <1>2 DEF IInv

-----------------------------------------------------------------------------
(* Clients.                                                                *)

\* A step of one client that leaves the server alone: after it the client is not connected,
\* or it listens from now on, shows what REST answers, shows an error, or is as before.
LEMMA ClientStep ==
  ASSUME IInv, NEW c \in Clients, NEW me \in ClientStates,
         client' = [client EXCEPT ![c] = me],
         UNCHANGED <<sourceVars, hubVars, serving, stopping>>,
         me.id \in {Nobody, client[c].id},
         me.state = "connected" =>
           \/ me.since = version \/ me.seen = version \/ me.data = "error"
           \/ /\ client[c].state = "connected" /\ me.id = client[c].id
              /\ me.since = client[c].since /\ me.seen = client[c].seen
              /\ me.dirty = client[c].dirty /\ me.data = client[c].data
              /\ me.page = client[c].page /\ me.loaded = client[c].loaded
  PROVE  IInv'
  <1>1. HubOK' /\ SourceOK'
    BY DEF IInv, HubOK, SourceOK, HubConsistent, hubVars, sourceVars
  <1>2. ClientsOK'
    BY DEF IInv, ClientsOK, HubOK, hubVars, Nobody
  <1>3. \A d \in Clients : client'[d] = IF d = c THEN me ELSE client[d]
    BY DEF IInv, ClientsOK
  <1>4. HintsTracked'
    <2> SUFFICES ASSUME NEW d \in Clients, NEW hint \in kept', Listens(d, hint)'
                 PROVE  OnItsWay(d, hint)'
      BY DEF HintsTracked
    <2>1. UNCHANGED <<version, kept, unsent, wire, channel, subscribers>>
      BY DEF sourceVars, hubVars
    <2>2. hint \in kept /\ hint.version \in 1..version /\ version \in Nat
      BY <2>1 DEF IInv, SourceOK
    <2>3. CASE d # c
      <3>1. client'[d] = client[d]
        BY <1>3, <2>3
      <3>2. Listens(d, hint)
        BY <2>1, <3>1 DEF Listens, Concerns
      <3>3. OnItsWay(d, hint)
        BY <2>2, <3>2 DEF IInv, HintsTracked
      <3> QED BY <2>1, <3>1, <3>3 DEF OnItsWay
    <2>4. CASE d = c
      <3>0. client'[c] = me
        BY <1>3
      <3>1. me.state = "connected" /\ hint.version > me.since
        BY <2>4, <3>0 DEF Listens
      <3>2. me.since # version
        BY <2>2, <3>1
      <3>3. CASE me.seen = version
        BY <2>2, <2>4, <3>0, <3>3 DEF OnItsWay
      <3>4. CASE me.data = "error"
        BY <2>4, <3>0, <3>4 DEF OnItsWay
      <3>5. CASE /\ client[c].state = "connected" /\ me.id = client[c].id
                 /\ me.since = client[c].since /\ me.seen = client[c].seen
                 /\ me.dirty = client[c].dirty /\ me.data = client[c].data
                 /\ me.page = client[c].page /\ me.loaded = client[c].loaded
        <4>1. Listens(c, hint)
          BY <2>1, <2>4, <3>0, <3>5 DEF Listens, Concerns
        <4>2. OnItsWay(c, hint)
          BY <2>2, <4>1 DEF IInv, HintsTracked
        <4> QED BY <2>1, <2>4, <3>0, <3>5, <4>2 DEF OnItsWay
      <3> QED BY <3>1, <3>2, <3>3, <3>4, <3>5
    <2> QED BY <2>3, <2>4
  <1> QED BY <1>1, <1>2, <1>4 DEF IInv

\* A client whose stream broke.
LEMMA BrokenState ==
  ASSUME NEW me \in ClientStates
  PROVE  Broken(me) \in ClientStates /\ Broken(me).state # "connected" /\ Broken(me).id = Nobody
  <1> DEFINE state == IF me.attempt + 1 >= MaxAttempts THEN "exhausted" ELSE "retrying"
  <1>1. Nobody \in 0..MaxID /\ me.attempt + 1 \in Nat
    BY RealtimeAssumption DEF ClientStates, Nobody
  <1>2. state \in {"exhausted", "retrying"} /\ 0 \in Nat
    OBVIOUS
  <1>3. Broken(me) = [me EXCEPT !.id = Nobody, !.since = 0, !.attempt = me.attempt + 1,
                               !.state = state]
    BY DEF Broken, ClientStates
  <1> HIDE DEF state
  <1> QED BY <1>1, <1>2, <1>3 DEF ClientStates

\* The stream of a client breaks, or it cannot connect.
LEMMA BreakStep ==
  ASSUME IInv, NEW c \in Clients, client' = [client EXCEPT ![c] = Broken(client[c])],
         UNCHANGED <<sourceVars, hubVars, serving, stopping>>
  PROVE  IInv'
  <1>1. client[c] \in ClientStates
    BY DEF IInv, ClientsOK
  <1> QED BY <1>1, BrokenState, ClientStep

\* A client connects: what it misses was committed before.
LEMMA ConnectStep == ASSUME IInv, NEW c \in Clients, Connect(c) PROVE IInv'
  <1>1. CASE Cardinality(subscribers) >= Maximum
    BY <1>1, BreakStep DEF Connect
  <1>2. CASE ~(Cardinality(subscribers) >= Maximum)
    <2>0. HubOK /\ SourceOK /\ ClientsOK /\ HintsTracked
      BY DEF IInv
    <2> DEFINE me == [client[c] EXCEPT !.state = "connected", !.id = nextID + 1,
                                       !.since = version]
    <2>1. /\ Subscribe /\ nextID < MaxID
          /\ serving' = serving \cup {nextID + 1}
          /\ client' = [client EXCEPT ![c] = me]
          /\ UNCHANGED <<version, kept, unsent, wire, notices, listening, stopping>>
      BY <1>2 DEF Connect, sourceVars
    <2>2. /\ HubOK' /\ nextID + 1 \in IDs
          /\ \A id \in IDs : id # nextID + 1 => channel'[id] = channel[id]
      BY <2>0, <2>1, SubscribeKeepsHub
    <2>3. me \in ClientStates /\ me.since = version /\ me.id = nextID + 1
      <3>1. nextID + 1 \in 0..MaxID /\ version \in Nat /\ client[c] \in ClientStates
        BY <2>0, <2>2, RealtimeAssumption DEF ClientsOK, SourceOK, IDs
      <3> QED BY <3>1 DEF ClientStates
    <2> HIDE DEF me
    <2>4. \A d \in Clients : client'[d] = IF d = c THEN me ELSE client[d]
      BY <2>0, <2>1 DEF ClientsOK
    <2>5. SourceOK' /\ ClientsOK'
      <3>1. nextID' = nextID + 1 /\ nextID \in Nat
        BY <2>0, <2>1 DEF Subscribe, HubOK
      <3>2. \A d \in Clients : client'[d].id <= nextID'
        BY <2>0, <2>3, <2>4, <3>1 DEF ClientsOK, ClientStates
      <3> QED BY <2>0, <2>1, <2>2, <2>3, <3>2 DEF SourceOK, ClientsOK
    <2>6. HintsTracked'
      <3> SUFFICES ASSUME NEW d \in Clients, NEW hint \in kept', Listens(d, hint)'
                   PROVE  OnItsWay(d, hint)'
        BY DEF HintsTracked
      <3>1. hint \in kept /\ hint.version \in 1..version /\ version \in Nat
        BY <2>0, <2>1 DEF SourceOK
      <3>2. d # c
        BY <2>3, <2>4, <3>1 DEF Listens
      <3>3. client'[d] = client[d]
        BY <2>4, <3>2
      <3>4. client[d].id \in subscribers
        <4>1. client[d].id # nextID + 1
          BY <2>0 DEF ClientsOK, ClientStates, HubOK
        <4> QED BY <2>1, <3>3, <4>1 DEF Listens, Subscribe
      <3>5. client[d].id \in IDs /\ client[d].id # nextID + 1
        <4>1. client[d].id \in 1..nextID /\ nextID \in 0..MaxID
          BY <2>0, <3>4 DEF HubOK
        <4> QED BY <4>1, RealtimeAssumption DEF IDs
      <3>6. channel'[client[d].id] = channel[client[d].id]
        BY <2>2, <3>5
      <3>7. Listens(d, hint)
        BY <3>3, <3>4 DEF Listens, Concerns
      <3>8. OnItsWay(d, hint)
        BY <2>0, <3>1, <3>7 DEF HintsTracked
      <3> QED BY <2>1, <3>3, <3>6, <3>8 DEF OnItsWay
    <2> QED BY <2>2, <2>5, <2>6 DEF IInv
  <1> QED BY <1>1, <1>2

\* The page of a client after an answer of the API, or without one.
LEMMA PageStates ==
  ASSUME NEW me \in ClientStates, version \in Nat
  PROVE  /\ Shown(me) \in ClientStates /\ Shown(me).seen = version
         /\ Shown(me).id = me.id /\ Shown(me).state = me.state
         /\ Failed(me) \in ClientStates /\ Failed(me).data = "error"
         /\ Failed(me).id = me.id /\ Failed(me).state = me.state
  BY DEF Shown, Failed, ClientStates

\* The page of a client is loaded.
LEMMA LoadStep == ASSUME IInv, NEW c \in Clients, Load(c) PROVE IInv'
  <1>0. client[c] \in ClientStates /\ version \in Nat
    BY DEF IInv, ClientsOK, SourceOK
  <1>1. UNCHANGED <<sourceVars, hubVars, serving, stopping>>
    BY DEF Load
  <1> DEFINE got == Shown(client[c])
             me == [got EXCEPT !.loaded = TRUE, !.since = version]
  <1>2. got \in ClientStates /\ got.id = client[c].id
    BY <1>0, PageStates
  <1>3. client' = [client EXCEPT ![c] = me] \/ client' = [client EXCEPT ![c] = Failed(client[c])]
    BY DEF Load
  <1> HIDE DEF got
  <1>4. CASE client' = [client EXCEPT ![c] = me]
    <2>1. me \in ClientStates /\ me.id = client[c].id /\ me.since = version
      BY <1>0, <1>2 DEF ClientStates
    <2> HIDE DEF me
    <2> QED BY <1>1, <1>4, <2>1, ClientStep
  <1>5. CASE client' = [client EXCEPT ![c] = Failed(client[c])]
    <2>1. /\ Failed(client[c]) \in ClientStates /\ Failed(client[c]).data = "error"
          /\ Failed(client[c]).id = client[c].id
      BY <1>0, PageStates
    <2> QED BY <1>1, <1>5, <2>1, ClientStep
  <1> QED BY <1>3, <1>4, <1>5

\* A client recovers, and connects or tries again.
LEMMA RecoverStep == ASSUME IInv, NEW c \in Clients, Recover(c) PROVE IInv'
  <1>0. client[c] \in ClientStates /\ version \in Nat
    BY DEF IInv, ClientsOK, SourceOK
  <1>1. UNCHANGED <<sourceVars, hubVars, serving, stopping>>
    BY DEF Recover
  <1> DEFINE got == Shown(client[c])
             none == Failed(client[c])
             me == [got EXCEPT !.state = "connecting", !.loaded = TRUE, !.dirty = FALSE]
             hidden == [none EXCEPT !.state = "connecting"]
  <1>2. /\ got \in ClientStates /\ got.id = client[c].id
        /\ none \in ClientStates /\ none.id = client[c].id
    BY <1>0, PageStates
  <1>3. \/ client' = [client EXCEPT ![c] = me]
        \/ client' = [client EXCEPT ![c] = hidden]
        \/ client' = [client EXCEPT ![c] = Broken(none)]
    BY DEF Recover
  <1> HIDE DEF got, none
  <1>4. CASE client' = [client EXCEPT ![c] = me]
    <2>1. me \in ClientStates /\ me.id = client[c].id /\ me.state = "connecting"
      BY <1>2 DEF ClientStates
    <2> HIDE DEF me
    <2> QED BY <1>1, <1>4, <2>1, ClientStep
  <1>5. CASE client' = [client EXCEPT ![c] = hidden]
    <2>1. hidden \in ClientStates /\ hidden.id = client[c].id /\ hidden.state = "connecting"
      BY <1>2 DEF ClientStates
    <2> HIDE DEF hidden
    <2> QED BY <1>1, <1>5, <2>1, ClientStep
  <1>6. CASE client' = [client EXCEPT ![c] = Broken(none)]
    BY <1>1, <1>2, <1>6, BrokenState, ClientStep
  <1> QED BY <1>3, <1>4, <1>5, <1>6

\* A client refetches what a hint has invalidated.
LEMMA RefetchStep == ASSUME IInv, NEW c \in Clients, Refetch(c) PROVE IInv'
  <1>0. client[c] \in ClientStates /\ version \in Nat
    BY DEF IInv, ClientsOK, SourceOK
  <1>1. UNCHANGED <<sourceVars, hubVars, serving, stopping>>
    BY DEF Refetch
  <1> DEFINE got == Shown(client[c])
             none == Failed(client[c])
             me == [got EXCEPT !.dirty = FALSE]
             error == [none EXCEPT !.dirty = FALSE]
  <1>2. /\ got \in ClientStates /\ got.id = client[c].id /\ got.seen = version
        /\ none \in ClientStates /\ none.id = client[c].id /\ none.data = "error"
    BY <1>0, PageStates
  <1>3. client' = [client EXCEPT ![c] = me] \/ client' = [client EXCEPT ![c] = error]
    BY DEF Refetch
  <1> HIDE DEF got, none
  <1>4. CASE client' = [client EXCEPT ![c] = me]
    <2>1. me \in ClientStates /\ me.id = client[c].id /\ me.seen = version
      BY <1>2 DEF ClientStates
    <2> HIDE DEF me
    <2> QED BY <1>1, <1>4, <2>1, ClientStep
  <1>5. CASE client' = [client EXCEPT ![c] = error]
    <2>1. error \in ClientStates /\ error.id = client[c].id /\ error.data = "error"
      BY <1>2 DEF ClientStates
    <2> HIDE DEF error
    <2> QED BY <1>1, <1>5, <2>1, ClientStep
  <1> QED BY <1>3, <1>4, <1>5

\* A client that has been connected for a while.
LEMMA StableStep == ASSUME IInv, NEW c \in Clients, Stable(c) PROVE IInv'
  <1>0. client[c] \in ClientStates
    BY DEF IInv, ClientsOK
  <1> DEFINE me == [client[c] EXCEPT !.attempt = 0]
  <1>1. /\ me \in ClientStates /\ me.state = client[c].state /\ me.id = client[c].id
        /\ me.since = client[c].since /\ me.seen = client[c].seen
        /\ me.dirty = client[c].dirty /\ me.data = client[c].data
        /\ me.page = client[c].page /\ me.loaded = client[c].loaded
    BY <1>0 DEF ClientStates
  <1>2. /\ client' = [client EXCEPT ![c] = me] /\ client[c].state = "connected"
        /\ UNCHANGED <<sourceVars, hubVars, serving, stopping>>
    BY DEF Stable
  <1> HIDE DEF me
  <1> QED BY <1>1, <1>2, ClientStep

\* A page that is not open.
LEMMA FreshState ==
  ASSUME NEW page \in Tokens \cup {NoToken}
  PROVE  /\ Fresh(page) \in ClientStates /\ Fresh(page).state = "off" /\ Fresh(page).id = Nobody
         /\ [Fresh(page) EXCEPT !.state = "connecting"] \in ClientStates
         /\ [Fresh(page) EXCEPT !.state = "connecting"].id = Nobody
         /\ [Fresh(page) EXCEPT !.state = "connecting"].state = "connecting"
  <1>1. Nobody \in 0..MaxID
    BY RealtimeAssumption DEF Nobody
  <1> QED BY <1>1 DEF Fresh, ClientStates

\* A page is left.
LEMMA StopStep == ASSUME IInv, NEW c \in Clients, Stop(c) PROVE IInv'
  <1>1. client[c].page \in Tokens \cup {NoToken}
    BY DEF IInv, ClientsOK, ClientStates
  <1>2. /\ client' = [client EXCEPT ![c] = Fresh(client[c].page)]
        /\ UNCHANGED <<sourceVars, hubVars, serving, stopping>>
    BY DEF Stop
  <1> QED BY <1>1, <1>2, FreshState, ClientStep

-----------------------------------------------------------------------------
(* The theorems. *)

\* The inductive invariant holds initially.
LEMMA InitInvariant == Init => IInv
  <1> SUFFICES ASSUME Init PROVE IInv
    OBVIOUS
  <1>1. SourceOK
    BY DEF Init, SourceOK
  <1>2. HubOK
    <2>1. Cardinality({}) = 0
      BY FS_EmptySet
    <2>2. [open |-> FALSE, buf |-> <<>>] \in ChannelStates
      BY DEF ChannelStates
    <2>3. 0 \in 0..MaxID
      BY RealtimeAssumption
    <2>4. channel \in [IDs -> ChannelStates] /\ {} = {id \in IDs : channel[id].open}
      BY <2>2 DEF Init
    <2>5. HubConsistent
      BY <2>1, <2>4 DEF Init, HubConsistent
    <2>6. nextID = 0 /\ subscribers = {} /\ active = 0 /\ panicked \in BOOLEAN
      BY DEF Init
    <2> QED BY <2>3, <2>4, <2>5, <2>6 DEF HubOK
  <1>3. ClientsOK
    <2>1. PICK page \in [Clients -> Tokens \cup {NoToken}] :
            client = [c \in Clients |-> [Fresh(page[c]) EXCEPT !.state = "connecting"]]
      BY DEF Init
    <2>2. ASSUME NEW c \in Clients PROVE client[c] \in ClientStates /\ client[c].id = Nobody
      <3>1. page[c] \in Tokens \cup {NoToken}
        BY <2>1, <2>2
      <3>2. client[c] = [Fresh(page[c]) EXCEPT !.state = "connecting"]
        BY <2>1, <2>2
      <3> QED BY <3>1, <3>2, FreshState
    <2>3. client \in [Clients -> ClientStates]
      BY <2>1, <2>2
    <2>4. \A c \in Clients : client[c].id <= nextID
      BY <2>2 DEF Init, Nobody
    <2>5. serving \subseteq IDs /\ stopping \in BOOLEAN
      BY DEF Init
    <2> QED BY <2>3, <2>4, <2>5 DEF ClientsOK
  <1>4. HintsTracked
    BY DEF Init, HintsTracked
  <1> QED BY <1>1, <1>2, <1>3, <1>4 DEF IInv

\* Every step keeps it.
LEMMA StepInvariant == IInv /\ [Next]_vars => IInv'
  <1> SUFFICES ASSUME IInv, [Next]_vars PROVE IInv'
    OBVIOUS
  <1>1. CASE Source
    BY <1>1, IndexerCommitStep, MetadataCommitStep, NotifyRefreshStep, NotifyStrayStep,
       ListenerFailsStep, RelistenStep, ReceiveStep DEF Source
  <1>2. CASE Shutdown
    BY <1>2, ShutdownStep
  <1>3. ASSUME NEW id \in IDs, Stream(id) PROVE IInv'
    BY <1>3, DeliverStep, StreamReturnsStep DEF Stream
  <1>4. ASSUME NEW c \in Clients, Client(c) PROVE IInv'
    BY <1>4, ConnectStep, BreakStep, LoadStep, RecoverStep, RefetchStep, StableStep, StopStep
       DEF Client, StreamBreaks, ConnectFails
  <1>5. CASE UNCHANGED vars
    <2>1. HubOK' /\ ClientsOK' /\ SourceOK'
      BY <1>5 DEF IInv, HubOK, ClientsOK, SourceOK, HubConsistent, vars, hubVars, sourceVars
    <2>2. HintsTracked'
      BY <1>5 DEF IInv, HintsTracked, OnItsWay, Listens, Concerns, vars, hubVars, sourceVars
    <2> QED BY <2>1, <2>2 DEF IInv
  <1> QED BY <1>1, <1>2, <1>3, <1>4, <1>5 DEF Next

\* The hub is consistent, and every hint that was not lost before the hub is somewhere on its
\* way to every client that keeps its subscription and whose page it concerns, or has been
\* answered by a refetch, successful or not (hub.go, event_routes.go, cmd/api/main.go, sse.ts).
THEOREM RealtimeInvariant == Spec => []IInv
  BY InitInvariant, StepInvariant, PTL DEF Spec

\* The exported counter counts the subscribers, their channels are open, and no channel is
\* closed twice or sent to after it was closed, for every interleaving of Publish, Close
\* and Subscribe (hub.go).
THEOREM HubIsConsistent == Spec => []HubConsistent
  <1>1. IInv => HubConsistent
    BY DEF IInv, HubOK
  <1> QED BY <1>1, RealtimeInvariant, PTL

\* A subscribed page to which nothing more is on its way shows every commit of which a hint
\* that concerns it reached the hub, or an error: Publish evicts, it never skips.
THEOREM NoHintSkipped == Spec => []HintsReach
  <1>1. ASSUME IInv PROVE HintsReach
    <2> SUFFICES ASSUME NEW c \in Clients, NEW hint \in kept, Settled(c),
                        hint.version > client[c].since, Concerns(c, hint)
                 PROVE  client[c].seen >= hint.version \/ client[c].data = "error"
      BY DEF HintsReach
    <2>1. OnItsWay(c, hint)
      BY <1>1 DEF IInv, HintsTracked, Listens, Settled
    <2> QED BY <2>1, HoldsNothing DEF OnItsWay, Settled
  <1> QED BY <1>1, RealtimeInvariant, PTL
=============================================================================
