------------------------------ MODULE Realtime ------------------------------
(***************************************************************************)
(* Refresh hints, from a commit to the clients of the API.                 *)
(*                                                                         *)
(* A process notifies PostgreSQL after a commit, and about launches and    *)
(* reorganisations inside it (indexer_store.go, adapter.go, metadata.go).  *)
(* The listener of the API filters what it receives and publishes it in    *)
(* the hub (cmd/api/main.go, realtime/hub.go), which puts it in the        *)
(* bounded channel of every subscriber and evicts one that is full.  A     *)
(* stream serves one subscription (event_routes.go).  A client             *)
(* (web/src/api/sse.ts) takes a hint that concerns its page as a reason to *)
(* refetch over REST, and recovers a broken stream by a refetch followed   *)
(* by a new connection.                                                    *)
(*                                                                         *)
(* Hints may be lost: a notification that fails, a listener that is away.  *)
(* A refetch may fail: the page then shows an error, and does not retry.   *)
(***************************************************************************)
EXTENDS Integers, Sequences, FiniteSets

CONSTANTS
  Clients,     \* clients of the event stream
  Tokens,      \* tokens
  NoToken,     \* no token: of a hint that names none, or of a page that lists all
  Maximum,     \* subscribers that the hub admits
  Buffer,      \* capacity of a subscriber's channel
  MaxNotices,  \* bound on the notifications
  MaxID,       \* bound on the subscriptions ever made
  MaxAttempts  \* retry.maxAttempts of the client

ASSUME RealtimeAssumption ==
  /\ Maximum \in Nat \ {0} /\ Buffer \in Nat \ {0} /\ MaxID \in Nat
  /\ MaxNotices \in Nat /\ MaxAttempts \in Nat \ {0}
  /\ NoToken \notin Tokens

IDs == 1..MaxID
Nobody == 0

\* The hint that a commit sends: for a token, or for all.
HintOf(kind, v, token) == [kind |-> kind, version |-> v, token |-> token]

\* A hint that is not for this deployment, or not a hint at all.
Stray == HintOf("stray", 0, NoToken)

VARIABLES
  version,     \* commits so far: what REST answers
  kept,        \* hints of the commits so far that are not lost
  unsent,      \* hints that are still to be sent
  wire,        \* notifications on their way to the listener
  notices,     \* notifications so far, with those that are still to be sent
  listening,   \* the listener has a connection
  subscribers, \* Hub.subscribers
  channel,     \* channel[id]: whether it is open, and what it buffers
  active,      \* Hub.active
  nextID,      \* Hub.nextID
  panicked,    \* a closed channel was closed again
  serving,     \* streams that run, by the id of their subscription
  stopping,    \* Server.Shutdown was called
  client       \* client[c]: the state of a client, and of its page

hubVars == <<subscribers, channel, active, nextID, panicked>>
sourceVars == <<version, kept, unsent, wire, notices, listening>>
vars == <<sourceVars, hubVars, serving, stopping, client>>

\* A client whose page is not open.
Fresh(page) ==
  [state |-> "off", id |-> Nobody, attempt |-> 0, page |-> page, data |-> "loading",
   loaded |-> FALSE, seen |-> 0, since |-> 0, dirty |-> FALSE]

Init ==
  /\ version = 0 /\ kept = {} /\ unsent = {} /\ wire = <<>> /\ notices = 0
  /\ listening = TRUE
  /\ subscribers = {}
  /\ channel = [id \in IDs |-> [open |-> FALSE, buf |-> <<>>]]
  /\ active = 0 /\ nextID = 0 /\ panicked = FALSE
  /\ serving = {}
  /\ stopping = FALSE
  /\ \E page \in [Clients -> Tokens \cup {NoToken}] :
       client = [c \in Clients |-> [Fresh(page[c]) EXCEPT !.state = "connecting"]]

-----------------------------------------------------------------------------
(* Commits, notifications and the listener.                                *)

\* PostgreSQL hands a notification to the listener, if there is one.
Notified(hint) == wire' = IF listening THEN Append(wire, hint) ELSE wire
Unheard(hint) == IF listening THEN {} ELSE {hint}

\* A transaction of the indexer.  The hint of a launch or of a recovery is sent with its
\* COMMIT; a further one, which names no token, is to be sent after it.  A transaction with
\* several launches sends more hints than here.
IndexerCommit ==
  /\ version' = version + 1
  /\ LET after == HintOf("token", version + 1, NoToken)
         inside == {HintOf("launch", version + 1, t) : t \in Tokens}
                   \cup {HintOf("reorg", version + 1, NoToken)}
     IN /\ unsent' = unsent \cup {after}
        /\ \/ notices < MaxNotices /\ notices' = notices + 1
              /\ kept' = kept \cup {after} /\ UNCHANGED wire
           \/ notices + 1 < MaxNotices /\ notices' = notices + 2
              /\ \E hint \in inside :
                   kept' = kept \cup ({after, hint} \ Unheard(hint)) /\ Notified(hint)
  /\ UNCHANGED <<listening, hubVars, serving, stopping, client>>

\* Replacement of a token's metadata or image: notifyToken is to follow.
MetadataCommit ==
  /\ notices < MaxNotices
  /\ notices' = notices + 1
  /\ version' = version + 1
  /\ \E t \in Tokens :
       LET hint == HintOf("token", version + 1, t)
       IN unsent' = unsent \cup {hint} /\ kept' = kept \cup {hint}
  /\ UNCHANGED <<wire, listening, hubVars, serving, stopping, client>>

\* pg_notify after the commit; a failure is logged and otherwise ignored.
NotifyRefresh ==
  /\ \E hint \in unsent :
       /\ unsent' = unsent \ {hint}
       /\ \/ Notified(hint) /\ kept' = kept \ Unheard(hint)
          \/ UNCHANGED wire /\ kept' = kept \ {hint}
  /\ UNCHANGED <<version, notices, listening, hubVars, serving, stopping, client>>

\* Another deployment notifies the same channel.
NotifyStray ==
  /\ notices < MaxNotices
  /\ notices' = notices + 1
  /\ Notified(Stray)
  /\ UNCHANGED <<version, kept, unsent, listening, hubVars, serving, stopping, client>>

\* The listener loses its connection, with what was on its way.
ListenerFails ==
  /\ listening
  /\ listening' = FALSE
  /\ wire' = <<>>
  /\ kept' = kept \ {wire[i] : i \in 1..Len(wire)}
  /\ UNCHANGED <<version, unsent, notices, hubVars, serving, stopping, client>>

\* listenRefreshHints tries again after a second.
Relisten ==
  /\ ~listening /\ ~stopping
  /\ listening' = TRUE
  /\ UNCHANGED <<version, kept, unsent, wire, notices, hubVars, serving, stopping, client>>

-----------------------------------------------------------------------------
(* The hub.  Every operation runs under its mutex.                         *)

\* Decode and the comparison of the scope.
ForUs(hint) == hint # Stray

Full(id) == Len(channel[id].buf) >= Buffer

\* Mutant: a subscriber that has no room loses what it has buffered, and stays.
PublishDraining(hint) ==
  /\ channel' = [id \in IDs |->
       IF id \notin subscribers THEN channel[id]
       ELSE [channel[id] EXCEPT !.buf = IF Full(id) THEN <<>> ELSE Append(@, hint)]]
  /\ UNCHANGED <<subscribers, active, nextID, panicked>>

\* Publish never waits: a subscriber that has no room is closed and removed.
Publish(hint) ==
  LET full == {id \in subscribers : Full(id)} IN
  /\ channel' = [id \in IDs |->
       CASE id \in full               -> [channel[id] EXCEPT !.open = FALSE]
         [] id \in subscribers \ full -> [channel[id] EXCEPT !.buf = Append(@, hint)]
         [] OTHER                     -> channel[id]]
  /\ subscribers' = subscribers \ full
  /\ active' = active - Cardinality(full)
  /\ panicked' = (panicked \/ \E id \in subscribers : ~channel[id].open)
  /\ UNCHANGED nextID

\* The listener receives a notification.
Receive ==
  /\ listening
  /\ wire # <<>>
  /\ wire' = Tail(wire)
  /\ IF ForUs(Head(wire)) THEN Publish(Head(wire)) ELSE UNCHANGED hubVars
  /\ UNCHANGED <<version, kept, unsent, notices, listening, serving, stopping, client>>

Subscribe ==
  /\ nextID' = nextID + 1
  /\ subscribers' = subscribers \cup {nextID + 1}
  /\ channel' = [channel EXCEPT ![nextID + 1] = [open |-> TRUE, buf |-> <<>>]]
  /\ active' = active + 1
  /\ UNCHANGED panicked

\* Mutant: the map is not asked whether the subscription is still there.
RemoveUnchecked(id) ==
  /\ subscribers' = subscribers \ {id}
  /\ channel' = [channel EXCEPT ![id] = [open |-> FALSE, buf |-> <<>>]]
  /\ active' = active - 1
  /\ panicked' = (panicked \/ ~channel[id].open)
  /\ UNCHANGED nextID

\* A subscription that is gone already is not closed again.  Nobody reads its channel any
\* more, and what it buffers goes with it.
Remove(id) ==
  /\ subscribers' = subscribers \ {id}
  /\ channel' = [channel EXCEPT ![id] = [open |-> FALSE, buf |-> <<>>]]
  /\ IF id \in subscribers
     THEN active' = active - 1 /\ panicked' = (panicked \/ ~channel[id].open)
     ELSE UNCHANGED <<active, panicked>>
  /\ UNCHANGED nextID

-----------------------------------------------------------------------------
(* Streams.                                                                *)

ClientOf(id) == {c \in Clients : client[c].id = id}

\* Mutant: the subscription is not closed when the handler returns.
EndStreamLeaking(id) ==
  /\ serving' = serving \ {id}
  /\ UNCHANGED hubVars

\* The handler returns: the deferred Close removes the subscription.
EndStream(id) ==
  /\ serving' = serving \ {id}
  /\ Remove(id)

\* queryKeyForEvent: a page of the list refetches for every hint, the page of a token, once
\* it is loaded, for those that name it.
Concerns(c, hint) ==
  client[c].page = NoToken \/ (client[c].page = hint.token /\ client[c].loaded)

\* The next buffered hint is sent.  A hint that cannot be sent ends the stream.
Deliver(id) ==
  /\ id \in serving
  /\ channel[id].buf # <<>>
  /\ IF ClientOf(id) # {}
     THEN /\ channel' = [channel EXCEPT ![id].buf = Tail(@)]
          /\ client' = [c \in Clients |->
               IF c \in ClientOf(id)
               THEN [client[c] EXCEPT !.dirty = @ \/ Concerns(c, Head(channel[id].buf)),
                                      !.attempt = 0]
               ELSE client[c]]
          /\ UNCHANGED <<subscribers, active, nextID, panicked, serving>>
     ELSE EndStream(id) /\ UNCHANGED client
  /\ UNCHANGED <<sourceVars, stopping>>

\* The channel is closed and empty, the request is cancelled (or a heartbeat fails), or
\* the server shuts down.
StreamReturns(id) ==
  /\ id \in serving
  /\ \/ ~channel[id].open /\ channel[id].buf = <<>>
     \/ ClientOf(id) = {}
     \/ stopping
  /\ EndStream(id)
  /\ UNCHANGED <<sourceVars, stopping, client>>

Shutdown ==
  /\ ~stopping
  /\ stopping' = TRUE
  /\ UNCHANGED <<sourceVars, hubVars, serving, client>>

-----------------------------------------------------------------------------
(* Clients.                                                                *)

\* Mutant: the timer of the next attempt is not set.
BrokenWithoutTimer(me) == [me EXCEPT !.id = Nobody, !.since = 0, !.attempt = @ + 1]

\* The stream of a client breaks: it closes its source and counts an attempt.
Broken(me) ==
  [me EXCEPT !.id = Nobody, !.since = 0, !.attempt = @ + 1,
             !.state = IF me.attempt + 1 >= MaxAttempts THEN "exhausted" ELSE "retrying"]

\* A client connects.  A hub at its capacity answers and ends the stream.
Connect(c) ==
  /\ client[c].state = "connecting"
  /\ ~stopping
  /\ nextID < MaxID
  /\ IF Cardinality(subscribers) >= Maximum
     THEN /\ client' = [client EXCEPT ![c] = Broken(client[c])]
          /\ UNCHANGED <<hubVars, serving>>
     ELSE /\ Subscribe
          /\ serving' = serving \cup {nextID + 1}
          /\ client' = [client EXCEPT ![c].state = "connected", ![c].id = nextID + 1,
                                      ![c].since = version]
  /\ UNCHANGED <<sourceVars, stopping>>

\* The server has ended the stream, or the connection breaks.
StreamBreaks(c) ==
  /\ client[c].state = "connected"
  /\ client' = [client EXCEPT ![c] = Broken(client[c])]
  /\ UNCHANGED <<sourceVars, hubVars, serving, stopping>>

\* An attempt to connect that the server does not answer.
ConnectFails(c) ==
  /\ client[c].state = "connecting"
  /\ client' = [client EXCEPT ![c] = Broken(client[c])]
  /\ UNCHANGED <<sourceVars, hubVars, serving, stopping>>

\* The page after an answer of the API, or without one.
Shown(me) == [me EXCEPT !.data = "shown", !.seen = version]
Failed(me) == [me EXCEPT !.data = "error"]

\* The first load of a page, which runs beside its stream.  It is not repeated.
Load(c) ==
  /\ client[c].state # "off" /\ client[c].data = "loading"
  /\ \/ client' = [client EXCEPT ![c] = [Shown(@) EXCEPT !.loaded = TRUE, !.since = version]]
     \/ client' = [client EXCEPT ![c] = Failed(@)]
  /\ UNCHANGED <<sourceVars, hubVars, serving, stopping>>

\* performRecovery: refetch the snapshot, then connect.  A failure counts as an attempt on
\* the page of a token; the list keeps it to itself, and connects.
Recover(c) ==
  /\ client[c].state = "retrying"
  /\ \/ client' = [client EXCEPT ![c] = [Shown(@) EXCEPT !.state = "connecting", !.loaded = TRUE,
                                                        !.dirty = FALSE]]
     \/ /\ client[c].page = NoToken
        /\ client' = [client EXCEPT ![c] = [Failed(@) EXCEPT !.state = "connecting"]]
     \/ /\ client[c].page # NoToken
        /\ client' = [client EXCEPT ![c] = Broken(Failed(@))]
  /\ UNCHANGED <<sourceVars, hubVars, serving, stopping>>

\* The queries that a hint has invalidated are fetched again, once.
Refetch(c) ==
  /\ client[c].dirty
  /\ \/ client' = [client EXCEPT ![c] = [Shown(@) EXCEPT !.dirty = FALSE]]
     \/ client' = [client EXCEPT ![c] = [Failed(@) EXCEPT !.dirty = FALSE]]
  /\ UNCHANGED <<sourceVars, hubVars, serving, stopping>>

\* A connection that was open for half a minute clears the attempts.
Stable(c) ==
  /\ client[c].state = "connected" /\ client[c].attempt > 0
  /\ client' = [client EXCEPT ![c].attempt = 0]
  /\ UNCHANGED <<sourceVars, hubVars, serving, stopping>>

\* The page is left.
Stop(c) ==
  /\ client[c].state # "off"
  /\ client' = [client EXCEPT ![c] = Fresh(client[c].page)]
  /\ UNCHANGED <<sourceVars, hubVars, serving, stopping>>

-----------------------------------------------------------------------------
Source ==
  \/ IndexerCommit \/ MetadataCommit \/ NotifyRefresh \/ NotifyStray
  \/ ListenerFails \/ Relisten \/ Receive
Stream(id) == Deliver(id) \/ StreamReturns(id)
Client(c) ==
  \/ Connect(c) \/ StreamBreaks(c) \/ ConnectFails(c) \/ Load(c) \/ Recover(c) \/ Refetch(c)
  \/ Stable(c) \/ Stop(c)

Next == Source \/ Shutdown \/ (\E id \in IDs : Stream(id)) \/ (\E c \in Clients : Client(c))

\* The goroutines of the API get to run, and so do the timers and requests of a client.
\* Nothing is assumed of commits, faults, shutdowns and users.
Fairness ==
  /\ WF_vars(Receive) /\ WF_vars(Relisten)
  /\ \A id \in IDs : WF_vars(Stream(id))
  /\ \A c \in Clients :
       /\ WF_vars(Connect(c)) /\ WF_vars(Recover(c)) /\ WF_vars(Refetch(c))
       /\ WF_vars(StreamBreaks(c) /\ client[c].id \notin serving)

Spec == Init /\ [][Next]_vars
FairSpec == Spec /\ Fairness

-----------------------------------------------------------------------------
(* Properties.                                                             *)

\* However publishing, eviction, unsubscribing and shutdown interleave, the counter that
\* is exported counts the subscribers, a subscriber's channel is open, and no channel is
\* closed twice or sent to after it was closed (Go panics on either).
HubConsistent ==
  /\ ~panicked
  /\ active = Cardinality(subscribers)
  /\ subscribers = {id \in IDs : channel[id].open}

\* The client is connected, its stream runs, and nothing is on its way to it.
Settled(c) ==
  /\ client[c].state = "connected"
  /\ client[c].id \in subscribers
  /\ channel[client[c].id].buf = <<>>
  /\ ~client[c].dirty
  /\ wire = <<>> /\ unsent = {}

\* Once everything is delivered, a subscribed page shows every commit after it began to
\* listen of which a hint that concerns it was not lost, or an error: a slow client is never
\* skipped, it keeps its subscription only if it was given every hint, and a later hint makes
\* up for an earlier one that was lost.
HintsReach ==
  \A c \in Clients, hint \in kept :
    Settled(c) /\ hint.version > client[c].since /\ Concerns(c, hint)
      => client[c].seen >= hint.version \/ client[c].data = "error"

\* The slot of a client that is gone, however it went, is freed for another one; after a
\* shutdown every slot is.
SlotsFreed ==
  \A id \in IDs :
    (id \in subscribers /\ (ClientOf(id) = {} \/ stopping)) ~> (id \notin subscribers)

\* A client whose stream was ended (evicted for being slow, say) is connected again, or
\* has given up after the attempts it is allowed, or has left.
EvictedReturns ==
  \A c \in Clients :
    (client[c].state \in {"connected", "retrying"} /\ client[c].id \notin serving)
      ~> (client[c].id \in serving \/ client[c].state \in {"exhausted", "off"}
            \/ stopping \/ nextID = MaxID)

\* Streams that end for whatever reason free their slot, and their clients come back.
StreamsRecover ==
  /\ SlotsFreed
  /\ EvictedReturns
=============================================================================
