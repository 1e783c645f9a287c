-------------------------- MODULE AggregationProofs --------------------------
(***************************************************************************)
(* Proofs about Aggregation, for every set of tokens and prices, every     *)
(* batch size, any number of processes that run the worker side by side    *)
(* and any number of events, recoveries and failures: what is not in the   *)
(* queue has been read, and what a statement that nothing has overtaken    *)
(* wrote is what the ledger says.                                          *)
(***************************************************************************)
EXTENDS Aggregation, FiniteSetTheorems, TLAPS

-----------------------------------------------------------------------------
(* The inductive invariant.                                                *)

TradesOf(t, l) == Cardinality(EventsOf(t, l))

Claims == [token : Tokens, gen : Nat]

WorkOK ==
  /\ claims \in [Workers -> SUBSET Claims]
  /\ computed \in [Workers -> SUBSET Claims]

\* No generation is ahead of the sequence, and only launched tokens have a row.
GenerationsUsed ==
  /\ \A t \in Tokens : dirty[t].gen <= generation
  /\ \A t \in Tokens : dirty[t].gen # 0 => Launched(t, ledger)
  /\ \A w \in Workers : \A c \in claims[w] \cup computed[w] : c.gen \in 1..generation

\* What a worker is waiting for, and what the server goes on with.
PhasesOK ==
  /\ \A w \in Workers :
       /\ pc[w] = "write" => statement[w].kind = "token"
       /\ pc[w] = "protocol" => statement[w].kind = "protocol"
       /\ statement[w].kind = "none" => statement[w] = NoStatement
  /\ \A s \in lingering : s.kind # "none"

\* Nothing was read from a version that is still to come.
VersionsUsed ==
  /\ \A t \in Tokens : changed[t] <= version /\ recovered[t] <= version /\ newest[t] <= version
  /\ totalled <= version
  /\ totalled = version \/ \E t \in Tokens : changed[t] = version

\* A row computed from a version in which the events of t were those of the ledger.
Fits(t, row) ==
  /\ row.trades = TradesOf(t, ledger)
  /\ row.recent = Recent(t, ledger, row.asOf)
  /\ row.ath >= High(t, ledger)

\* What a statement has read, running or not, is out of date only if the token has changed
\* since, and has the high of a removed trade only if the token was recovered since or a
\* statement from before the recovery has brought it back.
SoundToken(s) ==
  s.kind = "token" =>
    /\ s.token \in Tokens
    /\ s.row.read <= version
    /\ s.row.read >= changed[s.token] =>
         (s.found <=> Launched(s.token, ledger)) /\ Fits(s.token, s.row)
    /\ s.row.read >= recovered[s.token] /\ ~tainted[s.token] =>
         s.row.ath <= High(s.token, ledger)

SoundTotals(s) ==
  s.kind = "protocol" =>
    /\ s.row.read <= version
    /\ s.row.read >= version => s.row.trades = Len(ledger)

StatementsSound ==
  /\ \A w \in Workers : SoundToken(statement[w]) /\ SoundTotals(statement[w])
  /\ \A s \in lingering : SoundToken(s) /\ SoundTotals(s)

\* The same of what is stored.
StatsSound ==
  \A t \in Tokens :
    /\ stats[t].read <= version
    /\ stats[t].read >= changed[t] /\ Launched(t, ledger) => Fits(t, stats[t])
    /\ ~tainted[t] => stats[t].ath <= High(t, ledger)

TotalsSound ==
  /\ protocol.read <= version
  /\ protocol.read >= version => protocol.events = Len(ledger)

\* As long as the row has the generation of the claim, the statement for the claim has read
\* the token's last change, and some statement that wrote has.
ReadCovered ==
  \A w \in Workers : pc[w] = "write" =>
    \A c \in claims[w] :
      c.token = statement[w].token /\ dirty[c.token].gen = c.gen =>
        statement[w].row.read >= changed[c.token]

WrittenCovered ==
  \A w \in Workers : \A c \in computed[w] :
    dirty[c.token].gen = c.gen => newest[c.token] >= changed[c.token]

CleanCovered ==
  \A t \in Tokens : dirty[t].gen = 0 /\ Launched(t, ledger) => newest[t] >= changed[t]

\* The same of the totals, for all claims of a batch at once.
TotalsCovered ==
  /\ \A w \in Workers : \A c \in computed[w] : dirty[c.token].gen = c.gen =>
       /\ pc[w] = "protocol" => statement[w].row.read >= changed[c.token]
       /\ pc[w] = "complete" => totalled >= changed[c.token]
  /\ \A t \in Tokens : dirty[t].gen = 0 => totalled >= changed[t]

\* Every prefix of the ledger has a highest price for every token in it.
PricesUpTo(t, l, n) == {l[i].price : i \in {j \in 1..n : l[j].token = t}}

HasHigh(prices) == prices = {} \/ \E p \in prices : \A q \in prices : q <= p

HighExists ==
  \A t \in Tokens : \A n \in 0..Len(ledger) : HasHigh(PricesUpTo(t, ledger, n))

IInv ==
  /\ TypeOK
  /\ WorkOK
  /\ GenerationsUsed
  /\ PhasesOK
  /\ VersionsUsed
  /\ StatementsSound
  /\ StatsSound
  /\ TotalsSound
  /\ ReadCovered
  /\ WrittenCovered
  /\ CleanCovered
  /\ TotalsCovered
  /\ HighExists

-----------------------------------------------------------------------------
(* What is read from a ledger.                                             *)

Highest(prices) == IF prices = {} THEN 0 ELSE CHOOSE p \in prices : \A q \in prices : q <= p

\* The highest price depends on the prices only.
LEMMA HighOfPrices ==
  ASSUME NEW t, NEW l PROVE High(t, l) = Highest({l[i].price : i \in EventsOf(t, l)})
  BY DEF High, Highest

\* Nothing about t has changed from the ledger l to the ledger m.
Same(t, l, m) ==
  /\ Launched(t, l) <=> Launched(t, m)
  /\ TradesOf(t, l) = TradesOf(t, m)
  /\ High(t, l) = High(t, m)
  /\ \A n : Recent(t, l, n) = Recent(t, m, n)

\* Ledgers with the same events of a token agree on everything about it.
LEMMA SameEvents ==
  ASSUME NEW t, NEW l, NEW m, EventsOf(t, l) = EventsOf(t, m),
         \A i \in EventsOf(t, l) : l[i] = m[i]
  PROVE  Same(t, l, m)
  <1>1. Launched(t, l) <=> Launched(t, m)
    BY DEF Launched, EventsOf
  <1>2. TradesOf(t, l) = TradesOf(t, m)
    BY DEF TradesOf
  <1>3. {l[i].price : i \in EventsOf(t, l)} = {m[i].price : i \in EventsOf(t, m)}
    OBVIOUS
  <1>4. High(t, l) = High(t, m)
    BY <1>3, HighOfPrices
  <1>5. ASSUME NEW n PROVE Recent(t, l, n) = Recent(t, m, n)
    <2>1. {i \in EventsOf(t, l) : l[i].time + Window > n} = {i \in EventsOf(t, m) : m[i].time + Window > n}
      OBVIOUS
    <2> QED BY <2>1 DEF Recent
  <1> QED BY <1>1, <1>2, <1>4, <1>5 DEF Same

\* An event of another token changes nothing for t.
LEMMA AppendOther ==
  ASSUME NEW l \in Seq(Events), NEW e \in Events, NEW t \in Tokens, e.token # t
  PROVE  Same(t, l, Append(l, e))
  <1> DEFINE m == Append(l, e)
  <1>1. /\ DOMAIN m = 1..(Len(l) + 1) /\ DOMAIN l = 1..Len(l) /\ Len(l) \in Nat
        /\ m[Len(l) + 1] = e /\ \A i \in 1..Len(l) : m[i] = l[i]
    OBVIOUS
  <1> HIDE DEF m
  <1>2. EventsOf(t, l) = EventsOf(t, m)
    BY <1>1 DEF EventsOf
  <1>3. \A i \in EventsOf(t, l) : l[i] = m[i]
    BY <1>1, <1>2 DEF EventsOf
  <1>4. Same(t, l, m)
    BY <1>2, <1>3, SameEvents
  <1> QED BY <1>4 DEF m

\* Neither does a cut that takes no event of t away.
LEMMA CutOther ==
  ASSUME NEW l \in Seq(Events), NEW n \in 0..(Len(l) - 1), NEW t \in Tokens,
         \A i \in (n + 1)..Len(l) : l[i].token # t
  PROVE  Same(t, l, SubSeq(l, 1, n))
  <1> DEFINE m == SubSeq(l, 1, n)
  <1>1. /\ DOMAIN m = 1..n /\ DOMAIN l = 1..Len(l) /\ Len(l) \in Nat
        /\ \A i \in 1..n : m[i] = l[i]
    OBVIOUS
  <1> HIDE DEF m
  <1>2. EventsOf(t, l) = EventsOf(t, m)
    BY <1>1 DEF EventsOf
  <1>3. \A i \in EventsOf(t, l) : l[i] = m[i]
    BY <1>1, <1>2 DEF EventsOf
  <1>4. Same(t, l, m)
    BY <1>2, <1>3, SameEvents
  <1> QED BY <1>4 DEF m

\* The events of a token are finitely many.
LEMMA TradesType ==
  ASSUME NEW l \in Seq(Events), NEW t
  PROVE  TradesOf(t, l) \in Nat /\ \A n : Recent(t, l, n) \in Nat
  <1>1. EventsOf(t, l) \subseteq 1..Len(l) /\ Len(l) \in Nat
    BY DEF EventsOf
  <1>2. IsFiniteSet(1..Len(l))
    BY <1>1, FS_Interval
  <1>3. IsFiniteSet(EventsOf(t, l))
    BY <1>1, <1>2, FS_Subset
  <1>4. ASSUME NEW n PROVE Recent(t, l, n) \in Nat
    <2>1. {i \in EventsOf(t, l) : l[i].time + Window > n} \subseteq EventsOf(t, l)
      OBVIOUS
    <2> QED BY <1>3, <2>1, FS_Subset, FS_CardinalityType DEF Recent
  <1> QED BY <1>3, <1>4, FS_CardinalityType DEF TradesOf

\* The fields of an event.
LEMMA EventTypes == \A e \in Events : e.price \in Nat /\ e.token \in Tokens
  <1>1. Prices \subseteq Nat
    BY AggregationAssumption DEF Prices
  <1> QED BY <1>1 DEF Events

\* The highest price is a natural number that bounds every price, and is one of them.
LEMMA HighBounds ==
  ASSUME NEW l \in Seq(Events), NEW t, HasHigh(PricesUpTo(t, l, Len(l)))
  PROVE  /\ High(t, l) \in Nat
         /\ \A i \in EventsOf(t, l) : l[i].price <= High(t, l)
         /\ High(t, l) = 0 \/ \E i \in EventsOf(t, l) : High(t, l) = l[i].price
  <1> DEFINE prices == {l[i].price : i \in EventsOf(t, l)}
  <1>1. DOMAIN l = 1..Len(l) /\ \A i \in DOMAIN l : l[i].price \in Nat
    <2>1. \A i \in DOMAIN l : l[i] \in Events
      OBVIOUS
    <2>2. DOMAIN l = 1..Len(l)
      OBVIOUS
    <2> QED BY <2>1, <2>2, EventTypes
  <1>2. prices = PricesUpTo(t, l, Len(l))
    BY <1>1 DEF PricesUpTo, EventsOf
  <1>3. prices \subseteq Nat
    BY <1>1 DEF EventsOf
  <1>4. High(t, l) = IF prices = {} THEN 0 ELSE CHOOSE p \in prices : \A q \in prices : q <= p
    BY HighOfPrices DEF Highest
  <1>5. prices = {} \/ \E p \in prices : \A q \in prices : q <= p
    BY <1>2 DEF HasHigh
  <1>6. CASE prices = {}
    <2>1. EventsOf(t, l) = {}
      BY <1>6
    <2>2. High(t, l) = 0
      BY <1>4, <1>6
    <2> QED BY <2>1, <2>2
  <1>7. CASE prices # {}
    <2> HIDE DEF prices
    <2>1. High(t, l) \in prices /\ \A q \in prices : q <= High(t, l)
      BY <1>4, <1>5, <1>7
    <2> QED BY <1>3, <2>1 DEF prices
  <1> QED BY <1>6, <1>7

\* What RecomputeTokenStats computes.
LEMMA RecomputedFacts ==
  ASSUME NEW l \in Seq(Events), NEW t, HasHigh(PricesUpTo(t, l, Len(l))),
         NEW v \in Nat, NEW n \in Nat, NEW previous \in Nat
  PROVE  LET row == Recomputed(t, l, v, n, previous)
         IN /\ row \in StatsRow
            /\ row.trades = TradesOf(t, l) /\ row.recent = Recent(t, l, row.asOf)
            /\ row.ath >= High(t, l) /\ row.read = v
            /\ previous <= High(t, l) => row.ath <= High(t, l)
  <1>1. TradesOf(t, l) \in Nat /\ Recent(t, l, n) \in Nat /\ High(t, l) \in Nat
    BY TradesType, HighBounds
  <1> QED BY <1>1 DEF Recomputed, TradesOf, StatsRow, Max2

-----------------------------------------------------------------------------
(* The engine's transactions.                                              *)

\* The types of the fields the invariant compares.
LEMMA Fields ==
  ASSUME IInv
  PROVE  /\ \A t \in Tokens : dirty[t] \in Row /\ dirty[t].gen \in Nat /\ dirty[t].claimed \in Nat
         /\ \A t \in Tokens : stats[t] \in StatsRow /\ stats[t].read \in Nat /\ stats[t].ath \in Nat
         /\ \A w \in Workers : /\ statement[w] \in Statement
                               /\ statement[w].row.read \in Nat /\ statement[w].row.ath \in Nat
         /\ \A s \in lingering : s \in Statement /\ s.row.read \in Nat /\ s.row.ath \in Nat
         /\ \A t \in Tokens : /\ changed[t] \in Nat /\ recovered[t] \in Nat /\ newest[t] \in Nat
                              /\ tainted[t] \in BOOLEAN
         /\ version \in Nat /\ generation \in Nat /\ totalled \in Nat /\ now \in Nat
         /\ protocol.read \in Nat /\ protocol.events \in Nat
         /\ ledger \in Seq(Events) /\ Len(ledger) \in Nat
         /\ \A w \in Workers : \A c \in claims[w] \cup computed[w] : c.token \in Tokens /\ c.gen \in Nat
  <1>1. \A s \in Statement : s.row.read \in Nat /\ s.row.ath \in Nat
    BY DEF Statement, StatsRow
  <1>2. \A t \in Tokens : dirty[t] \in Row /\ dirty[t].gen \in Nat /\ dirty[t].claimed \in Nat
    BY DEF IInv, TypeOK, Row
  <1>3. \A t \in Tokens : stats[t] \in StatsRow /\ stats[t].read \in Nat /\ stats[t].ath \in Nat
    BY DEF IInv, TypeOK, StatsRow
  <1>4. \A w \in Workers : statement[w] \in Statement
    BY DEF IInv, TypeOK
  <1>5. \A s \in lingering : s \in Statement
    BY DEF IInv, TypeOK
  <1>6. \A t \in Tokens : /\ changed[t] \in Nat /\ recovered[t] \in Nat /\ newest[t] \in Nat
                         /\ tainted[t] \in BOOLEAN
    BY DEF IInv, TypeOK
  <1>7. /\ version \in Nat /\ generation \in Nat /\ totalled \in Nat /\ now \in Nat
        /\ protocol.read \in Nat /\ protocol.events \in Nat
        /\ ledger \in Seq(Events) /\ Len(ledger) \in Nat
    BY DEF IInv, TypeOK
  <1>8. \A w \in Workers : \A c \in claims[w] \cup computed[w] : c.token \in Tokens /\ c.gen \in Nat
    BY DEF IInv, WorkOK, Claims
  <1> QED BY <1>1, <1>2, <1>3, <1>4, <1>5, <1>6, <1>7, <1>8

\* The highest price of a token is a number.
LEMMA HighIsNat == ASSUME IInv, NEW t \in Tokens PROVE High(t, ledger) \in Nat
  <1>1. ledger \in Seq(Events) /\ Len(ledger) \in 0..Len(ledger)
    BY Fields
  <1>2. HasHigh(PricesUpTo(t, ledger, Len(ledger)))
    BY <1>1 DEF IInv, HighExists
  <1> QED BY <1>1, <1>2, HighBounds

\* A transaction of the engine changes the events of the tokens it touches only, and gives
\* each a new generation, or removes the row of one whose launch is gone.
Untouched(t) ==
  /\ dirty'[t] = dirty[t] /\ stats'[t] = stats[t] /\ newest'[t] = newest[t]
  /\ tainted'[t] = tainted[t] /\ changed'[t] = changed[t] /\ recovered'[t] = recovered[t]
  /\ Same(t, ledger, ledger')

Touched(t) ==
  /\ changed'[t] = version + 1
  /\ \/ recovered'[t] = version + 1
     \/ /\ recovered'[t] = recovered[t] /\ tainted'[t] = tainted[t]
        /\ High(t, ledger') \in Nat /\ High(t, ledger') >= High(t, ledger)
  /\ \/ /\ dirty'[t].gen > generation /\ dirty'[t].gen <= generation' /\ dirty'[t].gen \in Nat
        /\ Launched(t, ledger')
     \/ dirty'[t].gen = 0 /\ ~Launched(t, ledger') /\ totalled' = version + 1

\* What every statement under way has read is then older than the tokens it touches.
LEMMA EngineSound ==
  ASSUME IInv, version' = version + 1, \A t \in Tokens : Untouched(t) \/ Touched(t),
         NEW s \in Statement, SoundToken(s), SoundTotals(s)
  PROVE  SoundToken(s)' /\ SoundTotals(s)'
  <1>1. version \in Nat /\ s.row.read \in Nat /\ s.row.ath \in Nat
    BY Fields DEF Statement, StatsRow
  <1>2. SoundTotals(s)'
    BY <1>1 DEF SoundTotals
  <1>3. ASSUME s.kind = "token", Untouched(s.token) PROVE SoundToken(s)'
    BY <1>1, <1>3 DEF SoundToken, Untouched, Same, Fits
  <1>4. ASSUME s.kind = "token", Touched(s.token) PROVE SoundToken(s)'
    <2>1. s.token \in Tokens /\ s.row.read <= version
      BY <1>4 DEF SoundToken
    <2>2. High(s.token, ledger) \in Nat
      BY <2>1, HighIsNat
    <2>3. ~(s.row.read >= changed'[s.token])
      BY <1>1, <1>4, <2>1 DEF Touched
    <2>4. s.row.read >= recovered'[s.token] /\ ~tainted'[s.token] => s.row.ath <= High(s.token, ledger')
      BY <1>1, <1>4, <2>1, <2>2 DEF Touched, SoundToken
    <2>5. s.row.read <= version'
      BY <1>1, <2>1
    <2> QED BY <2>1, <2>3, <2>4, <2>5 DEF SoundToken
  <1>5. SoundToken(s)'
    <2>1. CASE s.kind = "token"
      <3>1. s.token \in Tokens
        BY <2>1 DEF SoundToken
      <3> QED BY <1>3, <1>4, <2>1, <3>1
    <2>2. CASE s.kind # "token"
      BY <2>2 DEF SoundToken
    <2> QED BY <2>1, <2>2
  <1> QED BY <1>2, <1>5

LEMMA Touching ==
  ASSUME IInv, version' = version + 1, \A t \in Tokens : Untouched(t) \/ Touched(t),
         UNCHANGED <<workVars, lingering>>, generation' \in Nat, generation' >= generation,
         totalled' \in {totalled, version + 1}
  PROVE  /\ GenerationsUsed' /\ StatementsSound' /\ PhasesOK' /\ WorkOK'
         /\ ReadCovered' /\ WrittenCovered' /\ CleanCovered' /\ TotalsCovered'
  <1>1. /\ version \in Nat /\ generation \in Nat /\ totalled \in Nat
        /\ \A t \in Tokens : dirty[t].gen \in Nat /\ changed[t] \in Nat /\ newest[t] \in Nat
        /\ \A w \in Workers : \A c \in claims[w] \cup computed[w] : c.token \in Tokens /\ c.gen \in Nat
        /\ \A w \in Workers : statement[w].row.read \in Nat
    BY Fields
  <1>2. /\ pc' = pc /\ claims' = claims /\ computed' = computed /\ statement' = statement
        /\ lingering' = lingering
    BY DEF workVars
  <1>3. \A w \in Workers : \A c \in claims[w] \cup computed[w] : c.gen >= 1 /\ c.gen <= generation
    BY <1>1 DEF IInv, GenerationsUsed
  <1>4. \A w \in Workers : \A c \in claims[w] \cup computed[w] :
          dirty'[c.token].gen = c.gen => Untouched(c.token)
    BY <1>1, <1>3 DEF Touched
  <1>5. GenerationsUsed'
    <2>1. \A t \in Tokens : dirty[t].gen <= generation
      BY DEF IInv, GenerationsUsed
    <2>2. \A t \in Tokens : dirty'[t].gen <= generation'
      BY <1>1, <2>1 DEF Touched, Untouched
    <2>3. \A t \in Tokens : dirty'[t].gen # 0 => Launched(t, ledger')
      BY DEF Touched, Untouched, IInv, GenerationsUsed, Same
    <2>4. \A w \in Workers : \A c \in claims'[w] \cup computed'[w] : c.gen \in 1..generation'
      BY <1>1, <1>2, <1>3
    <2> QED BY <2>2, <2>3, <2>4 DEF GenerationsUsed
  <1>6. StatementsSound'
    <2>1. \A w \in Workers : (SoundToken(statement[w]) /\ SoundTotals(statement[w]))'
      <3> SUFFICES ASSUME NEW w \in Workers
                   PROVE  (SoundToken(statement[w]) /\ SoundTotals(statement[w]))'
        OBVIOUS
      <3>1. PICK s \in Statement : s = statement[w]
        BY Fields
      <3>2. SoundToken(s) /\ SoundTotals(s)
        BY <3>1 DEF IInv, StatementsSound
      <3>3. SoundToken(s)' /\ SoundTotals(s)'
        BY <3>2, EngineSound
      <3>4. statement'[w] = s
        BY <1>2, <3>1
      <3> QED BY <3>3, <3>4 DEF SoundToken, SoundTotals, Fits
    <2>2. \A s \in lingering : SoundToken(s)' /\ SoundTotals(s)'
      BY EngineSound, Fields DEF IInv, StatementsSound
    <2> QED BY <1>2, <2>1, <2>2 DEF StatementsSound
  <1>7. PhasesOK' /\ WorkOK'
    BY <1>2 DEF IInv, PhasesOK, WorkOK
  <1>8. ReadCovered' /\ WrittenCovered'
    BY <1>2, <1>4 DEF IInv, ReadCovered, WrittenCovered, Untouched
  <1>9. CleanCovered'
    BY <1>1 DEF IInv, CleanCovered, Untouched, Touched, Same
  <1>10. TotalsCovered'
    <2>1. totalled' \in Nat /\ totalled' >= totalled
      BY <1>1 DEF IInv, VersionsUsed
    <2>2. \A w \in Workers : \A c \in computed'[w] : dirty'[c.token].gen = c.gen =>
            /\ pc'[w] = "protocol" => statement'[w].row.read >= changed'[c.token]
            /\ pc'[w] = "complete" => totalled' >= changed'[c.token]
      <3> SUFFICES ASSUME NEW w \in Workers, NEW c \in computed[w], dirty'[c.token].gen = c.gen
                   PROVE  /\ pc[w] = "protocol" => statement[w].row.read >= changed'[c.token]
                          /\ pc[w] = "complete" => totalled' >= changed'[c.token]
        BY <1>2
      <3>1. Untouched(c.token) /\ c.token \in Tokens
        BY <1>1, <1>4
      <3>2. dirty[c.token].gen = c.gen /\ changed'[c.token] = changed[c.token]
        BY <3>1 DEF Untouched
      <3>3. /\ pc[w] = "protocol" => statement[w].row.read >= changed[c.token]
            /\ pc[w] = "complete" => totalled >= changed[c.token]
        BY <3>2 DEF IInv, TotalsCovered
      <3> QED BY <1>1, <2>1, <3>1, <3>2, <3>3
    <2>3. \A t \in Tokens : dirty'[t].gen = 0 => totalled' >= changed'[t]
      <3> SUFFICES ASSUME NEW t \in Tokens, dirty'[t].gen = 0 PROVE totalled' >= changed'[t]
        OBVIOUS
      <3>1. CASE Untouched(t)
        <4>1. totalled >= changed[t] /\ changed'[t] = changed[t]
          BY <3>1 DEF Untouched, IInv, TotalsCovered
        <4> QED BY <1>1, <2>1, <4>1
      <3>2. CASE Touched(t)
        BY <1>1, <3>2 DEF Touched
      <3> QED BY <3>1, <3>2
    <2> QED BY <2>2, <2>3 DEF TotalsCovered
  <1> QED BY <1>5, <1>6, <1>7, <1>8, <1>9, <1>10

\* A mark changes the generation of a row only.
LEMMA MarkedRow ==
  ASSUME NEW row \in Row, NEW gen \in Nat
  PROVE  /\ Marked(row, gen) \in Row
         /\ Marked(row, gen).gen = gen /\ Marked(row, gen).claimed = row.claimed
  BY DEF Marked, Row

\* Ingestion of an event.
LEMMA IngestStep == ASSUME IInv, NEW e \in Events, Ingest(e) PROVE IInv'
  <1> DEFINE n == Len(ledger)
             t0 == e.token
  <1>1. /\ ledger \in Seq(Events) /\ n \in Nat /\ generation \in Nat /\ t0 \in Tokens
        /\ e.price \in Nat /\ version \in Nat /\ totalled \in Nat
        /\ ledger' = Append(ledger, e) /\ generation' = generation + 1 /\ version' = version + 1
        /\ dirty' = [dirty EXCEPT ![t0] = Marked(dirty[t0], generation + 1)]
        /\ changed' = [changed EXCEPT ![t0] = version + 1]
        /\ UNCHANGED <<now, stats, protocol, newest, totalled, tainted, owner, pc, claims, computed,
                       statement, lingering, recovered, recoveries, failures>>
    BY EventTypes, Fields DEF Ingest, workVars, tableVars
  <1>2. /\ dirty[t0] \in Row /\ Marked(dirty[t0], generation + 1) \in Row
        /\ Marked(dirty[t0], generation + 1).gen = generation + 1
        /\ Marked(dirty[t0], generation + 1).claimed = dirty[t0].claimed
    <2>1. dirty[t0] \in Row
      BY <1>1, Fields
    <2>2. generation + 1 \in Nat
      BY <1>1
    <2> QED BY <2>1, <2>2, MarkedRow, Zenon
  <1>3. /\ dirty' \in [Tokens -> Row]
        /\ dirty'[t0].gen = generation + 1 /\ dirty'[t0].claimed = dirty[t0].claimed
        /\ \A t \in Tokens : t # t0 => dirty'[t] = dirty[t]
    BY <1>1, <1>2 DEF IInv, TypeOK
  <1>4. /\ ledger' \in Seq(Events) /\ Len(ledger') = n + 1 /\ ledger'[n + 1] = e
        /\ \A i \in 1..n : ledger'[i] = ledger[i]
    BY <1>1
  <1>5. /\ changed' \in [Tokens -> Nat] /\ changed'[t0] = version + 1
        /\ \A t \in Tokens : t # t0 => changed'[t] = changed[t]
    BY <1>1 DEF IInv, TypeOK
  <1>6. TypeOK'
    <2>1. \A t \in Tokens : dirty'[t].claimed <= dirty'[t].gen
      <3>1. dirty[t0].claimed <= dirty[t0].gen /\ dirty[t0].gen <= generation
        BY <1>1 DEF IInv, TypeOK, GenerationsUsed
      <3>2. dirty[t0].claimed \in Nat /\ dirty[t0].gen \in Nat
        BY <1>2 DEF Row
      <3> QED BY <1>1, <1>3, <3>1, <3>2 DEF IInv, TypeOK
    <2> QED BY <1>1, <1>3, <1>4, <1>5, <2>1 DEF IInv, TypeOK
  <1>7. HighExists'
    <2> SUFFICES ASSUME NEW t \in Tokens, NEW m \in 0..(n + 1)
                 PROVE  HasHigh(PricesUpTo(t, ledger', m))
      BY <1>4 DEF HighExists
    <2>1. ASSUME NEW k \in 0..n PROVE PricesUpTo(t, ledger', k) = PricesUpTo(t, ledger, k)
      BY <1>1, <1>4 DEF PricesUpTo
    <2>2. CASE m \in 0..n
      BY <2>1, <2>2 DEF IInv, HighExists
    <2>3. CASE m = n + 1
      <3> DEFINE old == PricesUpTo(t, ledger, n)
                 new == PricesUpTo(t, ledger', n + 1)
      <3>1. HasHigh(old) /\ old \subseteq Nat
        <4>1. \A i \in 1..n : ledger[i].price \in Nat
          <5>1. \A i \in 1..n : ledger[i] \in Events
            BY <1>1
          <5> QED BY <5>1, EventTypes
        <4>2. n \in 0..Len(ledger)
          BY <1>1
        <4>3. HasHigh(old)
          BY <4>2 DEF IInv, HighExists
        <4> QED BY <4>1, <4>3 DEF PricesUpTo
      <3>2. CASE t # t0
        <4>1. new = old
          BY <1>1, <1>4, <3>2 DEF PricesUpTo
        <4> QED BY <2>3, <3>1, <4>1
      <3>3. CASE t = t0
        <4>1. new = old \cup {e.price}
          <5>1. 1..(n + 1) = (1..n) \cup {n + 1}
            BY <1>1
          <5> QED BY <1>1, <1>4, <3>3, <5>1 DEF PricesUpTo
        <4> HIDE DEF old, new
        <4>2. HasHigh(new)
          BY <1>1, <3>1, <4>1 DEF HasHigh
        <4> QED BY <2>3, <4>2 DEF new
      <3> QED BY <3>2, <3>3
    <2> QED BY <1>1, <2>2, <2>3
  <1>8. Launched(t0, ledger')
    <2>1. CASE e.launch
      <3>1. n + 1 \in DOMAIN ledger'
        BY <1>1, <1>4
      <3> QED BY <1>4, <2>1, <3>1 DEF Launched
    <2>2. CASE ~e.launch
      <3>1. Launched(t0, ledger)
        <4>1. e.launch \in BOOLEAN /\ e.launch # Launched(t0, ledger)
          BY DEF Ingest, Events
        <4>2. Launched(t0, ledger) \in BOOLEAN
          BY DEF Launched
        <4> QED BY <2>2, <4>1, <4>2
      <3>2. DOMAIN ledger = 1..n /\ DOMAIN ledger' = 1..(n + 1)
        BY <1>1, <1>4
      <3> QED BY <1>1, <1>4, <3>1, <3>2 DEF Launched
    <2> QED BY <2>1, <2>2
  <1>9. /\ High(t0, ledger') \in Nat /\ High(t0, ledger) \in Nat
        /\ High(t0, ledger') >= High(t0, ledger)
    <2>1. HasHigh(PricesUpTo(t0, ledger, Len(ledger)))
      BY <1>1 DEF IInv, HighExists
    <2>2. HasHigh(PricesUpTo(t0, ledger', Len(ledger')))
      BY <1>1, <1>4, <1>7 DEF HighExists
    <2>3. EventsOf(t0, ledger) \subseteq EventsOf(t0, ledger')
          /\ \A i \in EventsOf(t0, ledger) : ledger'[i] = ledger[i]
      BY <1>1, <1>4 DEF EventsOf
    <2>4. /\ High(t0, ledger) \in Nat
          /\ High(t0, ledger) = 0 \/ \E i \in EventsOf(t0, ledger) : High(t0, ledger) = ledger[i].price
      BY <1>1, <2>1, HighBounds
    <2>5. /\ High(t0, ledger') \in Nat
          /\ \A i \in EventsOf(t0, ledger') : ledger'[i].price <= High(t0, ledger')
      BY <1>4, <2>2, HighBounds
    <2> HIDE DEF t0
    <2> QED BY <2>3, <2>4, <2>5
  <1>10. \A t \in Tokens : Untouched(t) \/ Touched(t)
    <2> SUFFICES ASSUME NEW t \in Tokens PROVE Untouched(t) \/ Touched(t)
      OBVIOUS
    <2>1. CASE t # t0
      <3>1. Same(t, ledger, ledger')
        BY <1>1, <2>1, AppendOther
      <3> QED BY <1>1, <1>3, <1>5, <2>1, <3>1 DEF Untouched
    <2>2. CASE t = t0
      <3> HIDE DEF t0
      <3>1. dirty'[t0].gen > generation /\ dirty'[t0].gen <= generation' /\ dirty'[t0].gen \in Nat
        BY <1>1, <1>3
      <3> QED BY <1>1, <1>5, <1>8, <1>9, <2>2, <3>1 DEF Touched
    <2> QED BY <2>1, <2>2
  <1>11. /\ GenerationsUsed' /\ StatementsSound' /\ PhasesOK' /\ WorkOK'
         /\ ReadCovered' /\ WrittenCovered' /\ CleanCovered' /\ TotalsCovered'
    <2>1. generation' \in Nat /\ generation' >= generation /\ totalled' \in {totalled, version + 1}
      BY <1>1
    <2>2. UNCHANGED <<workVars, lingering>> /\ version' = version + 1
      BY <1>1 DEF workVars
    <2> QED BY <1>10, <2>1, <2>2, Touching
  <1>12. VersionsUsed'
    <2>1. \A t \in Tokens : /\ changed[t] \in Nat /\ recovered[t] \in Nat /\ newest[t] \in Nat
                            /\ changed[t] <= version /\ recovered[t] <= version /\ newest[t] <= version
      BY Fields DEF IInv, VersionsUsed
    <2>2. totalled <= version
      BY DEF IInv, VersionsUsed
    <2> QED BY <1>1, <1>5, <2>1, <2>2 DEF VersionsUsed
  <1>13. StatsSound'
    <2> SUFFICES ASSUME NEW t \in Tokens
                 PROVE  /\ stats[t].read <= version'
                        /\ stats[t].read >= changed'[t] /\ Launched(t, ledger') => Fits(t, stats[t])'
                        /\ ~tainted[t] => stats[t].ath <= High(t, ledger')
      BY <1>1 DEF StatsSound, Fits
    <2>1. /\ stats[t].read \in Nat /\ stats[t].ath \in Nat /\ stats[t].read <= version
          /\ stats[t].read >= changed[t] /\ Launched(t, ledger) => Fits(t, stats[t])
          /\ ~tainted[t] => stats[t].ath <= High(t, ledger)
      BY Fields DEF IInv, StatsSound
    <2>2. CASE t # t0
      <3>1. Same(t, ledger, ledger')
        BY <1>1, <2>2, AppendOther
      <3>2. stats'[t] = stats[t] /\ changed'[t] = changed[t]
        BY <1>1, <1>5, <2>2
      <3> QED BY <1>1, <2>1, <3>1, <3>2 DEF Same, Fits
    <2>3. CASE t = t0
      <3>1. ~(stats[t].read >= changed'[t])
        BY <1>1, <1>5, <2>1, <2>3
      <3> HIDE DEF t0
      <3> QED BY <1>1, <1>9, <2>1, <2>3, <3>1
    <2> QED BY <2>2, <2>3
  <1>14. TotalsSound'
    <2>1. protocol.read \in Nat /\ protocol.read <= version
      BY Fields DEF IInv, TotalsSound
    <2> QED BY <1>1, <2>1 DEF TotalsSound
  <1> QED BY <1>6, <1>7, <1>11, <1>12, <1>13, <1>14 DEF IInv

\* A recovery.
LEMMA RecoverStep == ASSUME IInv, NEW n \in 0..(Len(ledger) - 1), Recover(n) PROVE IInv'
  <1> DEFINE kept == SubSeq(ledger, 1, n)
             affected == {ledger[i].token : i \in (n + 1)..Len(ledger)}
             surviving == {t \in affected : Launched(t, kept)}
             many == Cardinality(surviving)
  <1>1. /\ ledger \in Seq(Events) /\ Len(ledger) \in Nat /\ generation \in Nat
        /\ n \in Nat /\ n < Len(ledger) /\ recoveries \in Nat /\ version \in Nat /\ now \in Nat
    BY DEF IInv, TypeOK
  <1>2. /\ kept \in Seq(Events) /\ Len(kept) = n /\ \A i \in 1..n : kept[i] = ledger[i]
    BY <1>1
  <1>3. affected \subseteq Tokens /\ surviving \subseteq affected
    <2>1. \A i \in 1..Len(ledger) : ledger[i] \in Events
      BY <1>1
    <2>2. (n + 1)..Len(ledger) \subseteq 1..Len(ledger)
      BY <1>1
    <2> QED BY <2>1, <2>2, EventTypes
  <1>4. many \in Nat
    <2> DEFINE f == [i \in (n + 1)..Len(ledger) |-> ledger[i].token]
    <2>1. f \in Surjection((n + 1)..Len(ledger), affected)
      BY DEF Surjection
    <2>2. IsFiniteSet((n + 1)..Len(ledger))
      BY <1>1, FS_Interval
    <2>3. IsFiniteSet(affected)
      BY <2>1, <2>2, FS_Surjection
    <2>4. IsFiniteSet(surviving)
      BY <1>3, <2>3, FS_Subset
    <2> QED BY <2>4, FS_CardinalityType
  <1>5. PICK order \in [surviving -> 1..many] :
          dirty' = [t \in Tokens |->
                      IF t \in surviving THEN Marked(dirty[t], generation + order[t])
                      ELSE IF t \in affected THEN NoRow ELSE dirty[t]]
    BY DEF Recover
  <1>6. /\ ledger' = kept /\ generation' = generation + many /\ version' = version + 1
        /\ protocol' = [events |-> Len(kept), read |-> version + 1]
        /\ recoveries' = recoveries + 1 /\ totalled' = version + 1
        /\ stats' = [t \in Tokens |->
                       IF t \in surviving THEN Recomputed(t, kept, version + 1, now, 0)
                       ELSE IF t \in affected THEN NoStats ELSE stats[t]]
        /\ changed' = [t \in Tokens |-> IF t \in affected THEN version + 1 ELSE changed[t]]
        /\ recovered' = [t \in Tokens |-> IF t \in affected THEN version + 1 ELSE recovered[t]]
        /\ newest' = [t \in Tokens |-> IF t \in affected THEN version + 1 ELSE newest[t]]
        /\ tainted' = [t \in Tokens |-> t \notin affected /\ tainted[t]]
        /\ UNCHANGED <<now, owner, pc, claims, computed, statement, lingering, failures>>
    BY DEF Recover, workVars
  <1> HIDE DEF affected, surviving, many, kept
  <1>7. HighExists'
    <2> SUFFICES ASSUME NEW t \in Tokens, NEW m \in 0..n
                 PROVE  HasHigh(PricesUpTo(t, ledger', m))
      BY <1>2, <1>6 DEF HighExists
    <2>1. PricesUpTo(t, ledger', m) = PricesUpTo(t, ledger, m)
      <3>1. \A i \in 1..m : ledger'[i] = ledger[i]
        BY <1>1, <1>2, <1>6
      <3> QED BY <3>1 DEF PricesUpTo
    <2>2. m \in 0..Len(ledger)
      BY <1>1
    <2> QED BY <2>1, <2>2 DEF IInv, HighExists
  <1>8. \A t \in Tokens : HasHigh(PricesUpTo(t, kept, Len(kept))) /\ High(t, kept) \in Nat
    <2>1. \A t \in Tokens : HasHigh(PricesUpTo(t, kept, Len(kept)))
      BY <1>1, <1>2, <1>6, <1>7 DEF HighExists
    <2> QED BY <1>2, <2>1, HighBounds
  <1>9. \A t \in surviving :
          /\ stats'[t] \in StatsRow /\ stats'[t].read = version + 1
          /\ Fits(t, stats[t])' /\ stats'[t].ath <= High(t, kept)
    <2> SUFFICES ASSUME NEW t \in surviving
                 PROVE  /\ stats'[t] \in StatsRow /\ stats'[t].read = version + 1
                        /\ Fits(t, stats[t])' /\ stats'[t].ath <= High(t, kept)
      OBVIOUS
    <2> DEFINE row == Recomputed(t, kept, version + 1, now, 0)
    <2>1. t \in Tokens /\ version + 1 \in Nat /\ now \in Nat /\ 0 \in Nat
      BY <1>1, <1>3
    <2>2. stats'[t] = row
      BY <1>6, <2>1
    <2>3. HasHigh(PricesUpTo(t, kept, Len(kept))) /\ High(t, kept) \in Nat
      BY <1>8, <2>1
    <2>4. /\ row \in StatsRow
          /\ row.trades = TradesOf(t, kept) /\ row.recent = Recent(t, kept, row.asOf)
          /\ row.ath >= High(t, kept) /\ row.read = version + 1
          /\ 0 <= High(t, kept) => row.ath <= High(t, kept)
      BY <1>2, <2>1, <2>3, RecomputedFacts
    <2>5. 0 <= High(t, kept)
      BY <2>3
    <2> HIDE DEF row
    <2> QED BY <1>6, <2>2, <2>4, <2>5 DEF Fits
  <1>10. \A t \in affected \ surviving :
           /\ dirty'[t] = NoRow /\ stats'[t] = NoStats /\ ~Launched(t, ledger')
    BY <1>3, <1>5, <1>6 DEF surviving
  <1>11. \A t \in surviving :
          /\ order[t] \in Nat /\ order[t] >= 1 /\ order[t] <= many
          /\ dirty'[t] \in Row /\ dirty'[t].gen = generation + order[t]
          /\ dirty'[t].claimed = dirty[t].claimed
    <2> SUFFICES ASSUME NEW t \in surviving
                 PROVE  /\ order[t] \in Nat /\ order[t] >= 1 /\ order[t] <= many
                        /\ dirty'[t] \in Row /\ dirty'[t].gen = generation + order[t]
                        /\ dirty'[t].claimed = dirty[t].claimed
      OBVIOUS
    <2>1. order[t] \in Nat /\ order[t] >= 1 /\ order[t] <= many
      BY <1>4, <1>5
    <2>2. dirty[t] \in Row /\ generation + order[t] \in Nat /\ t \in Tokens
      BY <1>1, <1>3, <2>1 DEF IInv, TypeOK
    <2>3. dirty'[t] = Marked(dirty[t], generation + order[t])
      BY <1>5, <2>2
    <2>4. /\ Marked(dirty[t], generation + order[t]) \in Row
          /\ Marked(dirty[t], generation + order[t]).gen = generation + order[t]
          /\ Marked(dirty[t], generation + order[t]).claimed = dirty[t].claimed
      BY <2>2, MarkedRow, Zenon
    <2> QED BY <2>1, <2>3, <2>4
  <1>12. NoRow \in Row /\ NoRow.gen = 0 /\ NoRow.claimed = 0
         /\ NoStats \in StatsRow /\ NoStats.read = 0 /\ NoStats.ath = 0
    BY DEF NoRow, Row, NoStats, StatsRow
  <1>13. \A t \in Tokens \ affected : Untouched(t)
    <2> SUFFICES ASSUME NEW t \in Tokens \ affected PROVE Untouched(t)
      OBVIOUS
    <2>1. \A i \in (n + 1)..Len(ledger) : ledger[i].token # t
      BY DEF affected
    <2>2. Same(t, ledger, ledger')
      BY <1>1, <1>6, <2>1, CutOther DEF kept
    <2>3. tainted'[t] = tainted[t]
      <3>1. tainted[t] \in BOOLEAN
        BY Fields
      <3> QED BY <1>6, <3>1
    <2> QED BY <1>3, <1>5, <1>6, <2>2, <2>3 DEF Untouched
  <1>14. \A t \in affected : Touched(t)
    <2> SUFFICES ASSUME NEW t \in affected PROVE Touched(t)
      OBVIOUS
    <2>1. changed'[t] = version + 1 /\ recovered'[t] = version + 1 /\ totalled' = version + 1
      BY <1>3, <1>6
    <2>2. CASE t \in surviving
      <3>1. Launched(t, ledger')
        BY <1>6, <2>2 DEF surviving
      <3>2. dirty'[t].gen > generation /\ dirty'[t].gen <= generation' /\ dirty'[t].gen \in Nat
        BY <1>1, <1>4, <1>6, <1>11, <2>2
      <3> QED BY <2>1, <3>1, <3>2 DEF Touched
    <2>3. CASE t \notin surviving
      BY <1>10, <1>12, <2>1, <2>3 DEF Touched
    <2> QED BY <2>2, <2>3
  <1>15. TypeOK'
    <2>1. dirty' \in [Tokens -> Row]
      BY <1>5, <1>10, <1>11, <1>12, <1>13 DEF IInv, TypeOK, Untouched
    <2>2. \A t \in Tokens : dirty'[t].claimed <= dirty'[t].gen
      <3>1. \A t \in Tokens : /\ dirty[t].claimed <= dirty[t].gen /\ dirty[t].gen <= generation
                              /\ dirty[t].claimed \in Nat /\ dirty[t].gen \in Nat
        BY DEF IInv, TypeOK, GenerationsUsed, Row
      <3>2. ASSUME NEW t \in surviving PROVE dirty'[t].claimed <= dirty'[t].gen
        BY <1>1, <1>3, <1>11, <3>1, <3>2
      <3> QED BY <1>10, <1>12, <1>13, <3>1, <3>2 DEF Untouched
    <2>3. stats' \in [Tokens -> StatsRow]
      BY <1>6, <1>9, <1>12, <1>13 DEF IInv, TypeOK, Untouched
    <2>4. protocol' \in [events : Nat, read : Nat]
      BY <1>1, <1>2, <1>6
    <2>5. /\ changed' \in [Tokens -> Nat] /\ recovered' \in [Tokens -> Nat]
          /\ newest' \in [Tokens -> Nat] /\ tainted' \in [Tokens -> BOOLEAN]
      <3>1. version + 1 \in Nat /\ \A t \in Tokens : /\ changed[t] \in Nat /\ recovered[t] \in Nat
                                                     /\ newest[t] \in Nat
        BY <1>1, Fields
      <3> QED BY <1>6, <3>1
    <2>6. ledger' \in Seq(Events) /\ generation' \in Nat /\ version' \in Nat /\ totalled' \in Nat
          /\ recoveries' \in Nat
      BY <1>1, <1>2, <1>4, <1>6
    <2> QED BY <1>6, <2>1, <2>2, <2>3, <2>4, <2>5, <2>6 DEF IInv, TypeOK
  <1>16. /\ GenerationsUsed' /\ StatementsSound' /\ PhasesOK' /\ WorkOK'
         /\ ReadCovered' /\ WrittenCovered' /\ CleanCovered' /\ TotalsCovered'
    <2>1. generation' \in Nat /\ generation' >= generation /\ totalled' \in {totalled, version + 1}
      BY <1>1, <1>4, <1>6
    <2>2. UNCHANGED <<workVars, lingering>> /\ version' = version + 1
      BY <1>6 DEF workVars
    <2>3. \A t \in Tokens : Untouched(t) \/ Touched(t)
      BY <1>13, <1>14
    <2> QED BY <2>1, <2>2, <2>3, Touching
  <1>17. VersionsUsed'
    <2>1. \A t \in Tokens : /\ changed[t] \in Nat /\ recovered[t] \in Nat /\ newest[t] \in Nat
                            /\ changed[t] <= version /\ recovered[t] <= version /\ newest[t] <= version
      BY Fields DEF IInv, VersionsUsed
    <2> QED BY <1>1, <1>6, <2>1 DEF VersionsUsed
  <1>18. StatsSound'
    <2> SUFFICES ASSUME NEW t \in Tokens
                 PROVE  (/\ stats[t].read <= version
                         /\ stats[t].read >= changed[t] /\ Launched(t, ledger) => Fits(t, stats[t])
                         /\ ~tainted[t] => stats[t].ath <= High(t, ledger))'
      BY DEF StatsSound
    <2>1. CASE t \in surviving
      <3>1. stats'[t].read = version' /\ Fits(t, stats[t])' /\ stats'[t].ath <= High(t, ledger')
        BY <1>6, <1>9, <2>1
      <3>2. version' \in Nat
        BY <1>1, <1>6
      <3> QED BY <3>1, <3>2
    <2>2. CASE t \in affected \ surviving
      <3>1. stats'[t].read = 0 /\ stats'[t].ath = 0 /\ ~Launched(t, ledger')
        BY <1>10, <1>12, <2>2
      <3>2. High(t, ledger') \in Nat
        BY <1>6, <1>8
      <3> QED BY <1>1, <1>6, <3>1, <3>2
    <2>3. CASE t \notin affected
      <3>1. /\ stats[t].read \in Nat /\ stats[t].ath \in Nat /\ stats[t].read <= version
            /\ stats[t].read >= changed[t] /\ Launched(t, ledger) => Fits(t, stats[t])
            /\ ~tainted[t] => stats[t].ath <= High(t, ledger)
        BY Fields DEF IInv, StatsSound
      <3>2. Untouched(t)
        BY <1>13, <2>3
      <3> QED BY <1>1, <1>6, <3>1, <3>2 DEF Untouched, Same, Fits
    <2> QED BY <1>3, <2>1, <2>2, <2>3
  <1>19. TotalsSound'
    BY <1>1, <1>2, <1>6 DEF TotalsSound
  <1> QED BY <1>7, <1>15, <1>16, <1>17, <1>18, <1>19 DEF IInv

-----------------------------------------------------------------------------
(* Steps that leave the ledger alone.                                      *)

Sound(s) == SoundToken(s) /\ SoundTotals(s)

\* What a statement has read stays sound, whatever the others write.
LEMMA SoundKept ==
  ASSUME UNCHANGED <<ledger, version, changed, recovered>>,
         \A t \in Tokens : tainted[t] => tainted'[t],
         NEW s, Sound(s)
  PROVE  Sound(s)'
  <1>1. CASE s.kind = "token"
    <2>1. s.token \in Tokens
      BY <1>1 DEF Sound, SoundToken
    <2>2. tainted[s.token] => tainted'[s.token]
      BY <2>1
    <2> QED BY <2>1, <2>2 DEF Sound, SoundToken, SoundTotals, Fits
  <1>2. CASE s.kind # "token"
    BY <1>2 DEF Sound, SoundToken, SoundTotals
  <1> QED BY <1>1, <1>2

\* Nothing that is stored changes.
LEMMA TablesKept ==
  ASSUME IInv, UNCHANGED <<ledger, version, changed, recovered, tableVars>>
  PROVE  /\ VersionsUsed' /\ StatsSound' /\ TotalsSound' /\ HighExists'
         /\ \A s : Sound(s) => Sound(s)'
  <1>1. VersionsUsed' /\ StatsSound' /\ TotalsSound' /\ HighExists'
    BY DEF IInv, VersionsUsed, StatsSound, TotalsSound, HighExists, Fits, tableVars
  <1>2. \A s : Sound(s) => Sound(s)'
    BY SoundKept DEF tableVars
  <1> QED BY <1>1, <1>2

\* One worker has another statement, and at most its old one lingers on.
LEMMA StatementReplaced ==
  ASSUME IInv, \A s : Sound(s) => Sound(s)', NEW w \in Workers, NEW s0,
         statement' = [statement EXCEPT ![w] = s0], Sound(s0)',
         lingering' \subseteq lingering \cup {statement[w]}
  PROVE  StatementsSound'
  <1>1. \A v \in Workers : Sound(statement[v])
    BY DEF IInv, StatementsSound, Sound
  <1>2. \A s \in lingering : Sound(s)
    BY DEF IInv, StatementsSound, Sound
  <1>3. \A v \in Workers : statement'[v] = IF v = w THEN s0 ELSE statement[v]
    BY DEF IInv, TypeOK
  <1>4. \A v \in Workers : (Sound(statement[v]))'
    <2> SUFFICES ASSUME NEW v \in Workers PROVE (Sound(statement[v]))'
      OBVIOUS
    <2>1. PICK s : s = statement'[v]
      OBVIOUS
    <2>2. Sound(s)'
      BY <1>1, <1>3, <2>1
    <2> QED BY <2>1, <2>2 DEF Sound, SoundToken, SoundTotals, Fits
  <1>5. \A s \in lingering' : Sound(s)'
    BY <1>1, <1>2
  <1> QED BY <1>4, <1>5 DEF StatementsSound, Sound

\* No statement changes.
LEMMA StatementsKept ==
  ASSUME IInv, \A s : Sound(s) => Sound(s)', statement' = statement, lingering' \subseteq lingering
  PROVE  StatementsSound'
  <1>1. \A v \in Workers : (Sound(statement[v]))'
    <2> SUFFICES ASSUME NEW v \in Workers PROVE (Sound(statement[v]))'
      OBVIOUS
    <2>1. PICK s : s = statement[v]
      OBVIOUS
    <2>2. Sound(s)'
      BY <2>1 DEF IInv, StatementsSound, Sound
    <2> QED BY <2>1, <2>2 DEF Sound, SoundToken, SoundTotals, Fits
  <1>2. \A s \in lingering' : Sound(s)'
    BY DEF IInv, StatementsSound, Sound
  <1> QED BY <1>1, <1>2 DEF StatementsSound, Sound

\* A statement that is not there.
LEMMA NoStatementFacts ==
  /\ NoStatement \in Statement /\ NoStatement.kind = "none"
  /\ Sound(NoStatement)' /\ Sound(NoStatement)
  <1>1. NoStatement \in Statement /\ NoStatement.kind = "none"
    BY DEF NoStatement, Statement, NoStats, StatsRow
  <1>2. Sound(NoStatement)' /\ Sound(NoStatement)
    BY <1>1 DEF Sound, SoundToken, SoundTotals
  <1> QED BY <1>1, <1>2

\* Time passes.
LEMMA TickStep == ASSUME IInv, Tick PROVE IInv'
  <1>1. now' \in Nat /\ UNCHANGED <<ledgerVars, queueVars, tableVars, owner, workVars, lingering, failures>>
    BY Fields DEF Tick
  <1>2. /\ TypeOK' /\ WorkOK' /\ GenerationsUsed' /\ PhasesOK'
        /\ ReadCovered' /\ WrittenCovered' /\ CleanCovered' /\ TotalsCovered'
    BY <1>1 DEF ledgerVars, queueVars, tableVars, workVars, IInv, TypeOK, WorkOK, GenerationsUsed,
                PhasesOK, ReadCovered, WrittenCovered, CleanCovered, TotalsCovered
  <1>3. /\ VersionsUsed' /\ StatsSound' /\ TotalsSound' /\ HighExists'
        /\ \A s : Sound(s) => Sound(s)'
    BY <1>1, TablesKept DEF ledgerVars
  <1>4. StatementsSound'
    BY <1>1, <1>3, StatementsKept DEF workVars
  <1> QED BY <1>2, <1>3, <1>4 DEF IInv

\* A step that changes rows of the queue, but no generation, and neither a statement nor a table.
LEMMA QueueStep ==
  ASSUME IInv, UNCHANGED <<now, ledgerVars, generation, tableVars, owner, statement, lingering, failures>>,
         dirty' \in [Tokens -> Row],
         \A t \in Tokens : dirty'[t].claimed <= dirty'[t].gen /\ dirty'[t].gen = dirty[t].gen
  PROVE  /\ VersionsUsed' /\ StatsSound' /\ TotalsSound' /\ HighExists' /\ StatementsSound'
         /\ CleanCovered' /\ (\A t \in Tokens : dirty[t].gen = 0 => totalled >= changed[t])'
         /\ \A t \in Tokens : dirty'[t].gen <= generation'
         /\ \A t \in Tokens : dirty'[t].gen # 0 => Launched(t, ledger')
  <1>1. /\ VersionsUsed' /\ StatsSound' /\ TotalsSound' /\ HighExists'
        /\ \A s : Sound(s) => Sound(s)'
    BY TablesKept DEF ledgerVars
  <1>2. StatementsSound'
    BY <1>1, StatementsKept
  <1>3. CleanCovered'
    BY DEF IInv, CleanCovered, ledgerVars, tableVars
  <1>4. (\A t \in Tokens : dirty[t].gen = 0 => totalled >= changed[t])'
    BY DEF IInv, TotalsCovered, ledgerVars, tableVars
  <1>5. /\ \A t \in Tokens : dirty'[t].gen <= generation'
        /\ \A t \in Tokens : dirty'[t].gen # 0 => Launched(t, ledger')
    BY DEF IInv, GenerationsUsed, ledgerVars
  <1> QED BY <1>1, <1>2, <1>3, <1>4, <1>5

\* A lease ends: generations and claims stay.
LEMMA ExpireLeaseStep == ASSUME IInv, NEW t \in Tokens, ExpireLease(t) PROVE IInv'
  <1>1. /\ dirty' = [dirty EXCEPT ![t].expired = TRUE]
        /\ UNCHANGED <<now, ledgerVars, generation, tableVars, owner, workVars, lingering, failures>>
    BY DEF ExpireLease
  <1>2. /\ dirty' \in [Tokens -> Row]
        /\ \A s \in Tokens : dirty'[s].gen = dirty[s].gen /\ dirty'[s].claimed = dirty[s].claimed
    BY <1>1 DEF IInv, TypeOK, Row
  <1>3. \A s \in Tokens : dirty'[s].claimed <= dirty'[s].gen
    BY <1>2 DEF IInv, TypeOK
  <1>4. /\ VersionsUsed' /\ StatsSound' /\ TotalsSound' /\ HighExists' /\ StatementsSound'
        /\ CleanCovered' /\ (\A s \in Tokens : dirty[s].gen = 0 => totalled >= changed[s])'
        /\ \A s \in Tokens : dirty'[s].gen <= generation'
        /\ \A s \in Tokens : dirty'[s].gen # 0 => Launched(s, ledger')
    <2>1. UNCHANGED <<now, ledgerVars, generation, tableVars, owner, statement, lingering, failures>>
      BY <1>1 DEF workVars
    <2> QED BY <1>2, <1>3, <2>1, QueueStep
  <1>5. TypeOK' /\ WorkOK' /\ PhasesOK'
    BY <1>1, <1>2, <1>3 DEF IInv, TypeOK, WorkOK, PhasesOK, workVars, ledgerVars, tableVars
  <1>6. \A w \in Workers : \A c \in claims[w] \cup computed[w] : c.token \in Tokens
    BY Fields
  <1>7. GenerationsUsed'
    BY <1>1, <1>4 DEF IInv, GenerationsUsed, workVars
  <1>8. ReadCovered' /\ WrittenCovered' /\ TotalsCovered'
    BY <1>1, <1>2, <1>4, <1>6 DEF IInv, ReadCovered, WrittenCovered, TotalsCovered, workVars,
                                  ledgerVars, tableVars
  <1> QED BY <1>4, <1>5, <1>7, <1>8 DEF IInv

-----------------------------------------------------------------------------
(* The worker's drain.                                                     *)

\* A claim: its generation is that of the row.
LEMMA ClaimStep == ASSUME IInv, NEW w \in Workers, Claim(w) PROVE IInv'
  <1> DEFINE eligible == {t \in Tokens : Claimable(dirty[t])}
             batch == {t \in eligible :
                         Cardinality({s \in eligible : dirty[s].gen < dirty[t].gen}) < BatchSize}
             new == {[token |-> t, gen |-> dirty[t].gen] : t \in batch}
  <1>1. /\ pc[w] = "idle"
        /\ dirty' = [t \in Tokens |-> IF t \in batch THEN ClaimedRow(dirty[t], w) ELSE dirty[t]]
        /\ claims' = [claims EXCEPT ![w] = new]
        /\ pc' = [pc EXCEPT ![w] = "compute"]
        /\ UNCHANGED <<now, ledgerVars, generation, tableVars, owner, computed, statement, lingering,
                       failures>>
    BY DEF Claim
  <1>2. \A t \in batch : t \in Tokens /\ dirty[t].gen # 0
    BY DEF Claimable
  <1> HIDE DEF batch, eligible
  <1>3. /\ dirty' \in [Tokens -> Row]
        /\ \A t \in Tokens : dirty'[t].gen = dirty[t].gen /\ dirty'[t].claimed <= dirty'[t].gen
    <2> SUFFICES ASSUME NEW t \in Tokens
                 PROVE  /\ dirty'[t] \in Row
                        /\ dirty'[t].gen = dirty[t].gen /\ dirty'[t].claimed <= dirty'[t].gen
      BY <1>1
    <2>1. dirty[t] \in Row /\ dirty[t].claimed <= dirty[t].gen
      BY DEF IInv, TypeOK
    <2>2. /\ ClaimedRow(dirty[t], w) \in Row
          /\ ClaimedRow(dirty[t], w).gen = dirty[t].gen
          /\ ClaimedRow(dirty[t], w).claimed = dirty[t].gen
          /\ dirty[t].gen \in Nat
      BY <2>1 DEF ClaimedRow, Row
    <2>3. CASE t \in batch
      BY <1>1, <2>2, <2>3
    <2>4. CASE t \notin batch
      BY <1>1, <2>1, <2>4
    <2> QED BY <2>3, <2>4
  <1>4. \A v \in Workers : /\ claims'[v] = IF v = w THEN new ELSE claims[v]
                           /\ pc'[v] = IF v = w THEN "compute" ELSE pc[v]
    BY <1>1 DEF IInv, WorkOK, TypeOK
  <1>5. \A c \in new : c \in Claims /\ c.token \in Tokens /\ c.gen = dirty[c.token].gen /\ c.gen # 0
    <2>1. \A t \in batch : dirty[t].gen \in Nat
      BY <1>2, Fields
    <2> QED BY <1>2, <2>1 DEF Claims
  <1> HIDE DEF new
  <1>6. /\ VersionsUsed' /\ StatsSound' /\ TotalsSound' /\ HighExists' /\ StatementsSound'
        /\ CleanCovered' /\ (\A s \in Tokens : dirty[s].gen = 0 => totalled >= changed[s])'
        /\ \A s \in Tokens : dirty'[s].gen <= generation'
        /\ \A s \in Tokens : dirty'[s].gen # 0 => Launched(s, ledger')
    BY <1>1, <1>3, QueueStep
  <1>7. WorkOK'
    <2>1. claims' \in [Workers -> SUBSET Claims]
      BY <1>1, <1>5 DEF IInv, WorkOK
    <2> QED BY <1>1, <2>1 DEF IInv, WorkOK
  <1>8. TypeOK'
    <2>1. pc' \in [Workers -> {"idle", "compute", "write", "protocol", "complete", "down"}]
      BY <1>1 DEF IInv, TypeOK
    <2> QED BY <1>1, <1>3, <1>7, <2>1 DEF IInv, TypeOK, WorkOK, Claims, ledgerVars, tableVars
  <1>9. GenerationsUsed'
    <2>1. \A t \in Tokens : dirty[t].gen <= generation /\ dirty[t].gen \in Nat
      BY Fields DEF IInv, GenerationsUsed
    <2>2. generation \in Nat /\ generation' = generation
      BY <1>1, Fields
    <2>3. \A c \in new : c.gen \in 1..generation
      BY <1>5, <2>1, <2>2
    <2>4. \A v \in Workers : \A c \in claims'[v] \cup computed'[v] : c.gen \in 1..generation'
      BY <1>1, <1>4, <2>2, <2>3 DEF IInv, GenerationsUsed
    <2> QED BY <1>6, <2>4 DEF GenerationsUsed
  <1>10. PhasesOK'
    BY <1>1, <1>4 DEF IInv, PhasesOK
  <1>11. \A v \in Workers : \A c \in claims[v] \cup computed[v] : c.token \in Tokens
    BY Fields
  <1>12. ReadCovered'
    <2> SUFFICES ASSUME NEW v \in Workers, pc'[v] = "write", NEW c \in claims'[v],
                        c.token = statement'[v].token, dirty'[c.token].gen = c.gen
                 PROVE  statement'[v].row.read >= changed'[c.token]
      BY DEF ReadCovered
    <2>1. v # w /\ c \in claims[v] /\ pc[v] = "write"
      BY <1>4
    <2> QED BY <1>1, <1>3, <1>11, <2>1 DEF IInv, ReadCovered, ledgerVars
  <1>13. WrittenCovered'
    BY <1>1, <1>3, <1>11 DEF IInv, WrittenCovered, ledgerVars, tableVars
  <1>14. TotalsCovered'
    <2> SUFFICES ASSUME NEW v \in Workers, NEW c \in computed'[v], dirty'[c.token].gen = c.gen
                 PROVE  /\ pc'[v] = "protocol" => statement'[v].row.read >= changed'[c.token]
                        /\ pc'[v] = "complete" => totalled' >= changed'[c.token]
      BY <1>6 DEF TotalsCovered
    <2>1. /\ c \in computed[v] /\ dirty[c.token].gen = c.gen
          /\ pc'[v] \in {"protocol", "complete"} => pc'[v] = pc[v]
      BY <1>1, <1>3, <1>4, <1>11
    <2> QED BY <1>1, <2>1 DEF IInv, TotalsCovered, ledgerVars, tableVars
  <1> QED BY <1>6, <1>7, <1>8, <1>9, <1>10, <1>12, <1>13, <1>14 DEF IInv

Places == {"idle", "compute", "write", "protocol", "complete", "down"}

\* A step of one worker that changes neither the queue nor a table: it drops claims, or it
\* starts a statement that reads the present version, or it loses its statement.
LEMMA WorkStep ==
  ASSUME IInv, UNCHANGED <<now, ledgerVars, queueVars, tableVars>>,
         NEW w \in Workers, NEW p \in Places \ {"complete"}, NEW s0 \in Statement, Sound(s0)',
         NEW cl \in SUBSET claims[w], NEW co \in SUBSET computed[w],
         pc' = [pc EXCEPT ![w] = p], statement' = [statement EXCEPT ![w] = s0],
         claims' = [claims EXCEPT ![w] = cl], computed' = [computed EXCEPT ![w] = co],
         lingering' \subseteq lingering \cup ({statement[w]} \ {NoStatement}),
         failures' \in Nat, owner' \in Workers,
         p = "write" => s0.kind = "token" /\ s0.row.read = version,
         p = "protocol" => s0.kind = "protocol" /\ s0.row.read = version,
         s0.kind = "none" => s0 = NoStatement
  PROVE  IInv'
  <1>1. \A v \in Workers :
          /\ pc'[v] = IF v = w THEN p ELSE pc[v]
          /\ statement'[v] = IF v = w THEN s0 ELSE statement[v]
          /\ claims'[v] = IF v = w THEN cl ELSE claims[v]
          /\ computed'[v] = IF v = w THEN co ELSE computed[v]
    BY DEF IInv, TypeOK, WorkOK
  <1>2. /\ ledger' = ledger /\ version' = version /\ changed' = changed /\ recovered' = recovered
        /\ dirty' = dirty /\ generation' = generation /\ stats' = stats /\ protocol' = protocol
        /\ newest' = newest /\ totalled' = totalled /\ tainted' = tainted /\ recoveries' = recoveries
        /\ now' = now
    BY DEF ledgerVars, queueVars, tableVars
  <1>3. /\ VersionsUsed' /\ StatsSound' /\ TotalsSound' /\ HighExists'
        /\ \A s : Sound(s) => Sound(s)'
    BY <1>2, TablesKept
  <1>4. StatementsSound'
    BY <1>3, StatementReplaced
  <1>5. WorkOK'
    <2>1. cl \subseteq Claims /\ co \subseteq Claims
      BY DEF IInv, WorkOK
    <2> QED BY <2>1 DEF IInv, WorkOK
  <1>6. TypeOK'
    <2>1. pc' \in [Workers -> Places] /\ statement' \in [Workers -> Statement]
      BY DEF IInv, TypeOK, Places
    <2>2. statement[w] \in Statement
      BY Fields
    <2>3. lingering' \subseteq Statement
      BY <2>2 DEF IInv, TypeOK
    <2> QED BY <1>2, <1>5, <2>1, <2>3 DEF IInv, TypeOK, WorkOK, Claims, Places
  <1>7. GenerationsUsed'
    BY <1>1, <1>2 DEF IInv, GenerationsUsed
  <1>8. PhasesOK'
    BY <1>1 DEF IInv, PhasesOK
  <1>9. \A v \in Workers : \A c \in claims[v] \cup computed[v] :
          /\ c.token \in Tokens /\ changed[c.token] \in Nat
          /\ changed[c.token] <= version /\ version >= changed[c.token]
    BY Fields DEF IInv, VersionsUsed
  <1>10. ReadCovered'
    <2> SUFFICES ASSUME NEW v \in Workers, pc'[v] = "write", NEW c \in claims'[v],
                        c.token = statement'[v].token, dirty'[c.token].gen = c.gen
                 PROVE  statement'[v].row.read >= changed'[c.token]
      BY DEF ReadCovered
    <2>1. CASE v = w
      BY <1>1, <1>2, <1>9, <2>1
    <2>2. CASE v # w
      BY <1>1, <1>2, <2>2 DEF IInv, ReadCovered
    <2> QED BY <2>1, <2>2
  <1>11. WrittenCovered'
    BY <1>1, <1>2 DEF IInv, WrittenCovered
  <1>12. CleanCovered'
    BY <1>2 DEF IInv, CleanCovered
  <1>13. TotalsCovered'
    <2>1. \A t \in Tokens : dirty'[t].gen = 0 => totalled' >= changed'[t]
      BY <1>2 DEF IInv, TotalsCovered
    <2> SUFFICES ASSUME NEW v \in Workers, NEW c \in computed'[v], dirty'[c.token].gen = c.gen
                 PROVE  /\ pc'[v] = "protocol" => statement'[v].row.read >= changed'[c.token]
                        /\ pc'[v] = "complete" => totalled' >= changed'[c.token]
      BY <2>1 DEF TotalsCovered
    <2>2. CASE v = w
      BY <1>1, <1>2, <1>9, <2>2
    <2>3. CASE v # w
      BY <1>1, <1>2, <2>3 DEF IInv, TotalsCovered
    <2> QED BY <2>2, <2>3
  <1> QED BY <1>3, <1>4, <1>5, <1>6, <1>7, <1>8, <1>10, <1>11, <1>12, <1>13 DEF IInv

\* The statement for one claim takes its snapshot.
LEMMA BeginComputeStep ==
  ASSUME IInv, NEW w \in Workers, NEW c \in claims[w], BeginCompute(w, c) PROVE IInv'
  <1> DEFINE t == c.token
             row == Recomputed(t, ledger, version, now, stats[t].ath)
  <1>1. /\ statement' = [statement EXCEPT ![w] = TokenStatement(t)] /\ pc' = [pc EXCEPT ![w] = "write"]
        /\ UNCHANGED <<now, ledgerVars, queueVars, tableVars, owner, claims, computed, lingering, failures>>
    BY DEF BeginCompute
  <1>2. /\ t \in Tokens /\ stats[t].ath \in Nat /\ version \in Nat /\ now \in Nat
        /\ ledger \in Seq(Events) /\ Len(ledger) \in 0..Len(ledger)
    BY Fields
  <1>3. HasHigh(PricesUpTo(t, ledger, Len(ledger))) /\ High(t, ledger) \in Nat
    BY <1>2, HighIsNat DEF IInv, HighExists
  <1>4. /\ row \in StatsRow
        /\ row.trades = TradesOf(t, ledger) /\ row.recent = Recent(t, ledger, row.asOf)
        /\ row.ath >= High(t, ledger) /\ row.read = version
        /\ stats[t].ath <= High(t, ledger) => row.ath <= High(t, ledger)
    BY <1>2, <1>3, RecomputedFacts
  <1>5. Launched(t, ledger) \in BOOLEAN
    BY DEF Launched
  <1> HIDE DEF row
  <1>6. PICK s0 \in Statement :
          /\ s0 = TokenStatement(t) /\ s0.kind = "token" /\ s0.token = t /\ s0.row = row
          /\ s0.found = Launched(t, ledger)
    <2>1. /\ TokenStatement(t) \in Statement /\ TokenStatement(t).kind = "token"
          /\ TokenStatement(t).token = t /\ TokenStatement(t).row = row
          /\ TokenStatement(t).found = Launched(t, ledger)
      BY <1>2, <1>4, <1>5 DEF TokenStatement, Statement, row
    <2> QED BY <2>1
  <1> HIDE DEF t
  <1>7. Sound(s0)
    <2>1. ~tainted[t] => stats[t].ath <= High(t, ledger)
      BY <1>2 DEF IInv, StatsSound
    <2>2. Fits(t, row) /\ version <= version
      BY <1>2, <1>4 DEF Fits
    <2> QED BY <1>2, <1>4, <1>6, <2>1, <2>2 DEF Sound, SoundToken, SoundTotals
  <1>8. Sound(s0)'
    <2>1. UNCHANGED <<ledger, version, changed, recovered>> /\ tainted' = tainted
      BY <1>1 DEF ledgerVars, tableVars
    <2> QED BY <1>7, <2>1, SoundKept
  <1>9. /\ claims' = [claims EXCEPT ![w] = claims[w]] /\ computed' = [computed EXCEPT ![w] = computed[w]]
        /\ failures' \in Nat /\ owner' \in Workers
    BY <1>1 DEF IInv, WorkOK, TypeOK
  <1>10. /\ claims[w] \in SUBSET claims[w] /\ computed[w] \in SUBSET computed[w]
         /\ lingering' \subseteq lingering \cup ({statement[w]} \ {NoStatement})
         /\ "write" \in Places \ {"complete"}
    BY <1>1 DEF Places
  <1>11. s0.row.read = version
    BY <1>4, <1>6
  <1>12. UNCHANGED <<now, ledgerVars, queueVars, tableVars>>
    BY <1>1
  <1>13. statement' = [statement EXCEPT ![w] = s0] /\ pc' = [pc EXCEPT ![w] = "write"]
    BY <1>1, <1>6
  <1> QED BY <1>6, <1>8, <1>9, <1>10, <1>11, <1>12, <1>13, WorkStep

\* The statement of a worker is gone, and its client with it.
LEMMA AbandonStep ==
  ASSUME IInv, NEW w \in Workers, Abandon(w), NEW p \in {"idle", "compute", "down"},
         NEW cl \in SUBSET claims[w], NEW co \in SUBSET computed[w], pc' = [pc EXCEPT ![w] = p],
         claims' = [claims EXCEPT ![w] = cl], computed' = [computed EXCEPT ![w] = co],
         failures' \in Nat
  PROVE  IInv'
  <1>1. /\ statement' = [statement EXCEPT ![w] = NoStatement]
        /\ lingering' \subseteq lingering \cup ({statement[w]} \ {NoStatement})
        /\ UNCHANGED <<now, ledgerVars, queueVars, tableVars, owner>>
    BY DEF Abandon
  <1>2. NoStatement \in Statement /\ NoStatement.kind = "none" /\ Sound(NoStatement)'
    BY NoStatementFacts
  <1>3. p \in Places \ {"complete"} /\ p # "write" /\ p # "protocol"
    BY DEF Places
  <1>4. owner' \in Workers
    BY <1>1 DEF IInv, TypeOK
  <1> QED BY <1>1, <1>2, <1>3, <1>4, WorkStep

LEMMA FaultStep == ASSUME IInv, NEW w \in Workers, Fault(w) PROVE IInv'
  <1>1. failures \in Nat /\ failures + 1 \in Nat
    BY DEF IInv, TypeOK
  <1>2. /\ claims = [claims EXCEPT ![w] = claims[w]] /\ computed = [computed EXCEPT ![w] = computed[w]]
    BY DEF IInv, WorkOK
  <1>3. ASSUME NEW c \in claims[w], FailCompute(w, c) PROVE IInv'
    <2>1. /\ Abandon(w) /\ failures' = failures + 1 /\ pc' = [pc EXCEPT ![w] = "compute"]
          /\ claims' = [claims EXCEPT ![w] = claims[w] \ {c}]
          /\ computed' = [computed EXCEPT ![w] = computed[w]]
      BY <1>2, <1>3 DEF FailCompute
    <2>2. claims[w] \ {c} \in SUBSET claims[w] /\ computed[w] \in SUBSET computed[w]
      OBVIOUS
    <2> QED BY <1>1, <2>1, <2>2, AbandonStep
  <1>4. ASSUME FailProtocol(w) PROVE IInv'
    <2>1. /\ Abandon(w) /\ failures' = failures + 1 /\ pc' = [pc EXCEPT ![w] = "idle"]
          /\ claims' = [claims EXCEPT ![w] = claims[w]]
          /\ computed' = [computed EXCEPT ![w] = {}]
      BY <1>2, <1>4 DEF FailProtocol
    <2>2. claims[w] \in SUBSET claims[w] /\ {} \in SUBSET computed[w]
      OBVIOUS
    <2> QED BY <1>1, <2>1, <2>2, AbandonStep
  <1>5. ASSUME Exit(w) PROVE IInv'
    <2>1. /\ Abandon(w) /\ failures' \in Nat /\ pc' = [pc EXCEPT ![w] = "down"]
          /\ claims' = [claims EXCEPT ![w] = {}]
          /\ computed' = [computed EXCEPT ![w] = {}]
      BY <1>1, <1>5 DEF Exit
    <2>2. {} \in SUBSET claims[w] /\ {} \in SUBSET computed[w]
      OBVIOUS
    <2> QED BY <2>1, <2>2, AbandonStep
  <1> QED BY <1>3, <1>4, <1>5 DEF Fault

\* The next process.
LEMMA StartStep == ASSUME IInv, Start PROVE IInv'
  <1> DEFINE w == owner + 1
  <1>1. /\ w \in Workers /\ owner' = w /\ pc' = [pc EXCEPT ![w] = "idle"]
        /\ UNCHANGED <<now, ledgerVars, queueVars, tableVars, claims, computed, statement, lingering>>
    <2>1. owner \in 1..(MaxFailures + 1) /\ MaxFailures \in Nat /\ owner <= MaxFailures
      BY AggregationAssumption DEF Start, IInv, TypeOK, Workers
    <2>2. w \in Workers
      BY <2>1 DEF Workers
    <2> QED BY <2>2 DEF Start
  <1>2. failures' \in Nat
    BY DEF Start, IInv, TypeOK
  <1> HIDE DEF w
  <1>3. /\ claims' = [claims EXCEPT ![w] = claims[w]] /\ computed' = [computed EXCEPT ![w] = computed[w]]
        /\ statement' = [statement EXCEPT ![w] = statement[w]]
    BY <1>1 DEF IInv, WorkOK, TypeOK
  <1>4. PICK s0 \in Statement : s0 = statement[w]
    BY <1>1, Fields
  <1>5. Sound(s0) /\ (s0.kind = "none" => s0 = NoStatement)
    BY <1>1, <1>4 DEF IInv, StatementsSound, Sound, PhasesOK
  <1>6. Sound(s0)'
    <2>1. UNCHANGED <<ledger, version, changed, recovered>> /\ tainted' = tainted
      BY <1>1 DEF ledgerVars, tableVars
    <2> QED BY <1>5, <2>1, SoundKept
  <1>7. /\ claims[w] \in SUBSET claims[w] /\ computed[w] \in SUBSET computed[w]
        /\ lingering' \subseteq lingering \cup ({statement[w]} \ {NoStatement})
        /\ "idle" \in Places \ {"complete"}
    BY <1>1 DEF Places
  <1>8. statement' = [statement EXCEPT ![w] = s0]
    BY <1>3, <1>4
  <1>9. owner' \in Workers /\ UNCHANGED <<now, ledgerVars, queueVars, tableVars>>
    BY <1>1
  <1>10. w \in Workers /\ pc' = [pc EXCEPT ![w] = "idle"]
    BY <1>1
  <1>11. claims' = [claims EXCEPT ![w] = claims[w]] /\ computed' = [computed EXCEPT ![w] = computed[w]]
    BY <1>3
  <1> QED BY <1>2, <1>4, <1>5, <1>6, <1>7, <1>8, <1>9, <1>10, <1>11, WorkStep

\* The totals are read, or nothing was computed.
LEMMA BeginProtocolStep == ASSUME IInv, NEW w \in Workers, BeginProtocol(w) PROVE IInv'
  <1>1. /\ UNCHANGED <<now, ledgerVars, queueVars, tableVars, owner, claims, computed, lingering, failures>>
    BY DEF BeginProtocol
  <1>2. /\ claims' = [claims EXCEPT ![w] = claims[w]] /\ computed' = [computed EXCEPT ![w] = computed[w]]
        /\ failures' \in Nat /\ owner' \in Workers
    BY <1>1 DEF IInv, WorkOK, TypeOK
  <1>3. /\ claims[w] \in SUBSET claims[w] /\ computed[w] \in SUBSET computed[w]
        /\ lingering' \subseteq lingering \cup ({statement[w]} \ {NoStatement})
        /\ "idle" \in Places \ {"complete"} /\ "protocol" \in Places \ {"complete"}
    BY <1>1 DEF Places
  <1>4. UNCHANGED <<ledger, version, changed, recovered>> /\ tainted' = tainted
        /\ UNCHANGED <<now, ledgerVars, queueVars, tableVars>>
    BY <1>1 DEF ledgerVars, tableVars
  <1>5. CASE computed[w] = {}
    <2>1. pc' = [pc EXCEPT ![w] = "idle"] /\ statement' = [statement EXCEPT ![w] = statement[w]]
      BY <1>5 DEF BeginProtocol, IInv, TypeOK
    <2>2. PICK s0 \in Statement : s0 = statement[w]
      BY Fields
    <2>3. Sound(s0) /\ (s0.kind = "none" => s0 = NoStatement)
      BY <2>2 DEF IInv, StatementsSound, Sound, PhasesOK
    <2>4. Sound(s0)'
      BY <1>4, <2>3, SoundKept
    <2>5. statement' = [statement EXCEPT ![w] = s0]
      BY <2>1, <2>2
    <2> QED BY <1>2, <1>3, <1>4, <2>1, <2>2, <2>3, <2>4, <2>5, WorkStep
  <1>6. CASE computed[w] # {}
    <2>1. PICK s0 \in Statement :
            /\ s0 = ProtocolStatement /\ s0.kind = "protocol" /\ s0.row.read = version
            /\ s0.row.trades = Len(ledger) /\ version \in Nat
      <3>1. version \in Nat /\ Len(ledger) \in Nat
        BY Fields
      <3>2. /\ ProtocolStatement \in Statement /\ ProtocolStatement.kind = "protocol"
            /\ ProtocolStatement.row.read = version /\ ProtocolStatement.row.trades = Len(ledger)
        BY <3>1 DEF ProtocolStatement, Statement, StatsRow, NoStats
      <3> QED BY <3>1, <3>2
    <2>2. pc' = [pc EXCEPT ![w] = "protocol"] /\ statement' = [statement EXCEPT ![w] = s0]
      BY <1>6, <2>1 DEF BeginProtocol
    <2>3. Sound(s0)
      BY <2>1 DEF Sound, SoundToken, SoundTotals
    <2>4. Sound(s0)'
      BY <1>4, <2>3, SoundKept
    <2> QED BY <1>2, <1>3, <1>4, <2>1, <2>2, <2>4, WorkStep
  <1> QED BY <1>5, <1>6

-----------------------------------------------------------------------------
(* Statements that end.                                                    *)

\* A statement writes the statistics of its token, or nothing.
LEMMA TokenWrite ==
  ASSUME IInv, UNCHANGED <<ledger, version, changed, recovered>>,
         NEW s \in Statement, Sound(s), s.kind = "token", EndTokenStatement(s)
  PROVE  /\ stats' \in [Tokens -> StatsRow] /\ newest' \in [Tokens -> Nat]
         /\ tainted' \in [Tokens -> BOOLEAN] /\ UNCHANGED <<protocol, totalled>>
         /\ VersionsUsed' /\ StatsSound' /\ TotalsSound' /\ HighExists'
         /\ \A r : Sound(r) => Sound(r)'
         /\ \A t \in Tokens : newest'[t] \in Nat /\ newest'[t] >= newest[t]
         /\ s.found /\ Launched(s.token, ledger) => newest'[s.token] >= s.row.read
  <1> DEFINE u == s.token
  <1>1. /\ u \in Tokens /\ s.row \in StatsRow /\ s.row.read \in Nat /\ s.row.ath \in Nat
        /\ s.row.read <= version /\ s.found \in BOOLEAN
    BY DEF Sound, SoundToken, Statement, StatsRow
  <1>2. /\ version \in Nat
        /\ \A t \in Tokens : /\ newest[t] \in Nat /\ newest[t] <= version /\ tainted[t] \in BOOLEAN
                             /\ recovered[t] \in Nat
    BY Fields DEF IInv, VersionsUsed
  <1>3. UNCHANGED <<protocol, totalled>>
    BY DEF EndTokenStatement
  <1>4. TotalsSound' /\ HighExists'
    BY <1>3 DEF IInv, TotalsSound, HighExists
  <1>5. CASE s.found /\ Launched(u, ledger)
    <2>1. /\ stats' = [stats EXCEPT ![u] = s.row]
          /\ newest' = [newest EXCEPT ![u] = Max2(newest[u], s.row.read)]
          /\ tainted' = [tainted EXCEPT ![u] = tainted[u] \/ s.row.read < recovered[u]]
      BY <1>5 DEF EndTokenStatement, Orphaned, WriteStats
    <2>2. /\ Max2(newest[u], s.row.read) \in Nat /\ Max2(newest[u], s.row.read) >= newest[u]
          /\ Max2(newest[u], s.row.read) >= s.row.read /\ Max2(newest[u], s.row.read) <= version
      BY <1>1, <1>2 DEF Max2
    <2> HIDE DEF u
    <2>3. /\ stats' \in [Tokens -> StatsRow] /\ newest' \in [Tokens -> Nat]
          /\ tainted' \in [Tokens -> BOOLEAN]
      BY <1>1, <1>2, <2>1, <2>2 DEF IInv, TypeOK
    <2>4. \A t \in Tokens : /\ stats'[t] = IF t = u THEN s.row ELSE stats[t]
                            /\ newest'[t] = IF t = u THEN Max2(newest[u], s.row.read) ELSE newest[t]
                            /\ tainted[t] => tainted'[t]
                            /\ t # u => tainted'[t] = tainted[t]
      BY <1>1, <1>2, <2>1 DEF IInv, TypeOK
    <2>5. ~tainted'[u] => ~tainted[u] /\ s.row.read >= recovered[u]
      <3>1. tainted'[u] = (tainted[u] \/ s.row.read < recovered[u])
        BY <1>1, <2>1 DEF IInv, TypeOK
      <3>2. s.row.read \in Nat /\ recovered[u] \in Nat
        BY <1>1, <1>2
      <3>3. s.row.read < recovered[u] \/ s.row.read >= recovered[u]
        BY <3>2
      <3> QED BY <3>1, <3>3, Zenon
    <2>6. \A t \in Tokens : newest'[t] \in Nat /\ newest'[t] >= newest[t] /\ newest'[t] <= version
      BY <1>2, <2>2, <2>4
    <2>7. VersionsUsed'
      BY <1>3, <2>6 DEF IInv, VersionsUsed
    <2>8. \A r : Sound(r) => Sound(r)'
      BY <2>4, SoundKept
    <2>9. StatsSound'
      <3> SUFFICES ASSUME NEW t \in Tokens
                   PROVE  (/\ stats[t].read <= version
                           /\ stats[t].read >= changed[t] /\ Launched(t, ledger) => Fits(t, stats[t])
                           /\ ~tainted[t] => stats[t].ath <= High(t, ledger))'
        BY DEF StatsSound
      <3>1. CASE t = u
        <4>1. stats'[t] = s.row
          BY <2>4, <3>1
        <4>2. s.row.read >= changed[u] => Fits(u, s.row)
          BY DEF Sound, SoundToken, u
        <4>3. s.row.read >= recovered[u] /\ ~tainted[u] => s.row.ath <= High(u, ledger)
          BY DEF Sound, SoundToken, u
        <4>4. stats'[t].read <= version'
          BY <1>1, <4>1
        <4>5. ~tainted'[t] => stats'[t].ath <= High(t, ledger')
          BY <2>5, <3>1, <4>1, <4>3
        <4>6. stats'[t].read >= changed'[t] => Fits(t, stats[t])'
          BY <3>1, <4>1, <4>2 DEF Fits
        <4> QED BY <4>4, <4>5, <4>6
      <3>2. CASE t # u
        <4>1. stats'[t] = stats[t] /\ tainted'[t] = tainted[t]
          BY <2>4, <3>2
        <4> QED BY <4>1 DEF IInv, StatsSound, Fits
      <3> QED BY <3>1, <3>2
    <2>10. newest'[u] >= s.row.read
      BY <1>1, <2>2, <2>4
    <2> QED BY <1>3, <1>4, <2>3, <2>6, <2>7, <2>8, <2>9, <2>10 DEF u
  <1>6. CASE ~(s.found /\ Launched(u, ledger))
    <2>1. UNCHANGED <<stats, newest, tainted>>
      BY <1>6 DEF EndTokenStatement, Orphaned
    <2>2. /\ VersionsUsed' /\ StatsSound' /\ \A r : Sound(r) => Sound(r)'
      BY <1>3, <2>1, TablesKept DEF tableVars
    <2>3. \A t \in Tokens : newest'[t] \in Nat /\ newest'[t] >= newest[t]
      BY <1>2, <2>1
    <2> QED BY <1>3, <1>4, <1>6, <2>1, <2>2, <2>3 DEF IInv, TypeOK
  <1> QED BY <1>5, <1>6

\* A statement writes the protocol totals.
LEMMA ProtocolWrite ==
  ASSUME IInv, UNCHANGED <<ledger, version, changed, recovered>>,
         NEW s \in Statement, Sound(s), s.kind = "protocol", EndProtocolStatement(s)
  PROVE  /\ protocol' \in [events : Nat, read : Nat] /\ totalled' \in Nat
         /\ UNCHANGED <<stats, newest, tainted>>
         /\ VersionsUsed' /\ StatsSound' /\ TotalsSound' /\ HighExists'
         /\ \A r : Sound(r) => Sound(r)'
         /\ totalled' >= totalled /\ totalled' >= s.row.read
  <1>1. /\ s.row.read \in Nat /\ s.row.trades \in Nat /\ s.row.read <= version
        /\ s.row.read >= version => s.row.trades = Len(ledger)
    BY DEF Sound, SoundTotals, Statement, StatsRow
  <1>2. version \in Nat /\ totalled \in Nat /\ totalled <= version
    BY Fields DEF IInv, VersionsUsed
  <1>3. /\ protocol' = [events |-> s.row.trades, read |-> s.row.read]
        /\ totalled' = Max2(totalled, s.row.read) /\ UNCHANGED <<stats, newest, tainted>>
    BY DEF EndProtocolStatement
  <1>4. /\ totalled' \in Nat /\ totalled' >= totalled /\ totalled' >= s.row.read
        /\ totalled' <= version /\ (totalled = version => totalled' = version)
    BY <1>1, <1>2, <1>3 DEF Max2
  <1>5. VersionsUsed'
    BY <1>3, <1>4 DEF IInv, VersionsUsed
  <1>6. StatsSound' /\ HighExists'
    BY <1>3 DEF IInv, StatsSound, HighExists, Fits
  <1>7. TotalsSound'
    BY <1>1, <1>3 DEF TotalsSound
  <1>8. \A r : Sound(r) => Sound(r)'
    BY <1>3, SoundKept
  <1> QED BY <1>1, <1>3, <1>4, <1>5, <1>6, <1>7, <1>8

\* The statement for one claim ends.
LEMMA EndComputeStep ==
  ASSUME IInv, NEW w \in Workers, NEW c \in claims[w], EndCompute(w, c) PROVE IInv'
  <1>1. /\ pc[w] = "write" /\ c.token = statement[w].token
        /\ EndTokenStatement(statement[w])
        /\ claims' = [claims EXCEPT ![w] = claims[w] \ {c}]
        /\ computed' = [computed EXCEPT ![w] =
                          IF Orphaned(statement[w]) THEN computed[w] ELSE computed[w] \cup {c}]
        /\ statement' = [statement EXCEPT ![w] = NoStatement]
        /\ pc' = [pc EXCEPT ![w] = "compute"]
        /\ UNCHANGED <<now, ledgerVars, queueVars, owner, lingering, failures>>
    BY DEF EndCompute
  <1>2. PICK s \in Statement : s = statement[w]
    BY Fields
  <1>3. Sound(s) /\ s.kind = "token" /\ EndTokenStatement(s)
    BY <1>1, <1>2 DEF IInv, StatementsSound, PhasesOK, Sound
  <1>4. /\ ledger' = ledger /\ version' = version /\ changed' = changed /\ recovered' = recovered
        /\ dirty' = dirty /\ generation' = generation /\ recoveries' = recoveries
    BY <1>1 DEF ledgerVars, queueVars
  <1>5. /\ stats' \in [Tokens -> StatsRow] /\ newest' \in [Tokens -> Nat]
        /\ tainted' \in [Tokens -> BOOLEAN] /\ UNCHANGED <<protocol, totalled>>
        /\ VersionsUsed' /\ StatsSound' /\ TotalsSound' /\ HighExists'
        /\ \A r : Sound(r) => Sound(r)'
        /\ \A t \in Tokens : newest'[t] \in Nat /\ newest'[t] >= newest[t]
        /\ s.found /\ Launched(s.token, ledger) => newest'[s.token] >= s.row.read
    BY <1>3, <1>4, TokenWrite
  <1>6. /\ NoStatement \in Statement /\ NoStatement.kind = "none" /\ Sound(NoStatement)'
    BY NoStatementFacts
  <1>7. StatementsSound'
    BY <1>1, <1>5, <1>6, StatementReplaced
  <1>8. \A v \in Workers :
          /\ pc'[v] = IF v = w THEN "compute" ELSE pc[v]
          /\ statement'[v] = IF v = w THEN NoStatement ELSE statement[v]
          /\ claims'[v] \subseteq claims[v]
          /\ \A d \in computed'[v] : d \in computed[v] \/ (v = w /\ d = c)
    BY <1>1 DEF IInv, TypeOK, WorkOK
  <1>9. WorkOK'
    BY <1>1 DEF IInv, WorkOK
  <1>10. TypeOK'
    <2>1. pc' \in [Workers -> {"idle", "compute", "write", "protocol", "complete", "down"}]
          /\ statement' \in [Workers -> Statement]
      BY <1>1, <1>6 DEF IInv, TypeOK
    <2> QED BY <1>1, <1>4, <1>5, <1>9, <2>1 DEF IInv, TypeOK, WorkOK, Claims
  <1>11. GenerationsUsed'
    BY <1>4, <1>8 DEF IInv, GenerationsUsed
  <1>12. PhasesOK'
    BY <1>1, <1>6, <1>8 DEF IInv, PhasesOK
  <1>13. ReadCovered'
    BY <1>4, <1>8 DEF IInv, ReadCovered
  <1>14. WrittenCovered'
    <2> SUFFICES ASSUME NEW v \in Workers, NEW d \in computed'[v], dirty[d.token].gen = d.gen
                 PROVE  newest'[d.token] >= changed[d.token]
      BY <1>4 DEF WrittenCovered
    <2>1. CASE d \in computed[v]
      <3>1. newest[d.token] >= changed[d.token] /\ d.token \in Tokens
        BY <2>1, Fields DEF IInv, WrittenCovered
      <3>2. newest[d.token] \in Nat /\ changed[d.token] \in Nat
        BY <3>1, Fields
      <3> QED BY <1>5, <3>1, <3>2
    <2>2. CASE v = w /\ d = c
      <3>1. c.token \in Tokens /\ c.gen \in 1..generation /\ generation \in Nat
        BY Fields DEF IInv, GenerationsUsed
      <3>2. Launched(c.token, ledger)
        BY <2>2, <3>1 DEF IInv, GenerationsUsed
      <3>3. s.row.read >= changed[c.token] /\ s.token = c.token
        BY <1>1, <1>2, <2>2 DEF IInv, ReadCovered
      <3>4. s.found
        BY <1>3, <3>2, <3>3 DEF Sound, SoundToken
      <3>5. newest'[c.token] >= s.row.read
        BY <1>5, <3>2, <3>3, <3>4
      <3>6. newest'[c.token] \in Nat /\ changed[c.token] \in Nat /\ s.row.read \in Nat
        BY <1>2, <1>5, <3>1, Fields
      <3> QED BY <2>2, <3>3, <3>5, <3>6
    <2> QED BY <1>8, <2>1, <2>2
  <1>15. CleanCovered'
    <2> SUFFICES ASSUME NEW t \in Tokens, dirty[t].gen = 0, Launched(t, ledger)
                 PROVE  newest'[t] >= changed[t]
      BY <1>4 DEF CleanCovered
    <2>1. newest[t] >= changed[t] /\ newest[t] \in Nat /\ changed[t] \in Nat
      BY Fields DEF IInv, CleanCovered
    <2> QED BY <1>5, <2>1
  <1>16. TotalsCovered'
    <2>1. \A t \in Tokens : dirty'[t].gen = 0 => totalled' >= changed'[t]
      BY <1>4, <1>5 DEF IInv, TotalsCovered
    <2> SUFFICES ASSUME NEW v \in Workers, NEW d \in computed'[v], dirty'[d.token].gen = d.gen
                 PROVE  /\ pc'[v] = "protocol" => statement'[v].row.read >= changed'[d.token]
                        /\ pc'[v] = "complete" => totalled' >= changed'[d.token]
      BY <2>1 DEF TotalsCovered
    <2>2. CASE v = w
      BY <1>8, <2>2
    <2>3. CASE v # w
      BY <1>4, <1>5, <1>8, <2>3 DEF IInv, TotalsCovered
    <2> QED BY <2>2, <2>3
  <1> QED BY <1>5, <1>7, <1>9, <1>10, <1>11, <1>12, <1>13, <1>14, <1>15, <1>16 DEF IInv

\* The totals are written.
LEMMA EndProtocolStep == ASSUME IInv, NEW w \in Workers, EndProtocol(w) PROVE IInv'
  <1>1. /\ pc[w] = "protocol" /\ EndProtocolStatement(statement[w])
        /\ statement' = [statement EXCEPT ![w] = NoStatement]
        /\ pc' = [pc EXCEPT ![w] = "complete"]
        /\ UNCHANGED <<now, ledgerVars, queueVars, owner, claims, computed, lingering, failures>>
    BY DEF EndProtocol
  <1>2. PICK s \in Statement : s = statement[w]
    BY Fields
  <1>3. Sound(s) /\ s.kind = "protocol" /\ EndProtocolStatement(s)
    BY <1>1, <1>2 DEF IInv, StatementsSound, PhasesOK, Sound
  <1>4. /\ ledger' = ledger /\ version' = version /\ changed' = changed /\ recovered' = recovered
        /\ dirty' = dirty /\ generation' = generation /\ recoveries' = recoveries
    BY <1>1 DEF ledgerVars, queueVars
  <1>5. /\ protocol' \in [events : Nat, read : Nat] /\ totalled' \in Nat
        /\ UNCHANGED <<stats, newest, tainted>>
        /\ VersionsUsed' /\ StatsSound' /\ TotalsSound' /\ HighExists'
        /\ \A r : Sound(r) => Sound(r)'
        /\ totalled' >= totalled /\ totalled' >= s.row.read
    BY <1>3, <1>4, ProtocolWrite
  <1>6. /\ NoStatement \in Statement /\ NoStatement.kind = "none" /\ Sound(NoStatement)'
    BY NoStatementFacts
  <1>7. StatementsSound'
    BY <1>1, <1>5, <1>6, StatementReplaced
  <1>8. \A v \in Workers :
          /\ pc'[v] = IF v = w THEN "complete" ELSE pc[v]
          /\ statement'[v] = IF v = w THEN NoStatement ELSE statement[v]
    BY <1>1 DEF IInv, TypeOK
  <1>9. WorkOK'
    BY <1>1 DEF IInv, WorkOK
  <1>10. TypeOK'
    <2>1. pc' \in [Workers -> {"idle", "compute", "write", "protocol", "complete", "down"}]
          /\ statement' \in [Workers -> Statement]
      BY <1>1, <1>6 DEF IInv, TypeOK
    <2> QED BY <1>1, <1>4, <1>5, <2>1 DEF IInv, TypeOK
  <1>11. GenerationsUsed' /\ CleanCovered' /\ WrittenCovered'
    BY <1>1, <1>4, <1>5 DEF IInv, GenerationsUsed, CleanCovered, WrittenCovered
  <1>12. PhasesOK'
    BY <1>1, <1>6, <1>8 DEF IInv, PhasesOK
  <1>13. ReadCovered'
    BY <1>1, <1>4, <1>8 DEF IInv, ReadCovered
  <1>14. TotalsCovered'
    <2>1. /\ totalled \in Nat /\ s.row.read \in Nat /\ \A t \in Tokens : changed[t] \in Nat
          /\ \A v \in Workers : \A d \in computed[v] : d.token \in Tokens
      BY <1>2, Fields
    <2>2. \A t \in Tokens : dirty'[t].gen = 0 => totalled' >= changed'[t]
      BY <1>4, <1>5, <2>1 DEF IInv, TotalsCovered
    <2> SUFFICES ASSUME NEW v \in Workers, NEW d \in computed[v], dirty[d.token].gen = d.gen
                 PROVE  /\ pc'[v] = "protocol" => statement'[v].row.read >= changed[d.token]
                        /\ pc'[v] = "complete" => totalled' >= changed[d.token]
      BY <1>1, <1>4, <2>2 DEF TotalsCovered
    <2>3. /\ pc[v] = "protocol" => statement[v].row.read >= changed[d.token]
          /\ pc[v] = "complete" => totalled >= changed[d.token]
      BY DEF IInv, TotalsCovered
    <2>4. CASE v = w
      <3>1. s.row.read >= changed[d.token] /\ pc'[v] = "complete"
        BY <1>1, <1>2, <1>8, <2>3, <2>4
      <3> QED BY <1>5, <2>1, <3>1
    <2>5. CASE v # w
      BY <1>5, <1>8, <2>1, <2>3, <2>5
    <2> QED BY <2>4, <2>5
  <1> QED BY <1>5, <1>7, <1>9, <1>10, <1>11, <1>12, <1>13, <1>14 DEF IInv

\* The server ends a statement that has lost its client.
LEMMA FinishLateStep == ASSUME IInv, NEW s \in lingering, FinishLate(s) PROVE IInv'
  <1>1. /\ lingering' = lingering \ {s}
        /\ UNCHANGED <<now, ledgerVars, queueVars, owner, workVars, failures>>
    BY DEF FinishLate
  <1>2. s \in Statement /\ Sound(s) /\ s.kind \in {"token", "protocol"}
    BY Fields DEF IInv, StatementsSound, Sound, PhasesOK, Statement
  <1>3. /\ ledger' = ledger /\ version' = version /\ changed' = changed /\ recovered' = recovered
        /\ dirty' = dirty /\ generation' = generation /\ recoveries' = recoveries
        /\ pc' = pc /\ claims' = claims /\ computed' = computed /\ statement' = statement
    BY <1>1 DEF ledgerVars, queueVars, workVars
  <1>4. /\ stats' \in [Tokens -> StatsRow] /\ newest' \in [Tokens -> Nat]
        /\ tainted' \in [Tokens -> BOOLEAN]
        /\ protocol' \in [events : Nat, read : Nat] /\ totalled' \in Nat
        /\ VersionsUsed' /\ StatsSound' /\ TotalsSound' /\ HighExists'
        /\ \A r : Sound(r) => Sound(r)'
        /\ totalled' >= totalled /\ \A t \in Tokens : newest'[t] \in Nat /\ newest'[t] >= newest[t]
    <2>1. CASE s.kind = "token"
      <3>1. EndTokenStatement(s)
        BY <2>1 DEF FinishLate
      <3>2. /\ stats' \in [Tokens -> StatsRow] /\ newest' \in [Tokens -> Nat]
            /\ tainted' \in [Tokens -> BOOLEAN] /\ UNCHANGED <<protocol, totalled>>
            /\ VersionsUsed' /\ StatsSound' /\ TotalsSound' /\ HighExists'
            /\ \A r : Sound(r) => Sound(r)'
            /\ \A t \in Tokens : newest'[t] \in Nat /\ newest'[t] >= newest[t]
        BY <1>2, <1>3, <2>1, <3>1, TokenWrite
      <3>3. protocol \in [events : Nat, read : Nat] /\ totalled \in Nat
        BY DEF IInv, TypeOK
      <3> QED BY <3>2, <3>3
    <2>2. CASE s.kind = "protocol"
      <3>1. EndProtocolStatement(s)
        BY <2>2 DEF FinishLate
      <3>2. /\ protocol' \in [events : Nat, read : Nat] /\ totalled' \in Nat
            /\ UNCHANGED <<stats, newest, tainted>>
            /\ VersionsUsed' /\ StatsSound' /\ TotalsSound' /\ HighExists'
            /\ \A r : Sound(r) => Sound(r)'
            /\ totalled' >= totalled
        BY <1>2, <1>3, <2>2, <3>1, ProtocolWrite
      <3>3. /\ stats \in [Tokens -> StatsRow] /\ newest \in [Tokens -> Nat]
            /\ tainted \in [Tokens -> BOOLEAN]
        BY DEF IInv, TypeOK
      <3>4. \A t \in Tokens : newest'[t] \in Nat /\ newest'[t] >= newest[t]
        BY <3>2, <3>3
      <3> QED BY <3>2, <3>3, <3>4
    <2> QED BY <1>2, <2>1, <2>2
  <1>5. StatementsSound'
    BY <1>1, <1>3, <1>4, StatementsKept
  <1>6. TypeOK' /\ WorkOK' /\ GenerationsUsed' /\ PhasesOK' /\ ReadCovered'
    BY <1>1, <1>3, <1>4 DEF IInv, TypeOK, WorkOK, GenerationsUsed, PhasesOK, ReadCovered
  <1>7. /\ totalled \in Nat /\ \A t \in Tokens : changed[t] \in Nat /\ newest[t] \in Nat
        /\ \A v \in Workers : \A d \in claims[v] \cup computed[v] : d.token \in Tokens
    BY Fields
  <1>8. WrittenCovered'
    <2> SUFFICES ASSUME NEW v \in Workers, NEW d \in computed[v], dirty[d.token].gen = d.gen
                 PROVE  newest'[d.token] >= changed[d.token]
      BY <1>3 DEF WrittenCovered
    <2>1. newest[d.token] >= changed[d.token] /\ d.token \in Tokens
      BY <1>7 DEF IInv, WrittenCovered
    <2> QED BY <1>4, <1>7, <2>1
  <1>9. CleanCovered'
    <2> SUFFICES ASSUME NEW t \in Tokens, dirty[t].gen = 0, Launched(t, ledger)
                 PROVE  newest'[t] >= changed[t]
      BY <1>3 DEF CleanCovered
    <2>1. newest[t] >= changed[t]
      BY DEF IInv, CleanCovered
    <2> QED BY <1>4, <1>7, <2>1
  <1>10. TotalsCovered'
    <2>1. \A t \in Tokens : dirty'[t].gen = 0 => totalled' >= changed'[t]
      BY <1>3, <1>4, <1>7 DEF IInv, TotalsCovered
    <2> SUFFICES ASSUME NEW v \in Workers, NEW d \in computed[v], dirty[d.token].gen = d.gen
                 PROVE  /\ pc[v] = "protocol" => statement[v].row.read >= changed[d.token]
                        /\ pc[v] = "complete" => totalled' >= changed[d.token]
      BY <1>3, <2>1 DEF TotalsCovered
    <2>2. /\ pc[v] = "protocol" => statement[v].row.read >= changed[d.token]
          /\ pc[v] = "complete" => totalled >= changed[d.token]
      BY DEF IInv, TotalsCovered
    <2> QED BY <1>4, <1>7, <2>2
  <1> QED BY <1>4, <1>5, <1>6, <1>8, <1>9, <1>10 DEF IInv

\* A claim is completed: its row goes only if it has the generation of the claim.
LEMMA CompleteStep ==
  ASSUME IInv, NEW w \in Workers, NEW c \in computed[w], Complete(w, c) PROVE IInv'
  <1> DEFINE p == IF computed[w] = {c} THEN "idle" ELSE "complete"
  <1>1. /\ pc[w] = "complete"
        /\ dirty' = IF Completes(dirty[c.token], c, w)
                      THEN [dirty EXCEPT ![c.token] = NoRow] ELSE dirty
        /\ computed' = [computed EXCEPT ![w] = computed[w] \ {c}]
        /\ pc' = [pc EXCEPT ![w] = p]
        /\ UNCHANGED <<now, ledgerVars, generation, tableVars, owner, claims, statement, lingering,
                       failures>>
    BY DEF Complete
  <1>2. /\ ledger' = ledger /\ version' = version /\ changed' = changed /\ recovered' = recovered
        /\ stats' = stats /\ protocol' = protocol /\ newest' = newest /\ totalled' = totalled
        /\ tainted' = tainted /\ recoveries' = recoveries /\ claims' = claims
        /\ statement' = statement /\ lingering' = lingering /\ generation' = generation
    BY <1>1 DEF ledgerVars, tableVars
  <1>3. /\ c.token \in Tokens /\ c.gen \in 1..generation /\ generation \in Nat
        /\ \A v \in Workers : \A d \in claims[v] \cup computed[v] :
             d.token \in Tokens /\ d.gen \in 1..generation
    BY Fields DEF IInv, GenerationsUsed
  <1>4. NoRow \in Row /\ NoRow.gen = 0 /\ NoRow.claimed = 0
    BY DEF NoRow, Row
  <1>5. \A v \in Workers : /\ pc'[v] = IF v = w THEN p ELSE pc[v]
                           /\ computed'[v] \subseteq computed[v]
    BY <1>1 DEF IInv, TypeOK, WorkOK
  <1>6. \A t \in Tokens :
          \/ dirty'[t] = dirty[t]
          \/ t = c.token /\ dirty[t].gen = c.gen /\ dirty'[t] = NoRow
    BY <1>1, <1>3 DEF Completes, IInv, TypeOK
  <1>7. /\ VersionsUsed' /\ StatsSound' /\ TotalsSound' /\ HighExists'
        /\ \A s : Sound(s) => Sound(s)'
    BY <1>1, <1>2, TablesKept
  <1>8. StatementsSound'
    BY <1>2, <1>7, StatementsKept
  <1>9. WorkOK'
    BY <1>1 DEF IInv, WorkOK
  <1>10. TypeOK'
    <2>1. dirty' \in [Tokens -> Row]
      BY <1>1, <1>4 DEF IInv, TypeOK
    <2>2. \A t \in Tokens : dirty'[t].claimed <= dirty'[t].gen
      <3>1. NoRow.claimed <= NoRow.gen
        BY <1>4
      <3>2. \A t \in Tokens : dirty[t].claimed <= dirty[t].gen
        BY DEF IInv, TypeOK
      <3> QED BY <1>6, <3>1, <3>2
    <2>3. pc' \in [Workers -> {"idle", "compute", "write", "protocol", "complete", "down"}]
      BY <1>1 DEF IInv, TypeOK
    <2> QED BY <1>1, <1>2, <1>9, <2>1, <2>2, <2>3 DEF IInv, TypeOK, WorkOK, Claims
  <1>11. GenerationsUsed'
    <2>1. \A t \in Tokens : dirty'[t].gen <= generation' /\ (dirty'[t].gen # 0 => Launched(t, ledger'))
      BY <1>2, <1>3, <1>4, <1>6 DEF IInv, GenerationsUsed
    <2>2. \A v \in Workers : \A d \in claims'[v] \cup computed'[v] : d.gen \in 1..generation'
      BY <1>2, <1>3, <1>5
    <2> QED BY <2>1, <2>2 DEF GenerationsUsed
  <1>12. PhasesOK'
    BY <1>2, <1>5 DEF IInv, PhasesOK
  <1>13. \A v \in Workers : \A d \in claims[v] \cup computed[v] :
           dirty'[d.token].gen = d.gen => dirty[d.token].gen = d.gen
    BY <1>3, <1>4, <1>6
  <1>14. ReadCovered'
    <2> SUFFICES ASSUME NEW v \in Workers, pc'[v] = "write", NEW d \in claims[v],
                        d.token = statement[v].token, dirty'[d.token].gen = d.gen
                 PROVE  statement[v].row.read >= changed[d.token]
      BY <1>2 DEF ReadCovered
    <2>1. pc[v] = "write" /\ dirty[d.token].gen = d.gen
      BY <1>5, <1>13
    <2> QED BY <2>1 DEF IInv, ReadCovered
  <1>15. WrittenCovered'
    BY <1>2, <1>5, <1>13 DEF IInv, WrittenCovered
  <1>16. CleanCovered'
    <2> SUFFICES ASSUME NEW t \in Tokens, dirty'[t].gen = 0, Launched(t, ledger)
                 PROVE  newest[t] >= changed[t]
      BY <1>2 DEF CleanCovered
    <2>1. CASE dirty'[t] = dirty[t]
      BY <2>1 DEF IInv, CleanCovered
    <2>2. CASE t = c.token /\ dirty[t].gen = c.gen
      BY <2>2 DEF IInv, WrittenCovered
    <2> QED BY <1>6, <2>1, <2>2
  <1>17. TotalsCovered'
    <2>1. \A t \in Tokens : dirty'[t].gen = 0 => totalled' >= changed'[t]
      <3> SUFFICES ASSUME NEW t \in Tokens, dirty'[t].gen = 0 PROVE totalled >= changed[t]
        BY <1>2
      <3>1. CASE dirty'[t] = dirty[t]
        BY <3>1 DEF IInv, TotalsCovered
      <3>2. CASE t = c.token /\ dirty[t].gen = c.gen
        BY <1>1, <3>2 DEF IInv, TotalsCovered
      <3> QED BY <1>6, <3>1, <3>2
    <2> SUFFICES ASSUME NEW v \in Workers, NEW d \in computed'[v], dirty'[d.token].gen = d.gen
                 PROVE  /\ pc'[v] = "protocol" => statement'[v].row.read >= changed'[d.token]
                        /\ pc'[v] = "complete" => totalled' >= changed'[d.token]
      BY <2>1 DEF TotalsCovered
    <2>2. d \in computed[v] /\ dirty[d.token].gen = d.gen
      BY <1>5, <1>13
    <2>3. pc'[v] \in {"protocol", "complete"} => pc'[v] = pc[v]
      BY <1>1, <1>5
    <2> QED BY <1>2, <2>2, <2>3 DEF IInv, TotalsCovered
  <1> QED BY <1>7, <1>8, <1>9, <1>10, <1>11, <1>12, <1>14, <1>15, <1>16, <1>17 DEF IInv

-----------------------------------------------------------------------------
(* The theorems. *)

\* The inductive invariant holds initially.
LEMMA InitInvariant == Init => IInv
  <1> SUFFICES ASSUME Init PROVE IInv
    OBVIOUS
  <1>1. ledger = <<>> /\ Len(ledger) = 0 /\ DOMAIN ledger = {} /\ ledger \in Seq(Events)
    BY DEF Init
  <1>2. \A t : ~Launched(t, ledger) /\ EventsOf(t, ledger) = {}
    BY <1>1 DEF Launched, EventsOf
  <1>3. 1 \in Workers
    BY AggregationAssumption DEF Workers
  <1>4. /\ NoStats \in StatsRow /\ NoStats.read = 0 /\ NoStats.ath = 0
        /\ NoRow \in Row /\ NoRow.gen = 0 /\ NoRow.claimed = 0
        /\ NoTotals \in [events : Nat, read : Nat] /\ NoTotals.events = 0
    BY DEF NoStats, StatsRow, NoRow, Row, NoTotals
  <1>5. NoStatement \in Statement /\ NoStatement.kind = "none"
    BY NoStatementFacts
  <1>6. TypeOK /\ WorkOK
    BY <1>1, <1>3, <1>4, <1>5 DEF Init, TypeOK, WorkOK
  <1>7. GenerationsUsed /\ PhasesOK
    BY <1>4, <1>5 DEF Init, GenerationsUsed, PhasesOK
  <1>8. VersionsUsed
    BY DEF Init, VersionsUsed
  <1>9. StatementsSound
    BY <1>5 DEF Init, StatementsSound, SoundToken, SoundTotals
  <1>10. StatsSound
    <2>1. \A t : High(t, ledger) = 0
      BY <1>2, HighOfPrices DEF Highest
    <2> QED BY <1>2, <1>4, <2>1 DEF Init, StatsSound
  <1>11. TotalsSound
    BY <1>1, <1>4 DEF Init, TotalsSound, NoTotals
  <1>12. ReadCovered /\ WrittenCovered /\ CleanCovered /\ TotalsCovered
    BY <1>2 DEF Init, ReadCovered, WrittenCovered, CleanCovered, TotalsCovered
  <1>13. HighExists
    BY <1>1 DEF HighExists, HasHigh, PricesUpTo
  <1> QED BY <1>6, <1>7, <1>8, <1>9, <1>10, <1>11, <1>12, <1>13 DEF IInv

\* Every step keeps it.
LEMMA StepInvariant == IInv /\ [Next]_vars => IInv'
  <1> SUFFICES ASSUME IInv, [Next]_vars PROVE IInv'
    OBVIOUS
  <1>1. CASE Engine
    <2>1. ASSUME NEW e \in [token : Tokens, launch : BOOLEAN, price : Prices, time : {now}], Ingest(e)
          PROVE  IInv'
      <3>1. e \in Events
        BY Fields DEF Events
      <3> QED BY <2>1, <3>1, IngestStep
    <2> QED BY <1>1, <2>1, RecoverStep DEF Engine
  <1>2. ASSUME NEW t \in Tokens, ExpireLease(t) PROVE IInv'
    BY <1>2, ExpireLeaseStep
  <1>3. ASSUME NEW w \in Workers, Drain(w) PROVE IInv'
    BY <1>3, ClaimStep, BeginComputeStep, EndComputeStep, BeginProtocolStep, EndProtocolStep,
       CompleteStep DEF Drain
  <1>4. ASSUME NEW w \in Workers, Fault(w) PROVE IInv'
    BY <1>4, FaultStep
  <1>5. CASE Tick \/ Start
    BY <1>5, TickStep, StartStep
  <1>6. CASE Server
    BY <1>6, FinishLateStep DEF Server
  <1>7. CASE UNCHANGED vars
    <2>1. UNCHANGED <<now, ledgerVars, queueVars, tableVars, owner, workVars, lingering, failures>>
      BY <1>7 DEF vars, ledgerVars, queueVars, tableVars, workVars
    <2>2. /\ TypeOK' /\ WorkOK' /\ GenerationsUsed' /\ PhasesOK'
          /\ ReadCovered' /\ WrittenCovered' /\ CleanCovered' /\ TotalsCovered'
      BY <2>1 DEF ledgerVars, queueVars, tableVars, workVars, IInv, TypeOK, WorkOK, GenerationsUsed,
                  PhasesOK, ReadCovered, WrittenCovered, CleanCovered, TotalsCovered
    <2>3. /\ VersionsUsed' /\ StatsSound' /\ TotalsSound' /\ HighExists'
          /\ \A s : Sound(s) => Sound(s)'
      BY <2>1, TablesKept DEF ledgerVars
    <2>4. StatementsSound'
      BY <2>1, <2>3, StatementsKept DEF workVars
    <2> QED BY <2>2, <2>3, <2>4 DEF IInv
  <1> QED BY <1>1, <1>2, <1>3, <1>4, <1>5, <1>6, <1>7 DEF Next

\* Any number of workers side by side: as long as a row keeps the generation of a claim, the
\* statement for the claim has read the last change of the token, and whatever is stored or
\* under way is out of date only if the token has changed since it was read (worker.go,
\* queries/projections.sql).
THEOREM AggregationInvariant == Spec => []IInv
  BY InitInvariant, StepInvariant, PTL DEF Spec

\* A launched token without a row in aggregation_dirty has current statistics, as of their
\* updated_at, and an empty queue means current protocol totals, unless an overtaken statement
\* wrote last (CompleteAggregationDirty, RecomputeProtocolAggregates).
THEOREM QueueIsHonest == Spec => []QueueHonest
  <1>1. IInv => QueueHonest
    <2> SUFFICES ASSUME IInv PROVE QueueHonest
      OBVIOUS
    <2>1. CleanMeansCurrent
      <3> SUFFICES ASSUME NEW t \in Tokens, dirty[t].gen = 0, Launched(t, ledger), ~Overtaken(t)
                   PROVE  Current(t)
        BY DEF CleanMeansCurrent
      <3>1. newest[t] >= changed[t]
        BY DEF IInv, CleanCovered
      <3>2. stats[t].read \in Nat /\ newest[t] \in Nat /\ changed[t] \in Nat
        BY Fields
      <3>3. stats[t].read >= changed[t]
        BY <3>1, <3>2 DEF Overtaken
      <3> QED BY <3>3 DEF IInv, StatsSound, Fits, Current, TradesOf
    <2>2. QuietMeansTotalled
      <3> SUFFICES ASSUME \A t \in Tokens : dirty[t].gen = 0, ~(protocol.read < totalled)
                   PROVE  protocol.events = Len(ledger)
        BY DEF QuietMeansTotalled
      <3>1. \A t \in Tokens : totalled >= changed[t]
        BY DEF IInv, TotalsCovered
      <3>2. protocol.read \in Nat /\ totalled \in Nat /\ version \in Nat
        BY Fields
      <3>3. totalled >= version
        BY <3>1, <3>2 DEF IInv, VersionsUsed
      <3>4. protocol.read >= version
        BY <3>2, <3>3
      <3> QED BY <3>4 DEF IInv, TotalsSound
    <2> QED BY <2>1, <2>2 DEF IInv, QueueHonest
  <1> QED BY <1>1, AggregationInvariant, PTL

\* The all-time high is above that of the ledger only after a statement from before the last
\* recovery has written, and below it, without a row, only after an overtaken one has
\* (RecomputeTokenStats).
THEOREM HighIsKept == Spec => []HighSurvives
  <1>1. IInv => HighSurvives
    <2> SUFFICES ASSUME IInv, NEW t \in Tokens, Launched(t, ledger)
                 PROVE  /\ stats[t].ath > High(t, ledger) => tainted[t]
                        /\ dirty[t].gen = 0 /\ stats[t].ath < High(t, ledger) => Overtaken(t)
      BY DEF HighSurvives
    <2>1. /\ stats[t].ath \in Nat /\ stats[t].read \in Nat /\ newest[t] \in Nat /\ changed[t] \in Nat
          /\ High(t, ledger) \in Nat
      BY Fields, HighIsNat
    <2>2. ~tainted[t] => stats[t].ath <= High(t, ledger)
      BY DEF IInv, StatsSound
    <2>3. ASSUME dirty[t].gen = 0, ~Overtaken(t) PROVE stats[t].ath >= High(t, ledger)
      <3>1. newest[t] >= changed[t]
        BY <2>3 DEF IInv, CleanCovered
      <3>2. stats[t].read >= changed[t]
        BY <2>1, <2>3, <3>1 DEF Overtaken
      <3> QED BY <3>2 DEF IInv, StatsSound, Fits
    <2> QED BY <2>1, <2>2, <2>3
  <1> QED BY <1>1, AggregationInvariant, PTL
=============================================================================
