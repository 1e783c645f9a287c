----------------------------- MODULE QuotesProofs -----------------------------
(***************************************************************************)
(* Proofs about Quotes, for all curve parameters, all trades, any number   *)
(* of rows and every width of the amounts: the backend's copy of the curve *)
(* and the state it rebuilds from the stored rows are the contract's.      *)
(***************************************************************************)
EXTENDS Quotes, FiniteSetTheorems, SequenceTheorems, WellFoundedInduction, TLAPS

-----------------------------------------------------------------------------
(* Parameters. *)

\* A non-empty set of naturals has a least element.
LEMMA LeastNatural ==
  ASSUME NEW T \in SUBSET Nat, T # {}
  PROVE  \E n \in T : \A m \in T : n <= m
  <1> DEFINE less == OpToRel(<, Nat)
  <1>1. IsWellFoundedOn(less, Nat)
    BY NatLessThanWellFounded
  <1>2. \A x, y \in Nat : x < y => <<x, y>> \in less
    BY DEF OpToRel
  <1> HIDE DEF less
  <1>3. PICK x \in T : \A y \in T : ~(<<y, x>> \in less)
    BY <1>1, WFMin
  <1>4. ASSUME NEW y \in T PROVE x <= y
    <2>1. ~(y < x)
      BY <1>2, <1>3
    <2> QED BY <2>1
  <1> QED BY <1>3, <1>4

\* FirstError reports no error exactly when no check has failed.
LEMMA NoErrorMeansNoCheck ==
  ASSUME NEW checks, Len(checks) \in Nat,
         \A i \in 1..Len(checks) : checks[i][1] => checks[i][2] # "none"
  PROVE  FirstError(checks) = "none" <=> \A i \in 1..Len(checks) : ~checks[i][1]
  <1> DEFINE failed == {i \in 1..Len(checks) : checks[i][1]}
             first == CHOOSE i \in failed : \A j \in failed : i <= j
  <1>1. FirstError(checks) = IF failed = {} THEN "none" ELSE checks[first][2]
    BY DEF FirstError
  <1>2. CASE failed = {}
    BY <1>1, <1>2
  <1>3. CASE failed # {}
    <2>0. failed \in SUBSET Nat
      OBVIOUS
    <2>1. \E i \in failed : \A j \in failed : i <= j
      BY <1>3, <2>0, LeastNatural
    <2>2. first \in failed
      BY <2>1
    <2> QED BY <1>1, <1>3, <2>2
  <1> QED BY <1>2, <1>3

\* An error is the one of a failed check that comes after passed ones.
LEMMA ErrorNamesCheck ==
  ASSUME NEW checks, Len(checks) \in Nat, FirstError(checks) # "none"
  PROVE  \E i \in 1..Len(checks) :
           /\ checks[i][1] /\ FirstError(checks) = checks[i][2]
           /\ \A j \in 1..Len(checks) : j < i => ~checks[j][1]
  <1> DEFINE failed == {i \in 1..Len(checks) : checks[i][1]}
             first == CHOOSE i \in failed : \A j \in failed : i <= j
  <1>1. FirstError(checks) = IF failed = {} THEN "none" ELSE checks[first][2]
    BY DEF FirstError
  <1>2. failed # {} /\ failed \in SUBSET Nat
    <2>1. failed \in SUBSET Nat
      OBVIOUS
    <2> HIDE DEF failed, first
    <2>2. failed # {}
      BY <1>1
    <2> QED BY <2>1, <2>2
  <1>3. \E i \in failed : \A j \in failed : i <= j
    BY <1>2, LeastNatural
  <1>4. first \in failed /\ \A j \in failed : first <= j
    BY <1>3
  <1>5. FirstError(checks) = checks[first][2]
    BY <1>1, <1>2
  <1>6. first \in 1..Len(checks) /\ checks[first][1]
    BY <1>4
  <1>7. \A j \in 1..Len(checks) : j < first => ~checks[j][1]
    BY <1>4, <1>6
  <1> QED BY <1>5, <1>6, <1>7

\* Two checks of rounding up agree on positive amounts.
LEMMA SameRounding ==
  ASSUME NEW n \in Nat, NEW d \in Nat \ {0}
  PROVE  CeilQuo(n, d) = Chain!CeilDiv(n, d)
  BY DEF CeilQuo, Chain!CeilDiv

\* The parameters of a token are uint256 amounts.
LEMMA ParametersTyped ==
  ASSUME NEW q \in AllParameters
  PROVE  /\ q.totalSupply \in Nat /\ q.curveTokens \in Nat /\ q.lpTokens \in Nat
         /\ q.graduationEth \in Nat /\ q.initialVirtualEth \in Nat
         /\ q.initialVirtualToken \in Nat /\ q.tradeFeeBps \in Nat /\ q.protocolShareBps \in Nat
         /\ q.totalSupply <= MaxUint
  BY QuotesAssumption DEF Chain!CurveParameters

\* NewParameters, check by check.
LEMMA NewParametersChecks ==
  ASSUME NEW q
  PROVE  NewParameters(q) = "none" <=>
           /\ ~(q.curveTokens + q.lpTokens > MaxUint)
           /\ ~(q.totalSupply # q.curveTokens + q.lpTokens)
           /\ ~(q.lpTokens = 0 \/ q.curveTokens <= q.lpTokens)
           /\ ~(q.graduationEth = 0)
           /\ ~(q.initialVirtualEth = 0 \/ q.initialVirtualToken <= q.curveTokens)
           /\ ~(q.tradeFeeBps >= Bps)
           /\ ~(q.protocolShareBps > Bps)
           /\ ~(Invariant(q) > MaxUint \/ FinalVirtualEth(q) > MaxUint)
           /\ ~(\/ CeilQuo(Invariant(q), FinalVirtualToken(q)) # FinalVirtualEth(q)
                \/ CeilQuo(Invariant(q), FinalVirtualEth(q)) # FinalVirtualToken(q))
  <1> DEFINE c1 == q.curveTokens + q.lpTokens > MaxUint
             c2 == q.totalSupply # q.curveTokens + q.lpTokens
             c3 == q.lpTokens = 0 \/ q.curveTokens <= q.lpTokens
             c4 == q.graduationEth = 0
             c5 == q.initialVirtualEth = 0 \/ q.initialVirtualToken <= q.curveTokens
             c6 == q.tradeFeeBps >= Bps
             c7 == q.protocolShareBps > Bps
             c8 == Invariant(q) > MaxUint \/ FinalVirtualEth(q) > MaxUint
             c9 == \/ CeilQuo(Invariant(q), FinalVirtualToken(q)) # FinalVirtualEth(q)
                   \/ CeilQuo(Invariant(q), FinalVirtualEth(q)) # FinalVirtualToken(q)
             checks == << <<c1, "overflow">>, <<c2, "supply">>, <<c3, "allocation">>,
                          <<c4, "graduation">>, <<c5, "reserves">>, <<c6, "fee">>,
                          <<c7, "share">>, <<c8, "overflow">>, <<c9, "boundary">> >>
  <1>1. NewParameters(q) = FirstError(checks)
    BY Zenon DEF NewParameters
  <1> HIDE DEF c1, c2, c3, c4, c5, c6, c7, c8, c9
  <1>2. /\ Len(checks) = 9
        /\ checks[1][1] = c1 /\ checks[2][1] = c2 /\ checks[3][1] = c3 /\ checks[4][1] = c4
        /\ checks[5][1] = c5 /\ checks[6][1] = c6 /\ checks[7][1] = c7 /\ checks[8][1] = c8
        /\ checks[9][1] = c9
    OBVIOUS
  <1>3. \A i \in 1..9 : checks[i][2] # "none"
    OBVIOUS
  <1> HIDE DEF checks
  <1>4. FirstError(checks) = "none" <=> \A i \in 1..9 : ~checks[i][1]
    <2>1. Len(checks) \in Nat /\ \A i \in 1..Len(checks) : checks[i][1] => checks[i][2] # "none"
      BY <1>2, <1>3
    <2> QED BY <1>2, <2>1, NoErrorMeansNoCheck
  <1>5. (\A i \in 1..9 : ~checks[i][1])
          <=> ~c1 /\ ~c2 /\ ~c3 /\ ~c4 /\ ~c5 /\ ~c6 /\ ~c7 /\ ~c8 /\ ~c9
    BY <1>2
  <1> QED BY <1>1, <1>4, <1>5 DEF c1, c2, c3, c4, c5, c6, c7, c8, c9

\* Go and the contract accept the same parameters.
LEMMA ParametersMatch ==
  ASSUME NEW q \in AllParameters
  PROVE  NewParameters(q) = "none"
           <=> /\ Chain!ValidParameters(q)
               /\ Invariant(q) <= MaxUint /\ FinalVirtualEth(q) <= MaxUint
  <1>1. /\ q.totalSupply \in Nat /\ q.curveTokens \in Nat /\ q.lpTokens \in Nat
        /\ q.graduationEth \in Nat /\ q.initialVirtualEth \in Nat
        /\ q.initialVirtualToken \in Nat /\ q.tradeFeeBps \in Nat /\ q.protocolShareBps \in Nat
        /\ q.totalSupply <= MaxUint /\ Bps \in Nat /\ MaxUint \in Nat
    BY ParametersTyped, WidthAssumption
  <1>2. Invariant(q) \in Nat /\ FinalVirtualEth(q) \in Nat /\ FinalVirtualToken(q) \in Int
    BY <1>1 DEF Invariant, FinalVirtualEth, FinalVirtualToken
  <1> DEFINE bounds == /\ q.totalSupply = q.curveTokens + q.lpTokens
                       /\ q.lpTokens > 0 /\ q.curveTokens > q.lpTokens
                       /\ q.graduationEth > 0 /\ q.initialVirtualEth > 0
                       /\ q.initialVirtualToken > q.curveTokens
                       /\ q.tradeFeeBps < Bps /\ q.protocolShareBps <= Bps
             wide == Invariant(q) <= MaxUint /\ FinalVirtualEth(q) <= MaxUint
             go == /\ CeilQuo(Invariant(q), FinalVirtualToken(q)) = FinalVirtualEth(q)
                   /\ CeilQuo(Invariant(q), FinalVirtualEth(q)) = FinalVirtualToken(q)
             sol == /\ Chain!CeilDiv(Invariant(q), FinalVirtualToken(q)) = FinalVirtualEth(q)
                    /\ Chain!CeilDiv(Invariant(q), FinalVirtualEth(q)) = FinalVirtualToken(q)
  <1>3. NewParameters(q) = "none" <=> bounds /\ wide /\ go
    <2>1. (~(q.curveTokens + q.lpTokens > MaxUint) /\ ~(q.totalSupply # q.curveTokens + q.lpTokens)
             /\ ~(q.lpTokens = 0 \/ q.curveTokens <= q.lpTokens) /\ ~(q.graduationEth = 0)
             /\ ~(q.initialVirtualEth = 0 \/ q.initialVirtualToken <= q.curveTokens)
             /\ ~(q.tradeFeeBps >= Bps) /\ ~(q.protocolShareBps > Bps)) <=> bounds
      BY <1>1
    <2>2. ~(Invariant(q) > MaxUint \/ FinalVirtualEth(q) > MaxUint) <=> wide
      BY <1>1, <1>2
    <2> HIDE DEF bounds, wide
    <2> QED BY <2>1, <2>2, NewParametersChecks, Zenon
  <1>4. Chain!ValidParameters(q) <=> bounds /\ sol
    BY DEF Chain!ValidParameters, Invariant, FinalVirtualEth, FinalVirtualToken
  <1>5. bounds => (go <=> sol)
    <2>1. bounds => FinalVirtualToken(q) \in Nat \ {0} /\ FinalVirtualEth(q) \in Nat \ {0}
      BY <1>1 DEF FinalVirtualEth, FinalVirtualToken
    <2> HIDE DEF bounds
    <2> QED BY <1>2, <2>1, SameRounding
  <1> HIDE DEF bounds, wide, go, sol
  <1> QED BY <1>3, <1>4, <1>5 DEF wide

\* Quotes, trades and rollbacks leave the parameters alone.
LEMMA ParametersStay ==
  ASSUME Next
  PROVE  p' = p
  BY DEF Next, Launch, ChainBuy, ChainSell, ClaimProtocolFees, ClaimCreatorFees, PoolSync,
         Rollback, Ask, Log

-----------------------------------------------------------------------------
(* Sums over the stored rows. *)

TradeRows == [kind : {"trade"}, eth : Nat, token : Nat,
              protocolFee : Nat, creatorFee : Nat, graduates : BOOLEAN]
ClaimRows == [kind : {"protocol_claim", "creator_claim"}, amount : Nat]
SyncRows == [kind : {"sync"}, eth : 0..MaxUint, token : 0..MaxUint]
Rows == TradeRows \cup ClaimRows \cup SyncRows

\* A row of another table adds nothing to a sum.
LEMMA OtherTable ==
  ASSUME NEW S, NEW rs \in Seq(S), NEW r \in S, NEW k, NEW field, r.kind # k
  PROVE  Units(Append(rs, r), k, field) = Units(rs, k, field)
  <1> DEFINE rt == Append(rs, r)
  <1>1. /\ Len(rs) \in Nat /\ DOMAIN rs = 1..Len(rs) /\ DOMAIN rt = 1..(Len(rs) + 1)
        /\ \A i \in 1..Len(rs) : rt[i] = rs[i]
        /\ rt[Len(rs) + 1] = r
    BY AppendProperties, LenProperties
  <1> HIDE DEF rt
  <1>2. Of(rt, k) = Of(rs, k)
    BY <1>1 DEF Of
  <1>3. \A i \in Of(rs, k) : rt[i] = rs[i]
    BY <1>1 DEF Of
  <1> QED BY <1>2, <1>3 DEF Units, rt

\* A row of the table adds its column.
LEMMA SameTable ==
  ASSUME NEW S, NEW rs \in Seq(S), NEW r \in S, NEW k, NEW field, NEW a \in Nat,
         r.kind = k, r[field] = a, IsFiniteSet(Units(rs, k, field))
  PROVE  /\ IsFiniteSet(Units(Append(rs, r), k, field))
         /\ SumOf(Append(rs, r), k, field) = SumOf(rs, k, field) + a
  <1> DEFINE rt == Append(rs, r)
             n == Len(rs) + 1
             new == {n} \X (1..a)
             old == Units(rs, k, field)
  <1>1. /\ Len(rs) \in Nat /\ DOMAIN rs = 1..Len(rs) /\ DOMAIN rt = 1..n
        /\ \A i \in 1..Len(rs) : rt[i] = rs[i]
        /\ rt[n] = r
    BY AppendProperties, LenProperties
  <1> HIDE DEF rt
  <1>2. Of(rt, k) = Of(rs, k) \cup {n} /\ n \notin Of(rs, k)
    BY <1>1 DEF Of
  <1>3. \A i \in Of(rs, k) : rt[i] = rs[i]
    BY <1>1 DEF Of
  <1>4. Units(rt, k, field) = old \cup new
    BY <1>1, <1>2, <1>3 DEF Units
  <1>5. old \cap new = {}
    BY <1>2 DEF Units
  <1>6. IsFiniteSet(new) /\ Cardinality(new) = a
    <2>1. IsFiniteSet(1..a) /\ Cardinality(1..a) = a
      <3>1. IsFiniteSet(1..a) /\ Cardinality(1..a) = IF 1 > a THEN 0 ELSE a - 1 + 1
        BY FS_Interval
      <3> QED BY <3>1
    <2>2. IsFiniteSet({n}) /\ Cardinality({n}) = 1
      BY FS_Singleton
    <2>3. IsFiniteSet(new) /\ Cardinality(new) = Cardinality({n}) * Cardinality(1..a)
      BY <2>1, <2>2, FS_Product
    <2> QED BY <2>1, <2>2, <2>3
  <1> HIDE DEF new, old
  <1>7. IsFiniteSet(old) /\ Cardinality(old) \in Nat
    BY FS_CardinalityType DEF old
  <1>8. IsFiniteSet(old \cup new) /\ Cardinality(old \cup new) = Cardinality(old) + a
    <2>1. Cardinality({}) = 0
      BY FS_EmptySet
    <2>2. /\ IsFiniteSet(old \cup new)
          /\ Cardinality(old \cup new)
               = Cardinality(old) + Cardinality(new) - Cardinality(old \cap new)
      BY <1>6, <1>7, FS_Union
    <2>3. Cardinality(old \cap new) = 0
      BY <1>5, <2>1, Zenon
    <2>4. Cardinality(old) + a - 0 = Cardinality(old) + a
      BY <1>7
    <2> QED BY <1>6, <2>2, <2>3, <2>4, Zenon
  <1> QED BY <1>4, <1>8 DEF SumOf, old, rt

\* No rows, no units.
LEMMA NoUnits ==
  ASSUME NEW k, NEW field
  PROVE  IsFiniteSet(Units(<<>>, k, field)) /\ SumOf(<<>>, k, field) = 0
  <1>1. Units(<<>>, k, field) = {}
    BY DEF Units, Of
  <1> QED BY <1>1, FS_EmptySet DEF SumOf

-----------------------------------------------------------------------------
(* The state rebuilt from the rows. *)

\* States of a launched curve.
States == [phase : {"curve", "graduated"}, virtualEth : Nat, virtualToken : Nat,
           protocolFees : Nat, creatorFees : Nat]

\* The sums of GetTokenQuoteState can be computed.
Counted(rs) ==
  /\ IsFiniteSet(Units(rs, "trade", "protocolFee"))
  /\ IsFiniteSet(Units(rs, "trade", "creatorFee"))
  /\ IsFiniteSet(Units(rs, "protocol_claim", "amount"))
  /\ IsFiniteSet(Units(rs, "creator_claim", "amount"))

\* No more was claimed than the trades had brought in, and the rest has accrued.
FeesBalance(rs, s) ==
  /\ SumOf(rs, "trade", "protocolFee") = SumOf(rs, "protocol_claim", "amount") + s.protocolFees
  /\ SumOf(rs, "trade", "creatorFee") = SumOf(rs, "creator_claim", "amount") + s.creatorFees

\* The rows stand for the state s; the reserves that are read are uint256, and those of s as
\* long as it trades on the curve.
Rebuilds(q, rs, s) ==
  /\ rs \in Seq(Rows)
  /\ Counted(rs)
  /\ FeesBalance(rs, s)
  /\ Phase(rs) = s.phase
  /\ EthReserve(q, rs) \in 0..MaxUint /\ TokenReserve(q, rs) \in 0..MaxUint
  /\ s.phase = "curve" => EthReserve(q, rs) = s.virtualEth /\ TokenReserve(q, rs) = s.virtualToken

\* The sums of finite sets of units are amounts.
LEMMA SumsAreNatural ==
  ASSUME NEW rs, Counted(rs)
  PROVE  /\ SumOf(rs, "trade", "protocolFee") \in Nat /\ SumOf(rs, "trade", "creatorFee") \in Nat
         /\ SumOf(rs, "protocol_claim", "amount") \in Nat
         /\ SumOf(rs, "creator_claim", "amount") \in Nat
  BY FS_CardinalityType DEF Counted, SumOf

\* What is left of a sum after the claims.
LEMMA Remainder ==
  ASSUME NEW a \in Nat, NEW b \in Nat, NEW c \in Nat, a = b + c
  PROVE  Positive(a - b) = c
  BY DEF Positive

\* A set of positions has a last one.
LEMMA LastPosition ==
  ASSUME NEW n \in Nat, NEW T \in SUBSET (1..n), T # {}
  PROVE  \E i \in T : \A j \in T : j <= i
  <1> DEFINE U == {n - i : i \in T}
  <1>1. U \in SUBSET Nat /\ U # {}
    <2>1. ASSUME NEW i \in T PROVE n - i \in Nat
      <3>1. i \in 1..n
        OBVIOUS
      <3> QED BY <3>1
    <2> QED BY <2>1
  <1>2. PICK m \in U : \A k \in U : m <= k
    BY <1>1, LeastNatural
  <1>3. PICK i \in T : m = n - i
    BY <1>2
  <1>4. ASSUME NEW j \in T PROVE j <= i
    <2>1. n - i <= n - j
      BY <1>2, <1>3
    <2> QED BY <2>1
  <1> QED BY <1>4

\* A state is its fields.
LEMMA StateIsFields ==
  ASSUME NEW s \in States
  PROVE  s = [phase |-> s.phase, virtualEth |-> s.virtualEth, virtualToken |-> s.virtualToken,
              protocolFees |-> s.protocolFees, creatorFees |-> s.creatorFees]
  BY DEF States

\* Before the first trade the rows stand for the initial reserves.
LEMMA NoRows ==
  ASSUME p.initialVirtualEth \in 0..MaxUint, p.initialVirtualToken \in 0..MaxUint
  PROVE  Rebuilds(p, <<>>,
           [phase |-> "curve", virtualEth |-> p.initialVirtualEth,
            virtualToken |-> p.initialVirtualToken, protocolFees |-> 0, creatorFees |-> 0])
  <1>1. Of(<<>>, "trade") = {} /\ Priced(<<>>) = {}
    BY DEF Of, Priced
  <1>2. Counted(<<>>)
    BY NoUnits DEF Counted
  <1>3. /\ SumOf(<<>>, "trade", "protocolFee") = 0 /\ SumOf(<<>>, "trade", "creatorFee") = 0
        /\ SumOf(<<>>, "protocol_claim", "amount") = 0 /\ SumOf(<<>>, "creator_claim", "amount") = 0
    BY NoUnits
  <1>4. /\ Phase(<<>>) = "curve" /\ EthReserve(p, <<>>) = p.initialVirtualEth
        /\ TokenReserve(p, <<>>) = p.initialVirtualToken
    BY <1>1 DEF Phase, EthReserve, TokenReserve
  <1> QED BY <1>2, <1>3, <1>4 DEF Rebuilds, FeesBalance

\* A row with reserves is the one that they are read from, as long as it is the last.
LEMMA LastIsRead ==
  ASSUME NEW rs \in Seq(Rows), NEW r \in TradeRows \cup SyncRows
  PROVE  EthReserve(p, Append(rs, r)) = r.eth /\ TokenReserve(p, Append(rs, r)) = r.token
  <1> DEFINE rt == Append(rs, r)
             n == Len(rs) + 1
             priced == Priced(rt)
  <1>1. r \in Rows /\ (r.kind = "trade" \/ r.kind = "sync")
    BY DEF Rows, TradeRows, SyncRows
  <1>2. /\ Len(rs) \in Nat /\ DOMAIN rt = 1..n /\ rt[n] = r
    BY <1>1, AppendProperties, LenProperties
  <1> HIDE DEF rt
  <1>3. n \in priced /\ \A j \in priced : j \in 1..n
    BY <1>1, <1>2 DEF Priced, Of
  <1>4. \A i \in priced : (\A j \in priced : j <= i) <=> i = n
    BY <1>2, <1>3
  <1>5. (CHOOSE i \in priced : \A j \in priced : j <= i) = n
    BY <1>3, <1>4
  <1> QED BY <1>2, <1>3, <1>5 DEF EthReserve, TokenReserve, LastPriced, rt

\* A row without reserves leaves them as they are.
LEMMA ClaimKeepsReserves ==
  ASSUME NEW rs \in Seq(Rows), NEW r \in ClaimRows
  PROVE  /\ EthReserve(p, Append(rs, r)) = EthReserve(p, rs)
         /\ TokenReserve(p, Append(rs, r)) = TokenReserve(p, rs)
  <1> DEFINE rt == Append(rs, r)
             priced == Priced(rs)
             last == CHOOSE i \in priced : \A j \in priced : j <= i
  <1>1. r \in Rows /\ r.kind # "trade" /\ r.kind # "sync"
    BY DEF Rows, ClaimRows
  <1>2. /\ Len(rs) \in Nat /\ DOMAIN rs = 1..Len(rs) /\ DOMAIN rt = 1..(Len(rs) + 1)
        /\ \A i \in 1..Len(rs) : rt[i] = rs[i]
        /\ rt[Len(rs) + 1] = r
    BY <1>1, AppendProperties, LenProperties
  <1> HIDE DEF rt
  <1>3. Priced(rt) = priced /\ priced \in SUBSET (1..Len(rs))
    BY <1>1, <1>2 DEF Priced, Of
  <1>4. priced # {} => rt[last] = rs[last]
    <2> SUFFICES ASSUME priced # {} PROVE rt[last] = rs[last]
      OBVIOUS
    <2>1. \E i \in priced : \A j \in priced : j <= i
      BY <1>2, <1>3, LastPosition
    <2>2. last \in priced
      BY <2>1
    <2> QED BY <1>2, <1>3, <2>2
  <1>5. LastPriced(rt) = rt[last] /\ LastPriced(rs) = rs[last]
    BY <1>3 DEF LastPriced
  <1> HIDE DEF priced, last
  <1>6. Priced(rs) = priced
    BY DEF priced
  <1> QED BY <1>3, <1>4, <1>5, <1>6 DEF EthReserve, TokenReserve, rt

\* Only a graduating trade changes the phase.
LEMMA PhaseFollowsTrades ==
  ASSUME NEW rs \in Seq(Rows), NEW r \in Rows
  PROVE  Phase(Append(rs, r))
           = IF r.kind = "trade" /\ r.graduates THEN "graduated" ELSE Phase(rs)
  <1> DEFINE rt == Append(rs, r)
             n == Len(rs) + 1
  <1>1. /\ Len(rs) \in Nat /\ DOMAIN rs = 1..Len(rs) /\ DOMAIN rt = 1..n
        /\ \A i \in 1..Len(rs) : rt[i] = rs[i]
        /\ rt[n] = r
    BY AppendProperties, LenProperties
  <1> HIDE DEF rt
  <1>2. \A i : i \in Of(rt, "trade") <=> (i \in Of(rs, "trade")) \/ (i = n /\ r.kind = "trade")
    BY <1>1 DEF Of
  <1>3. \A i \in Of(rs, "trade") : rt[i] = rs[i]
    BY <1>1 DEF Of
  <1>4. (\E i \in Of(rt, "trade") : rt[i].graduates)
          <=> (r.kind = "trade" /\ r.graduates) \/ (\E i \in Of(rs, "trade") : rs[i].graduates)
    BY <1>1, <1>2, <1>3
  <1> QED BY <1>4 DEF Phase, rt

\* A trade on the curve, appended to the rows, stands for the state after it.
LEMMA RebuildsTrade ==
  ASSUME NEW rs, NEW s \in States, Rebuilds(p, rs, s), s.phase = "curve", NEW r \in TradeRows,
         r.eth \in 0..MaxUint, r.token \in 0..MaxUint,
         NEW t, t = [phase |-> IF r.graduates THEN "graduated" ELSE "curve",
                     virtualEth |-> r.eth, virtualToken |-> r.token,
                     protocolFees |-> s.protocolFees + r.protocolFee,
                     creatorFees |-> s.creatorFees + r.creatorFee]
  PROVE  Rebuilds(p, Append(rs, r), t)
  <1> DEFINE S == Rows
             rt == Append(rs, r)
             n == Len(rs) + 1
  <1>1. rs \in Seq(S) /\ Counted(rs) /\ FeesBalance(rs, s) /\ Phase(rs) = "curve" /\ r \in S
    BY DEF Rebuilds, Rows
  <1>2. /\ r.kind = "trade" /\ r.kind # "protocol_claim" /\ r.kind # "creator_claim"
        /\ r["protocolFee"] = r.protocolFee /\ r["creatorFee"] = r.creatorFee
        /\ r.protocolFee \in Nat /\ r.creatorFee \in Nat
    BY DEF TradeRows
  <1>3. s.protocolFees \in Nat /\ s.creatorFees \in Nat
    BY DEF States
  <1> HIDE DEF S
  <1>4. /\ Len(rs) \in Nat /\ DOMAIN rs = 1..Len(rs) /\ rt \in Seq(S) /\ DOMAIN rt = 1..n
        /\ \A i \in 1..Len(rs) : rt[i] = rs[i]
        /\ rt[n] = r
    BY <1>1, AppendProperties, LenProperties
  <1>5. /\ IsFiniteSet(Units(rt, "trade", "protocolFee"))
        /\ SumOf(rt, "trade", "protocolFee") = SumOf(rs, "trade", "protocolFee") + r.protocolFee
    <2> DEFINE fee == r.protocolFee
    <2>1. IsFiniteSet(Units(rs, "trade", "protocolFee"))
      BY <1>1 DEF Counted
    <2>2. fee \in Nat /\ r["protocolFee"] = fee
      BY <1>2
    <2> HIDE DEF fee
    <2>3. /\ IsFiniteSet(Units(rt, "trade", "protocolFee"))
          /\ SumOf(rt, "trade", "protocolFee") = SumOf(rs, "trade", "protocolFee") + fee
      BY <1>1, <1>2, <2>1, <2>2, SameTable
    <2> QED BY <2>3 DEF fee
  <1>6. /\ IsFiniteSet(Units(rt, "trade", "creatorFee"))
        /\ SumOf(rt, "trade", "creatorFee") = SumOf(rs, "trade", "creatorFee") + r.creatorFee
    <2> DEFINE fee == r.creatorFee
    <2>1. IsFiniteSet(Units(rs, "trade", "creatorFee"))
      BY <1>1 DEF Counted
    <2>2. fee \in Nat /\ r["creatorFee"] = fee
      BY <1>2
    <2> HIDE DEF fee
    <2>3. /\ IsFiniteSet(Units(rt, "trade", "creatorFee"))
          /\ SumOf(rt, "trade", "creatorFee") = SumOf(rs, "trade", "creatorFee") + fee
      BY <1>1, <1>2, <2>1, <2>2, SameTable
    <2> QED BY <2>3 DEF fee
  <1>7. /\ Units(rt, "protocol_claim", "amount") = Units(rs, "protocol_claim", "amount")
        /\ Units(rt, "creator_claim", "amount") = Units(rs, "creator_claim", "amount")
    BY <1>1, <1>2, OtherTable
  <1> HIDE DEF rt
  <1>8. Counted(rt)
    BY <1>1, <1>5, <1>6, <1>7 DEF Counted
  <1>9. FeesBalance(rt, t)
    <2>1. t.protocolFees = s.protocolFees + r.protocolFee /\ t.creatorFees = s.creatorFees + r.creatorFee
      OBVIOUS
    <2>2. /\ SumOf(rs, "protocol_claim", "amount") \in Nat
          /\ SumOf(rs, "creator_claim", "amount") \in Nat
          /\ SumOf(rt, "protocol_claim", "amount") = SumOf(rs, "protocol_claim", "amount")
          /\ SumOf(rt, "creator_claim", "amount") = SumOf(rs, "creator_claim", "amount")
      BY <1>1, <1>7, SumsAreNatural DEF SumOf
    <2> QED BY <1>1, <1>2, <1>3, <1>5, <1>6, <2>1, <2>2 DEF FeesBalance
  <1>10. EthReserve(p, rt) = r.eth /\ TokenReserve(p, rt) = r.token
    BY <1>1, LastIsRead DEF rt, S
  <1>11. Phase(rt) = IF r.graduates THEN "graduated" ELSE "curve"
    BY <1>1, <1>2, PhaseFollowsTrades DEF rt, S
  <1>12. t.phase = Phase(rt) /\ t.virtualEth = r.eth /\ t.virtualToken = r.token
    BY <1>11
  <1> QED BY <1>4, <1>8, <1>9, <1>10, <1>12 DEF Rebuilds, S, rt

\* A claim of all that accrued, appended to the rows, stands for the state after it.
LEMMA RebuildsProtocolClaim ==
  ASSUME NEW rs, NEW s \in States, Rebuilds(p, rs, s), NEW r,
         r = ClaimRow("protocol_claim", s.protocolFees)
  PROVE  Rebuilds(p, Append(rs, r), [s EXCEPT !.protocolFees = 0])
  <1> DEFINE rt == Append(rs, r)
             t == [s EXCEPT !.protocolFees = 0]
             S == Rows
  <1>1. rs \in Seq(S) /\ Counted(rs) /\ FeesBalance(rs, s)
    BY DEF Rebuilds
  <1>2. /\ t \in States /\ t.phase = s.phase /\ t.virtualEth = s.virtualEth
        /\ t.virtualToken = s.virtualToken /\ t.protocolFees = 0 /\ t.creatorFees = s.creatorFees
        /\ s.protocolFees \in Nat /\ s.creatorFees \in Nat
    BY DEF States
  <1>3. /\ r \in ClaimRows /\ r \in S /\ r.kind = "protocol_claim" /\ r.kind # "trade"
        /\ r.kind # "creator_claim" /\ r["amount"] = s.protocolFees
    BY <1>2 DEF ClaimRow, ClaimRows, Rows
  <1>4. /\ rt \in Seq(S) /\ Phase(rt) = Phase(rs)
        /\ EthReserve(p, rt) = EthReserve(p, rs) /\ TokenReserve(p, rt) = TokenReserve(p, rs)
    BY <1>1, <1>3, ClaimKeepsReserves, PhaseFollowsTrades, AppendProperties
  <1> HIDE DEF S
  <1>5. /\ IsFiniteSet(Units(rt, "protocol_claim", "amount"))
        /\ SumOf(rt, "protocol_claim", "amount")
              = SumOf(rs, "protocol_claim", "amount") + s.protocolFees
    <2>1. IsFiniteSet(Units(rs, "protocol_claim", "amount"))
      BY <1>1 DEF Counted
    <2> QED BY <1>1, <1>2, <1>3, <2>1, SameTable
  <1>6. /\ Units(rt, "trade", "protocolFee") = Units(rs, "trade", "protocolFee")
        /\ Units(rt, "trade", "creatorFee") = Units(rs, "trade", "creatorFee")
        /\ Units(rt, "creator_claim", "amount") = Units(rs, "creator_claim", "amount")
    BY <1>1, <1>3, OtherTable
  <1> HIDE DEF rt, t
  <1>7. Counted(rt)
    BY <1>1, <1>5, <1>6 DEF Counted
  <1>8. FeesBalance(rt, t)
    <2>1. /\ SumOf(rs, "protocol_claim", "amount") \in Nat
          /\ SumOf(rt, "trade", "protocolFee") = SumOf(rs, "trade", "protocolFee")
          /\ SumOf(rt, "trade", "creatorFee") = SumOf(rs, "trade", "creatorFee")
          /\ SumOf(rt, "creator_claim", "amount") = SumOf(rs, "creator_claim", "amount")
      BY <1>1, <1>6, SumsAreNatural DEF SumOf
    <2>2. SumOf(rs, "trade", "protocolFee") = SumOf(rs, "protocol_claim", "amount") + s.protocolFees + 0
      BY <1>1, <1>2, <2>1 DEF FeesBalance
    <2> QED BY <1>1, <1>2, <1>5, <2>1, <2>2 DEF FeesBalance
  <1>9. /\ Phase(rt) = t.phase
        /\ EthReserve(p, rt) \in 0..MaxUint /\ TokenReserve(p, rt) \in 0..MaxUint
        /\ t.phase = "curve" => EthReserve(p, rt) = t.virtualEth /\ TokenReserve(p, rt) = t.virtualToken
    BY <1>2, <1>4 DEF Rebuilds
  <1>10. Rebuilds(p, rt, t)
    BY <1>4, <1>7, <1>8, <1>9 DEF Rebuilds, S
  <1> QED BY <1>10 DEF rt, t

\* The same for the creator.
LEMMA RebuildsCreatorClaim ==
  ASSUME NEW rs, NEW s \in States, Rebuilds(p, rs, s), NEW r,
         r = ClaimRow("creator_claim", s.creatorFees)
  PROVE  Rebuilds(p, Append(rs, r), [s EXCEPT !.creatorFees = 0])
  <1> DEFINE rt == Append(rs, r)
             t == [s EXCEPT !.creatorFees = 0]
             S == Rows
  <1>1. rs \in Seq(S) /\ Counted(rs) /\ FeesBalance(rs, s)
    BY DEF Rebuilds
  <1>2. /\ t \in States /\ t.phase = s.phase /\ t.virtualEth = s.virtualEth
        /\ t.virtualToken = s.virtualToken /\ t.creatorFees = 0 /\ t.protocolFees = s.protocolFees
        /\ s.creatorFees \in Nat /\ s.protocolFees \in Nat
    BY DEF States
  <1>3. /\ r \in ClaimRows /\ r \in S /\ r.kind = "creator_claim" /\ r.kind # "trade"
        /\ r.kind # "protocol_claim" /\ r["amount"] = s.creatorFees
    BY <1>2 DEF ClaimRow, ClaimRows, Rows
  <1>4. /\ rt \in Seq(S) /\ Phase(rt) = Phase(rs)
        /\ EthReserve(p, rt) = EthReserve(p, rs) /\ TokenReserve(p, rt) = TokenReserve(p, rs)
    BY <1>1, <1>3, ClaimKeepsReserves, PhaseFollowsTrades, AppendProperties
  <1> HIDE DEF S
  <1>5. /\ IsFiniteSet(Units(rt, "creator_claim", "amount"))
        /\ SumOf(rt, "creator_claim", "amount")
              = SumOf(rs, "creator_claim", "amount") + s.creatorFees
    <2>1. IsFiniteSet(Units(rs, "creator_claim", "amount"))
      BY <1>1 DEF Counted
    <2> QED BY <1>1, <1>2, <1>3, <2>1, SameTable
  <1>6. /\ Units(rt, "trade", "creatorFee") = Units(rs, "trade", "creatorFee")
        /\ Units(rt, "trade", "protocolFee") = Units(rs, "trade", "protocolFee")
        /\ Units(rt, "protocol_claim", "amount") = Units(rs, "protocol_claim", "amount")
    BY <1>1, <1>3, OtherTable
  <1> HIDE DEF rt, t
  <1>7. Counted(rt)
    BY <1>1, <1>5, <1>6 DEF Counted
  <1>8. FeesBalance(rt, t)
    <2>1. /\ SumOf(rs, "creator_claim", "amount") \in Nat
          /\ SumOf(rt, "trade", "creatorFee") = SumOf(rs, "trade", "creatorFee")
          /\ SumOf(rt, "trade", "protocolFee") = SumOf(rs, "trade", "protocolFee")
          /\ SumOf(rt, "protocol_claim", "amount") = SumOf(rs, "protocol_claim", "amount")
      BY <1>1, <1>6, SumsAreNatural DEF SumOf
    <2>2. SumOf(rs, "trade", "creatorFee") = SumOf(rs, "creator_claim", "amount") + s.creatorFees + 0
      BY <1>1, <1>2, <2>1 DEF FeesBalance
    <2> QED BY <1>1, <1>2, <1>5, <2>1, <2>2 DEF FeesBalance
  <1>9. /\ Phase(rt) = t.phase
        /\ EthReserve(p, rt) \in 0..MaxUint /\ TokenReserve(p, rt) \in 0..MaxUint
        /\ t.phase = "curve" => EthReserve(p, rt) = t.virtualEth /\ TokenReserve(p, rt) = t.virtualToken
    BY <1>2, <1>4 DEF Rebuilds
  <1>10. Rebuilds(p, rt, t)
    BY <1>4, <1>7, <1>8, <1>9 DEF Rebuilds, S
  <1> QED BY <1>10 DEF rt, t

\* Reserves of the pair, appended to the rows of a graduated token, leave its phase and its
\* fees as they are.
LEMMA RebuildsSync ==
  ASSUME NEW rs, NEW s \in States, Rebuilds(p, rs, s), s.phase = "graduated", NEW r \in SyncRows
  PROVE  Rebuilds(p, Append(rs, r), s)
  <1> DEFINE rt == Append(rs, r)
             S == Rows
  <1>1. rs \in Seq(S) /\ Counted(rs) /\ FeesBalance(rs, s) /\ Phase(rs) = s.phase
    BY DEF Rebuilds
  <1>2. /\ r \in S /\ r.kind # "trade" /\ r.kind # "protocol_claim" /\ r.kind # "creator_claim"
        /\ r.eth \in 0..MaxUint /\ r.token \in 0..MaxUint
    BY DEF SyncRows, Rows
  <1>3. /\ rt \in Seq(S) /\ Phase(rt) = Phase(rs)
        /\ EthReserve(p, rt) = r.eth /\ TokenReserve(p, rt) = r.token
    BY <1>1, <1>2, LastIsRead, PhaseFollowsTrades, AppendProperties
  <1> HIDE DEF S
  <1>4. /\ Units(rt, "trade", "protocolFee") = Units(rs, "trade", "protocolFee")
        /\ Units(rt, "trade", "creatorFee") = Units(rs, "trade", "creatorFee")
        /\ Units(rt, "protocol_claim", "amount") = Units(rs, "protocol_claim", "amount")
        /\ Units(rt, "creator_claim", "amount") = Units(rs, "creator_claim", "amount")
    BY <1>1, <1>2, OtherTable
  <1> HIDE DEF rt
  <1>5. Counted(rt) /\ FeesBalance(rt, s)
    BY <1>1, <1>4 DEF Counted, FeesBalance, SumOf
  <1> QED BY <1>1, <1>2, <1>3, <1>5 DEF Rebuilds, S, rt

\* What is read stands for the state, and is the state as long as the token trades on the
\* curve.
LEMMA ReadStandsFor ==
  ASSUME NEW rs, NEW s \in States, Rebuilds(p, rs, s)
  PROVE  /\ StandsFor(ReadQuoteState(p, rs), s)
         /\ s.phase = "curve" => ReadQuoteState(p, rs) = s
         /\ ReadQuoteState(p, rs).virtualEth \in 0..MaxUint
         /\ ReadQuoteState(p, rs).virtualToken \in 0..MaxUint
  <1> DEFINE t == ReadQuoteState(p, rs)
  <1>1. /\ Positive(SumOf(rs, "trade", "protocolFee") - SumOf(rs, "protocol_claim", "amount"))
              = s.protocolFees
        /\ Positive(SumOf(rs, "trade", "creatorFee") - SumOf(rs, "creator_claim", "amount"))
              = s.creatorFees
    <2>1. s.protocolFees \in Nat /\ s.creatorFees \in Nat
      BY DEF States
    <2>2. Counted(rs) /\ FeesBalance(rs, s)
      BY DEF Rebuilds
    <2> QED BY <2>1, <2>2, SumsAreNatural, Remainder DEF FeesBalance
  <1>2. t = [phase |-> Phase(rs), virtualEth |-> EthReserve(p, rs),
             virtualToken |-> TokenReserve(p, rs),
             protocolFees |-> s.protocolFees, creatorFees |-> s.creatorFees]
    BY <1>1 DEF ReadQuoteState
  <1> HIDE DEF t
  <1>3. StandsFor(t, s) /\ t.virtualEth \in 0..MaxUint /\ t.virtualToken \in 0..MaxUint
    BY <1>2 DEF StandsFor, Rebuilds
  <1>4. s.phase = "curve" => t = s
    BY <1>2, StateIsFields DEF Rebuilds
  <1> QED BY <1>3, <1>4 DEF t

-----------------------------------------------------------------------------
(* The contract's arithmetic. *)

\* What validateParameters guarantees, for a token whose products fit.
LEMMA LaunchedFacts ==
  ASSUME p \in AllParameters, NewParameters(p) = "none"
  PROVE  /\ p.initialVirtualEth \in Nat \ {0} /\ p.initialVirtualToken \in Nat \ {0}
         /\ p.tradeFeeBps \in Nat /\ p.tradeFeeBps < Bps
         /\ p.protocolShareBps \in Nat /\ p.protocolShareBps <= Bps
         /\ Invariant(p) \in Nat \ {0} /\ Invariant(p) <= MaxUint
         /\ FinalVirtualEth(p) \in Nat \ {0} /\ FinalVirtualEth(p) <= MaxUint
         /\ p.initialVirtualEth < FinalVirtualEth(p)
         /\ FinalVirtualToken(p) \in Nat \ {0} /\ FinalVirtualToken(p) < p.initialVirtualToken
         /\ p.initialVirtualToken <= MaxUint
         /\ Chain!CeilDiv(Invariant(p), FinalVirtualToken(p)) = FinalVirtualEth(p)
         /\ Chain!CeilDiv(Invariant(p), FinalVirtualEth(p)) = FinalVirtualToken(p)
  <1> DEFINE e == p.initialVirtualEth
             v == p.initialVirtualToken
  <1>1. /\ p.curveTokens \in Nat /\ p.lpTokens \in Nat /\ p.graduationEth \in Nat
        /\ e \in Nat /\ v \in Nat /\ p.tradeFeeBps \in Nat /\ p.protocolShareBps \in Nat
        /\ Bps \in Nat /\ MaxUint \in Nat
    BY ParametersTyped, WidthAssumption
  <1>2. Chain!ValidParameters(p) /\ Invariant(p) <= MaxUint /\ FinalVirtualEth(p) <= MaxUint
    BY ParametersMatch
  <1>3. /\ p.lpTokens > 0 /\ p.curveTokens > p.lpTokens /\ p.graduationEth > 0 /\ e > 0
        /\ v > p.curveTokens /\ p.tradeFeeBps < Bps /\ p.protocolShareBps <= Bps
        /\ Chain!CeilDiv(Invariant(p), FinalVirtualToken(p)) = FinalVirtualEth(p)
        /\ Chain!CeilDiv(Invariant(p), FinalVirtualEth(p)) = FinalVirtualToken(p)
    BY <1>2 DEF Chain!ValidParameters, Invariant, FinalVirtualEth, FinalVirtualToken
  <1>4. Invariant(p) = e * v /\ FinalVirtualEth(p) = e + p.graduationEth
        /\ FinalVirtualToken(p) = v - p.curveTokens
    BY DEF Invariant, FinalVirtualEth, FinalVirtualToken
  <1> HIDE DEF e, v
  <1>5. /\ FinalVirtualEth(p) \in Nat \ {0} /\ e < FinalVirtualEth(p)
        /\ FinalVirtualToken(p) \in Nat \ {0} /\ FinalVirtualToken(p) < v
    BY <1>1, <1>3, <1>4
  <1>6. e * v \in Nat \ {0} /\ v <= e * v
    <2>1. e \in Nat \ {0} /\ v \in Nat \ {0}
      BY <1>1, <1>3
    <2> QED BY <2>1
  <1>7. v <= MaxUint
    BY <1>1, <1>2, <1>4, <1>6
  <1> QED BY <1>1, <1>2, <1>3, <1>4, <1>5, <1>6, <1>7 DEF e, v

\* What integer division returns.
LEMMA DivBounds ==
  ASSUME NEW a \in Int, NEW b \in Nat \ {0}
  PROVE  (a \div b) \in Int /\ b * (a \div b) <= a /\ a < b * (a \div b) + b
  OBVIOUS

\* A product grows with its factors.
LEMMA ProductGrows ==
  ASSUME NEW a \in Nat, NEW b \in Nat, NEW c \in Nat, a <= b
  PROVE  a * c <= b * c /\ c * a <= c * b /\ a * c \in Nat
  OBVIOUS

\* A share of an amount is part of it.
LEMMA ShareIsPart ==
  ASSUME NEW amount \in Nat, NEW bps \in Nat, bps <= Bps
  PROVE  (amount * bps) \div Bps \in Nat /\ (amount * bps) \div Bps <= amount
  <1> DEFINE part == (amount * bps) \div Bps
  <1>1. Bps \in Nat \ {0}
    BY WidthAssumption
  <1>2. amount * bps \in Nat /\ amount * bps <= amount * Bps
    BY <1>1, ProductGrows
  <1>3. part \in Int /\ Bps * part <= amount * bps /\ amount * bps < Bps * part + Bps
    BY <1>1, <1>2, DivBounds
  <1> HIDE DEF part
  <1>4. part >= 0
    BY <1>1, <1>2, <1>3
  <1>5. part <= amount
    <2> SUFFICES ASSUME part >= amount + 1 PROVE FALSE
      BY <1>3
    <2>1. Bps * part >= Bps * (amount + 1)
      BY <1>1, <1>3, <1>4, ProductGrows
    <2> QED BY <1>1, <1>2, <1>3, <2>1
  <1> QED BY <1>3, <1>4, <1>5 DEF part

\* splitFees: both fees are amounts, and the total is part of the gross amount.
LEMMA FeesAreAmounts ==
  ASSUME NEW gross \in Nat, NEW feeBps \in Nat, feeBps <= Bps, NEW shareBps \in Nat, shareBps <= Bps,
         NEW fees, fees = Chain!SplitFees(gross, feeBps, shareBps)
  PROVE  /\ fees.total \in Nat /\ fees.total <= gross
         /\ fees.protocol \in Nat /\ fees.creator \in Nat
         /\ fees.total = Chain!TotalFee(gross, feeBps)
  <1> DEFINE total == Chain!TotalFee(gross, feeBps)
             protocol == Chain!ProtocolFee(total, shareBps)
  <1>1. total \in Nat /\ total <= gross
    BY ShareIsPart DEF Chain!TotalFee
  <1>2. protocol \in Nat /\ protocol <= total
    BY <1>1, ShareIsPart DEF Chain!ProtocolFee
  <1>3. fees = [total |-> total, protocol |-> protocol, creator |-> total - protocol]
    BY DEF Chain!SplitFees
  <1> HIDE DEF total, protocol
  <1>4. fees.total \in Nat /\ fees.total <= gross /\ fees.protocol \in Nat /\ fees.creator \in Nat
    BY <1>1, <1>2, <1>3
  <1> QED BY <1>3, <1>4 DEF total

\* Rounding a positive amount up gives a positive amount.
LEMMA CeilDivPositive ==
  ASSUME NEW n \in Nat \ {0}, NEW d \in Nat \ {0}
  PROVE  Chain!CeilDiv(n, d) \in Nat \ {0}
  <1> DEFINE q == (n - 1) \div d
  <1>1. q \in Int /\ d * q <= n - 1 /\ n - 1 < d * q + d
    BY DivBounds
  <1>2. Chain!CeilDiv(n, d) = q + 1
    BY DEF Chain!CeilDiv
  <1> HIDE DEF q
  <1>3. q >= 0
    BY <1>1
  <1> QED BY <1>1, <1>2, <1>3

\* Rounding up returns the least quotient that covers the numerator.
LEMMA CeilDivBounds ==
  ASSUME NEW n \in Nat \ {0}, NEW d \in Nat \ {0}
  PROVE  /\ Chain!CeilDiv(n, d) \in Nat \ {0}
         /\ Chain!CeilDiv(n, d) * d >= n
         /\ \A c \in Nat : c * d >= n => Chain!CeilDiv(n, d) <= c
  <1> DEFINE r == Chain!CeilDiv(n, d)
             k == (n - 1) \div d
  <1>1. k \in Int /\ d * k <= n - 1 /\ n - 1 < d * k + d
    BY DivBounds
  <1>2. r = k + 1
    BY DEF Chain!CeilDiv
  <1> HIDE DEF k
  <1>3. r \in Nat \ {0}
    BY CeilDivPositive
  <1> HIDE DEF r
  <1>4. r * d = d * k + d /\ (r - 1) * d = d * k
    BY <1>1, <1>2
  <1>5. r * d >= n /\ (r - 1) * d < n
    BY <1>1, <1>3, <1>4
  <1>6. ASSUME NEW c \in Nat, c * d >= n PROVE r <= c
    <2> SUFFICES ASSUME c <= r - 1 PROVE FALSE
      BY <1>3
    <2>1. c * d <= (r - 1) * d
      BY <1>3, ProductGrows
    <2> QED BY <1>3, <1>5, <1>6, <2>1
  <1> QED BY <1>3, <1>5, <1>6 DEF r

\* exactGrossForNet returns a positive amount.
LEMMA ExactGrossPositive ==
  ASSUME NEW net \in Nat \ {0}, NEW feeBps \in Nat, feeBps < Bps
  PROVE  Chain!ExactGrossForNet(net, feeBps) \in Nat \ {0}
  <1> DEFINE rest == Bps - feeBps
             q == ((net - 1) * Bps) \div rest
  <1>1. Bps \in Nat \ {0} /\ rest \in Nat \ {0} /\ (net - 1) * Bps \in Nat
    BY WidthAssumption
  <1> HIDE DEF rest
  <1>2. q \in Int /\ (net - 1) * Bps < rest * q + rest
    BY <1>1, DivBounds
  <1>3. Chain!ExactGrossForNet(net, feeBps) = q + 1
    BY DEF Chain!ExactGrossForNet, rest
  <1> HIDE DEF q
  <1>4. q >= 0
    BY <1>1, <1>2
  <1> QED BY <1>2, <1>3, <1>4

\* An amount leaves less than `net` after the fee as long as it is below the one that
\* exactGrossForNet returns.
LEMMA NetFallsShort ==
  ASSUME NEW net \in Nat \ {0}, NEW fee \in Nat, fee < Bps, NEW h \in Nat
  PROVE  Net(h, fee) < net <=> h < Chain!ExactGrossForNet(net, fee)
  <1> DEFINE rest == Bps - fee
             k == ((net - 1) * Bps) \div rest
             total == (h * fee) \div Bps
  <1>1. Bps \in Nat \ {0} /\ rest \in Nat \ {0} /\ (net - 1) * Bps \in Nat /\ h * fee \in Nat
    BY WidthAssumption
  <1>2. rest = Bps - fee
    OBVIOUS
  <1> HIDE DEF rest
  <1>3. k \in Int /\ rest * k <= (net - 1) * Bps /\ (net - 1) * Bps < rest * k + rest
    BY <1>1, DivBounds
  <1>4. total \in Int /\ Bps * total <= h * fee /\ h * fee < Bps * total + Bps
    BY <1>1, DivBounds
  <1>5. Chain!ExactGrossForNet(net, fee) = k + 1 /\ Net(h, fee) = h - total
    BY DEF Chain!ExactGrossForNet, Net, Chain!TotalFee, rest
  <1> HIDE DEF k, total
  <1>6. h * rest = h * Bps - h * fee
    BY <1>1, <1>2
  <1>7. h - total < net <=> h * rest <= (net - 1) * Bps
    <2>1. Bps * (h - net + 1) = h * Bps - (net - 1) * Bps
      BY <1>1
    <2>2. ASSUME h - total < net PROVE h * rest <= (net - 1) * Bps
      <3>1. h - net + 1 <= total
        BY <1>4, <2>2
      <3>2. Bps * (h - net + 1) <= Bps * total
        BY <1>1, <1>4, <3>1
      <3> QED BY <1>1, <1>4, <1>6, <2>1, <3>2
    <2>3. ASSUME ~(h - total < net) PROVE ~(h * rest <= (net - 1) * Bps)
      <3>1. h - net + 1 >= total + 1
        BY <1>4, <2>3
      <3>2. Bps * (h - net + 1) >= Bps * (total + 1)
        BY <1>1, <1>4, <3>1
      <3>3. Bps * (total + 1) = Bps * total + Bps
        BY <1>1, <1>4
      <3> QED BY <1>1, <1>4, <1>6, <2>1, <3>2, <3>3
    <2> QED BY <2>2, <2>3
  <1>8. h * rest <= (net - 1) * Bps <=> h <= k
    <2>1. ASSUME h <= k PROVE h * rest <= (net - 1) * Bps
      <3>1. h * rest <= rest * k
        BY <1>1, <1>3, <2>1
      <3> QED BY <1>1, <1>3, <3>1
    <2>2. ASSUME ~(h <= k) PROVE ~(h * rest <= (net - 1) * Bps)
      <3>1. h >= k + 1
        BY <1>3, <2>2
      <3>2. h * rest >= rest * k + rest
        <4>1. h * rest >= (k + 1) * rest
          BY <1>1, <1>3, <3>1
        <4> QED BY <1>1, <1>3, <4>1
      <3> QED BY <1>1, <1>3, <3>2
    <2> QED BY <2>1, <2>2
  <1> QED BY <1>3, <1>4, <1>5, <1>7, <1>8

-----------------------------------------------------------------------------
(* What the contract quotes, position by position. *)

Launched == p \in AllParameters /\ NewParameters(p) = "none"

\* The reserves stay between the ends of the curve and cover the invariant, and only a
\* graduated market has reached the end in ETH.
InRange(q, s) ==
  /\ s \in States
  /\ s.virtualEth > 0 /\ s.virtualEth <= FinalVirtualEth(q)
  /\ s.virtualToken <= q.initialVirtualToken
  /\ s.virtualEth * s.virtualToken >= Invariant(q)
  /\ s.phase = "curve" => s.virtualEth < FinalVirtualEth(q)

Supplied(gross) == Chain!SplitFees(gross, p.tradeFeeBps, p.protocolShareBps)
EthAfter(s, gross) == s.virtualEth + gross - Supplied(gross).total
TokenAfter(s, gross) == Chain!CeilDiv(Invariant(p), EthAfter(s, gross))
GrossLeft(s) == Chain!ExactGrossForNet(FinalVirtualEth(p) - s.virtualEth, p.tradeFeeBps)

\* The quote of a buy, before the contract's conditions on it.
BuyQuote(s, gross) ==
  IF EthAfter(s, gross) > FinalVirtualEth(p)
  THEN [used |-> GrossLeft(s), refund |-> gross - GrossLeft(s), fees |-> Supplied(GrossLeft(s)),
        newEth |-> FinalVirtualEth(p), newToken |-> FinalVirtualToken(p),
        tokensOut |-> s.virtualToken - FinalVirtualToken(p), graduates |-> TRUE]
  ELSE [used |-> gross, refund |-> 0, fees |-> Supplied(gross),
        newEth |-> EthAfter(s, gross), newToken |-> TokenAfter(s, gross),
        tokensOut |-> s.virtualToken - TokenAfter(s, gross),
        graduates |-> TokenAfter(s, gross) = FinalVirtualToken(p)]

BuyAllowed(s, gross) ==
  /\ gross > 0
  /\ TokenAfter(s, gross) < s.virtualToken
  /\ BuyQuote(s, gross).tokensOut > 0
  /\ BuyQuote(s, gross).refund >= 0

\* What the contract does with a buy, as a set: that quote, if it is allowed.
LEMMA ContractBuysOne ==
  ASSUME Launched, NEW gross \in Nat, NEW q
  PROVE  q \in ContractBuys(gross) <=> q = BuyQuote(market, gross) /\ BuyAllowed(market, gross)
  <1>1. Chain!CeilDiv(Invariant(p), FinalVirtualToken(p)) = FinalVirtualEth(p)
    BY LaunchedFacts DEF Launched
  <1> QED BY <1>1 DEF ContractBuys, Chain!QuoteBuy, BuyQuote, BuyAllowed, EthAfter, TokenAfter,
                      Supplied, GrossLeft

\* Amounts of a buy.
LEMMA BuyAmounts ==
  ASSUME Launched, NEW s, InRange(p, s), s.phase = "curve", NEW gross \in Nat
  PROVE  /\ Supplied(gross).total \in Nat /\ Supplied(gross).total <= gross
         /\ Supplied(gross).protocol \in Nat /\ Supplied(gross).creator \in Nat
         /\ Supplied(gross).total = Chain!TotalFee(gross, p.tradeFeeBps)
         /\ EthAfter(s, gross) \in Nat \ {0}
         /\ TokenAfter(s, gross) \in Nat \ {0}
         /\ GrossLeft(s) \in Nat \ {0}
         /\ Supplied(GrossLeft(s)).protocol \in Nat /\ Supplied(GrossLeft(s)).creator \in Nat
  <1>1. /\ p.tradeFeeBps \in Nat /\ p.tradeFeeBps < Bps /\ p.tradeFeeBps <= Bps
        /\ p.protocolShareBps \in Nat /\ p.protocolShareBps <= Bps
        /\ Invariant(p) \in Nat \ {0} /\ FinalVirtualEth(p) \in Nat
    BY LaunchedFacts, WidthAssumption DEF Launched
  <1>2. s.virtualEth \in Nat \ {0} /\ s.virtualEth < FinalVirtualEth(p)
    BY DEF InRange, States
  <1>3. /\ Supplied(gross).total \in Nat /\ Supplied(gross).total <= gross
        /\ Supplied(gross).protocol \in Nat /\ Supplied(gross).creator \in Nat
        /\ Supplied(gross).total = Chain!TotalFee(gross, p.tradeFeeBps)
    BY <1>1, FeesAreAmounts DEF Supplied
  <1>4. EthAfter(s, gross) \in Nat \ {0}
    BY <1>2, <1>3 DEF EthAfter
  <1>5. TokenAfter(s, gross) \in Nat \ {0}
    BY <1>1, <1>4, CeilDivPositive DEF TokenAfter
  <1>6. GrossLeft(s) \in Nat \ {0}
    <2>1. FinalVirtualEth(p) - s.virtualEth \in Nat \ {0}
      BY <1>1, <1>2
    <2> QED BY <1>1, <2>1, ExactGrossPositive DEF GrossLeft
  <1>7. Supplied(GrossLeft(s)).protocol \in Nat /\ Supplied(GrossLeft(s)).creator \in Nat
    BY <1>1, <1>6, FeesAreAmounts DEF Supplied
  <1> QED BY <1>3, <1>4, <1>5, <1>6, <1>7

\* A buy logs a trade and leaves the market in range.
LEMMA BuyStaysInRange ==
  ASSUME Launched, NEW s, InRange(p, s), s.phase = "curve", NEW gross \in Nat,
         BuyAllowed(s, gross), NEW q, q = BuyQuote(s, gross), NEW phase,
         phase = IF q.graduates THEN "graduated" ELSE "curve"
  PROVE  /\ TradeRow(q, q.graduates) \in TradeRows
         /\ InRange(p, Advanced(s, phase, q.newEth, q.newToken, q.fees))
  <1> DEFINE F == FinalVirtualEth(p)
             D == FinalVirtualToken(p)
  <1>1. /\ F \in Nat \ {0} /\ D \in Nat \ {0} /\ p.initialVirtualToken \in Nat
        /\ D <= p.initialVirtualToken /\ Chain!CeilDiv(Invariant(p), F) = D
        /\ Invariant(p) \in Nat \ {0}
    BY LaunchedFacts DEF Launched
  <1>2. /\ s.virtualToken \in Nat /\ s.virtualToken <= p.initialVirtualToken
        /\ s.protocolFees \in Nat /\ s.creatorFees \in Nat
    BY DEF InRange, States
  <1>3. /\ EthAfter(s, gross) \in Nat \ {0} /\ TokenAfter(s, gross) \in Nat \ {0}
        /\ TokenAfter(s, gross) < s.virtualToken
        /\ Supplied(gross).protocol \in Nat /\ Supplied(gross).creator \in Nat
        /\ Supplied(GrossLeft(s)).protocol \in Nat /\ Supplied(GrossLeft(s)).creator \in Nat
    BY BuyAmounts DEF BuyAllowed
  <1> HIDE DEF F, D
  <1>4. /\ q.newEth \in Nat \ {0} /\ q.newEth <= F
        /\ q.newToken \in Nat /\ q.newToken <= p.initialVirtualToken
        /\ q.graduates \in BOOLEAN /\ (q.graduates \/ q.newEth < F)
        /\ q.fees.protocol \in Nat /\ q.fees.creator \in Nat
        /\ q.newEth * q.newToken >= Invariant(p)
    <2>1. CASE EthAfter(s, gross) > F
      <3>1. q.newEth = F /\ q.newToken = D /\ q.fees = Supplied(GrossLeft(s))
        BY <2>1 DEF BuyQuote, F, D
      <3>2. q.graduates \in BOOLEAN /\ q.graduates
        BY <2>1 DEF BuyQuote, F, D
      <3>3. q.newEth \in Nat \ {0} /\ q.newEth <= F /\ q.newToken \in Nat
            /\ q.newToken <= p.initialVirtualToken
            /\ q.fees.protocol \in Nat /\ q.fees.creator \in Nat
        BY <1>1, <1>3, <3>1
      <3>4. q.newEth * q.newToken >= Invariant(p)
        <4>1. D * F >= Invariant(p)
          BY <1>1, CeilDivBounds
        <4> QED BY <1>1, <3>1, <4>1
      <3> QED BY <3>2, <3>3, <3>4
    <2>2. CASE ~(EthAfter(s, gross) > F)
      <3>1. /\ q.newEth = EthAfter(s, gross) /\ q.newToken = TokenAfter(s, gross)
            /\ q.fees = Supplied(gross)
        BY <2>2 DEF BuyQuote, F, D
      <3>4. q.graduates \in BOOLEAN /\ (q.graduates <=> TokenAfter(s, gross) = D)
        BY <2>2 DEF BuyQuote, F, D
      <3>2. EthAfter(s, gross) = F => TokenAfter(s, gross) = D
        BY <1>1 DEF TokenAfter
      <3>3. q.graduates \/ q.newEth < F
        BY <1>1, <1>3, <2>2, <3>1, <3>2, <3>4
      <3>5. q.newEth \in Nat \ {0} /\ q.newEth <= F /\ q.newToken \in Nat
            /\ q.newToken <= p.initialVirtualToken
            /\ q.fees.protocol \in Nat /\ q.fees.creator \in Nat
        BY <1>1, <1>2, <1>3, <2>2, <3>1
      <3>6. q.newEth * q.newToken >= Invariant(p)
        <4>1. TokenAfter(s, gross) * EthAfter(s, gross) >= Invariant(p)
          BY <1>1, <1>3, CeilDivBounds DEF TokenAfter
        <4> QED BY <1>1, <1>3, <3>1, <4>1
      <3> QED BY <3>3, <3>4, <3>5, <3>6
    <2> QED BY <2>1, <2>2
  <1>5. TradeRow(q, q.graduates) \in TradeRows
    BY <1>4 DEF TradeRow, TradeRows
  <1> DEFINE t == Advanced(s, phase, q.newEth, q.newToken, q.fees)
  <1>6. /\ t = [phase |-> phase, virtualEth |-> q.newEth, virtualToken |-> q.newToken,
                protocolFees |-> s.protocolFees + q.fees.protocol,
                creatorFees |-> s.creatorFees + q.fees.creator]
        /\ phase \in {"curve", "graduated"} /\ (phase = "curve" => ~q.graduates)
        /\ s.protocolFees + q.fees.protocol \in Nat /\ s.creatorFees + q.fees.creator \in Nat
    BY <1>2, <1>4 DEF Advanced
  <1> HIDE DEF t
  <1>7. InRange(p, t)
    BY <1>1, <1>4, <1>6 DEF InRange, States, F
  <1> QED BY <1>5, <1>7 DEF t

\* The quote of a sale, before the contract's conditions on it.
EthLeft(s, tokens) == Chain!CeilDiv(Invariant(p), s.virtualToken + tokens)
EthGross(s, tokens) == s.virtualEth - EthLeft(s, tokens)

SellQuote(s, tokens) ==
  [ethGross |-> EthGross(s, tokens), ethOut |-> EthGross(s, tokens) - Supplied(EthGross(s, tokens)).total,
   fees |-> Supplied(EthGross(s, tokens)),
   newEth |-> EthLeft(s, tokens), newToken |-> s.virtualToken + tokens]

SellAllowed(s, tokens) ==
  /\ tokens > 0
  /\ tokens <= p.initialVirtualToken - s.virtualToken
  /\ EthGross(s, tokens) > 0
  /\ SellQuote(s, tokens).ethOut > 0

\* What the contract does with a sale.
LEMMA ContractSellsOne ==
  ASSUME NEW tokens, NEW q
  PROVE  q \in ContractSells(tokens) <=> q = SellQuote(market, tokens) /\ SellAllowed(market, tokens)
  BY DEF ContractSells, Chain!QuoteSell, SellQuote, SellAllowed, EthLeft, EthGross, Supplied

\* A sale logs a trade and leaves the market in range.
LEMMA SellStaysInRange ==
  ASSUME Launched, NEW s, InRange(p, s), s.phase = "curve", NEW tokens \in Nat,
         SellAllowed(s, tokens), NEW q, q = SellQuote(s, tokens)
  PROVE  /\ TradeRow(q, FALSE) \in TradeRows
         /\ InRange(p, Advanced(s, "curve", q.newEth, q.newToken, q.fees))
  <1>1. /\ p.tradeFeeBps \in Nat /\ p.tradeFeeBps <= Bps
        /\ p.protocolShareBps \in Nat /\ p.protocolShareBps <= Bps
        /\ Invariant(p) \in Nat \ {0} /\ FinalVirtualEth(p) \in Nat /\ p.initialVirtualToken \in Nat
    BY LaunchedFacts, WidthAssumption DEF Launched
  <1>2. /\ s.virtualEth \in Nat /\ s.virtualEth < FinalVirtualEth(p) /\ s.virtualToken \in Nat
        /\ s.protocolFees \in Nat /\ s.creatorFees \in Nat
    BY DEF InRange, States
  <1>3. tokens > 0 /\ tokens <= p.initialVirtualToken - s.virtualToken /\ EthGross(s, tokens) > 0
    BY DEF SellAllowed
  <1>4. s.virtualToken + tokens \in Nat \ {0} /\ s.virtualToken + tokens <= p.initialVirtualToken
    BY <1>1, <1>2, <1>3
  <1>5. EthLeft(s, tokens) \in Nat \ {0}
    BY <1>1, <1>4, CeilDivPositive DEF EthLeft
  <1>6. EthGross(s, tokens) \in Nat /\ EthLeft(s, tokens) < FinalVirtualEth(p)
    BY <1>1, <1>2, <1>3, <1>5 DEF EthGross
  <1>7. Supplied(EthGross(s, tokens)).protocol \in Nat /\ Supplied(EthGross(s, tokens)).creator \in Nat
    BY <1>1, <1>6, FeesAreAmounts DEF Supplied
  <1>8. /\ q.newEth \in Nat \ {0} /\ q.newEth < FinalVirtualEth(p)
        /\ q.newToken \in Nat /\ q.newToken <= p.initialVirtualToken
        /\ q.fees.protocol \in Nat /\ q.fees.creator \in Nat
    BY <1>4, <1>5, <1>6, <1>7 DEF SellQuote
  <1>12. q.newEth * q.newToken >= Invariant(p)
    <2>1. q.newEth = EthLeft(s, tokens) /\ q.newToken = s.virtualToken + tokens
      BY DEF SellQuote
    <2>2. EthLeft(s, tokens) * (s.virtualToken + tokens) >= Invariant(p)
      BY <1>1, <1>4, CeilDivBounds DEF EthLeft
    <2> QED BY <2>1, <2>2
  <1>9. TradeRow(q, FALSE) \in TradeRows
    BY <1>8 DEF TradeRow, TradeRows
  <1> DEFINE t == Advanced(s, "curve", q.newEth, q.newToken, q.fees)
  <1>10. /\ t = [phase |-> "curve", virtualEth |-> q.newEth, virtualToken |-> q.newToken,
                 protocolFees |-> s.protocolFees + q.fees.protocol,
                 creatorFees |-> s.creatorFees + q.fees.creator]
         /\ s.protocolFees + q.fees.protocol \in Nat /\ s.creatorFees + q.fees.creator \in Nat
    BY <1>2, <1>8 DEF Advanced
  <1> HIDE DEF t
  <1>11. InRange(p, t)
    BY <1>1, <1>8, <1>10, <1>12 DEF InRange, States
  <1> QED BY <1>9, <1>11 DEF t

-----------------------------------------------------------------------------
(* The inductive invariant. *)

\* The state of the contract after the first n rows.
StateAt(n) == IF n = Len(rows) THEN market ELSE history[n + 1]

\* Every prefix of the rows stands for the state of the contract at that time: what a
\* rollback leaves behind is a prefix.
PrefixesRebuild ==
  \A n \in 0..Len(rows) :
    Rebuilds(p, SubSeq(rows, 1, n), StateAt(n)) /\ InRange(p, StateAt(n))

Known == p \in AllParameters

Unlaunched == market.phase = "none" /\ rows = <<>> /\ history = <<>>

OnChain ==
  /\ Launched
  /\ rows \in Seq(Rows)
  /\ history \in Seq(States)
  /\ Len(history) = Len(rows)
  /\ PrefixesRebuild

IInv == Known /\ (Unlaunched \/ OnChain)

\* The reserves of a market on its curve are uint256.
LEMMA RangeFits ==
  ASSUME Launched, NEW s, InRange(p, s)
  PROVE  s.virtualEth \in 0..MaxUint /\ s.virtualToken \in 0..MaxUint
  BY LaunchedFacts, WidthAssumption DEF InRange, Launched, States

\* The present market is the last of the states.
LEMMA PresentRebuilds ==
  ASSUME OnChain
  PROVE  /\ Rebuilds(p, rows, market) /\ InRange(p, market) /\ market \in States
         /\ market.phase \in {"curve", "graduated"}
  <1>1. Len(rows) \in 0..Len(rows) /\ SubSeq(rows, 1, Len(rows)) = rows
    BY SubSeqFull, LenProperties DEF OnChain
  <1>2. Rebuilds(p, SubSeq(rows, 1, Len(rows)), StateAt(Len(rows))) /\ InRange(p, StateAt(Len(rows)))
    BY <1>1 DEF OnChain, PrefixesRebuild
  <1>3. StateAt(Len(rows)) = market
    BY DEF StateAt
  <1> QED BY <1>1, <1>2, <1>3 DEF InRange, States

\* A logged row that stands for the next state keeps the invariant.
LEMMA LogKeepsRebuilding ==
  ASSUME OnChain, NEW row, NEW next, Log(row, next), row \in Rows,
         Rebuilds(p, Append(rows, row), next), InRange(p, next)
  PROVE  OnChain'
  <1> DEFINE S == Rows
             len == Len(rows)
  <1>1. /\ rows \in Seq(S) /\ history \in Seq(States) /\ Len(history) = len /\ len \in Nat
        /\ market \in States /\ row \in S
    BY PresentRebuilds, LenProperties DEF OnChain
  <1>2. rows' = Append(rows, row) /\ history' = Append(history, market) /\ market' = next /\ p' = p
    BY DEF Log
  <1> HIDE DEF S
  <1>3. /\ rows' \in Seq(S) /\ Len(rows') = len + 1
        /\ \A i \in 1..len : rows'[i] = rows[i]
    BY <1>1, <1>2, AppendProperties
  <1>4. /\ history' \in Seq(States) /\ Len(history') = len + 1
        /\ \A i \in 1..len : history'[i] = history[i]
        /\ history'[len + 1] = market
    BY <1>1, <1>2, AppendProperties
  <1>5. ASSUME NEW n \in 0..(len + 1)
        PROVE  Rebuilds(p, SubSeq(rows', 1, n), StateAt(n)') /\ InRange(p, StateAt(n)')
    <2>1. CASE n = len + 1
      <3>1. StateAt(n)' = next
        BY <1>2, <1>3, <2>1 DEF StateAt
      <3>2. SubSeq(rows', 1, n) = Append(rows, row)
        BY <1>2, <1>3, <2>1, SubSeqFull
      <3> QED BY <3>1, <3>2
    <2>2. CASE n # len + 1
      <3>1. n \in 0..len
        BY <1>1, <2>2
      <3>2. StateAt(n)' = StateAt(n)
        <4>1. StateAt(n)' = history'[n + 1]
          BY <1>3, <2>2 DEF StateAt
        <4> QED BY <1>1, <1>4, <3>1, <4>1 DEF StateAt
      <3>3. SubSeq(rows', 1, n) = SubSeq(rows, 1, n)
        <4>1. \A i \in 1..n : rows'[i] = rows[i] /\ rows[i] \in S /\ rows'[i] \in S
          BY <1>1, <1>3, <3>1, ElementOfSeq
        <4>2. /\ SubSeq(rows, 1, n) \in Seq(S) /\ Len(SubSeq(rows, 1, n)) = n
              /\ \A i \in 1..n : SubSeq(rows, 1, n)[i] = rows[i]
          BY <3>1, <4>1, SubSeqProperties
        <4>3. /\ SubSeq(rows', 1, n) \in Seq(S) /\ Len(SubSeq(rows', 1, n)) = n
              /\ \A i \in 1..n : SubSeq(rows', 1, n)[i] = rows'[i]
          BY <3>1, <4>1, SubSeqProperties
        <4> QED BY <4>1, <4>2, <4>3, SeqEqual
      <3>4. Rebuilds(p, SubSeq(rows, 1, n), StateAt(n)) /\ InRange(p, StateAt(n))
        BY <3>1 DEF OnChain, PrefixesRebuild
      <3> QED BY <3>2, <3>3, <3>4
    <2> QED BY <2>1, <2>2
  <1>6. PrefixesRebuild'
    BY <1>2, <1>3, <1>5 DEF PrefixesRebuild
  <1>7. Launched'
    BY <1>2 DEF OnChain, Launched
  <1> QED BY <1>3, <1>4, <1>6, <1>7 DEF OnChain, S

\* A launched market stands at the initial reserves, with no rows.
LEMMA LaunchStep ==
  ASSUME Known, Unlaunched, Launch PROVE OnChain'
  <1> DEFINE s == [phase |-> "curve", virtualEth |-> p.initialVirtualEth,
                   virtualToken |-> p.initialVirtualToken, protocolFees |-> 0, creatorFees |-> 0]
  <1>1. p' = p /\ rows' = <<>> /\ history' = <<>> /\ market' = s
    BY DEF Launch, Unlaunched
  <1>2. Launched
    BY ParametersMatch DEF Launch, Launched, Known
  <1>3. InRange(p, s)
    <2>1. /\ p.initialVirtualEth \in Nat \ {0} /\ p.initialVirtualToken \in Nat \ {0}
          /\ p.initialVirtualEth < FinalVirtualEth(p) /\ FinalVirtualEth(p) \in Nat
      BY <1>2, LaunchedFacts DEF Launched
    <2>2. p.initialVirtualEth * p.initialVirtualToken >= Invariant(p)
      BY <2>1 DEF Invariant
    <2> QED BY <2>1, <2>2 DEF InRange, States
  <1>4. Rebuilds(p, <<>>, s)
    <2>1. s.virtualEth \in 0..MaxUint /\ s.virtualToken \in 0..MaxUint
      BY <1>2, <1>3, RangeFits
    <2> QED BY <2>1, NoRows
  <1> HIDE DEF s
  <1>5. PrefixesRebuild'
    <2> SUFFICES ASSUME NEW n \in 0..Len(rows')
                 PROVE  Rebuilds(p', SubSeq(rows', 1, n), StateAt(n)') /\ InRange(p', StateAt(n)')
      BY DEF PrefixesRebuild
    <2>1. Len(rows') = 0 /\ n = 0
      BY <1>1
    <2>2. StateAt(n)' = s
      BY <1>1, <2>1 DEF StateAt
    <2>3. SubSeq(rows', 1, n) = <<>>
      BY <1>1, <2>1, SubSeqEmpty
    <2> QED BY <1>1, <1>3, <1>4, <2>2, <2>3
  <1>6. Launched'
    BY <1>1, <1>2 DEF Launched
  <1> QED BY <1>1, <1>5, <1>6 DEF OnChain

\* A buy.
LEMMA ChainBuyStep ==
  ASSUME OnChain, ChainBuy PROVE OnChain'
  <1>1. /\ Launched /\ Rebuilds(p, rows, market) /\ InRange(p, market) /\ market \in States
        /\ market.phase = "curve"
    BY PresentRebuilds DEF OnChain, ChainBuy
  <1>2. PICK gross \in Trades : \E q \in ContractBuys(gross) :
          Log(TradeRow(q, q.graduates),
              Advanced(market, IF q.graduates THEN "graduated" ELSE "curve", q.newEth, q.newToken, q.fees))
    BY DEF ChainBuy
  <1>3. PICK q \in ContractBuys(gross) :
          Log(TradeRow(q, q.graduates),
              Advanced(market, IF q.graduates THEN "graduated" ELSE "curve", q.newEth, q.newToken, q.fees))
    BY <1>2
  <1>4. gross \in Nat
    BY QuotesAssumption
  <1>5. q = BuyQuote(market, gross) /\ BuyAllowed(market, gross)
    BY <1>1, <1>4, ContractBuysOne
  <1> DEFINE r == TradeRow(q, q.graduates)
             t == Advanced(market, IF q.graduates THEN "graduated" ELSE "curve",
                           q.newEth, q.newToken, q.fees)
  <1>6. r \in TradeRows /\ InRange(p, t)
    BY <1>1, <1>4, <1>5, BuyStaysInRange
  <1>7. Rebuilds(p, Append(rows, r), t)
    <2>1. t = [phase |-> IF r.graduates THEN "graduated" ELSE "curve",
               virtualEth |-> r.eth, virtualToken |-> r.token,
               protocolFees |-> market.protocolFees + r.protocolFee,
               creatorFees |-> market.creatorFees + r.creatorFee]
      BY DEF Advanced, TradeRow
    <2>2. r.eth \in 0..MaxUint /\ r.token \in 0..MaxUint
      <3>1. t.virtualEth \in 0..MaxUint /\ t.virtualToken \in 0..MaxUint
        BY <1>1, <1>6, RangeFits
      <3>2. t.virtualEth = r.eth /\ t.virtualToken = r.token
        BY DEF Advanced, TradeRow
      <3> QED BY <3>1, <3>2
    <2> HIDE DEF t, r
    <2> QED BY <1>1, <1>6, <2>1, <2>2, RebuildsTrade
  <1>8. Log(r, t) /\ r \in Rows
    BY <1>3, <1>6 DEF Rows
  <1> HIDE DEF r, t
  <1> QED BY <1>6, <1>7, <1>8, LogKeepsRebuilding

\* A sale.
LEMMA ChainSellStep ==
  ASSUME OnChain, ChainSell PROVE OnChain'
  <1>1. /\ Launched /\ Rebuilds(p, rows, market) /\ InRange(p, market) /\ market \in States
        /\ market.phase = "curve"
    BY PresentRebuilds DEF OnChain, ChainSell
  <1>2. PICK tokens \in Trades : \E q \in ContractSells(tokens) :
          Log(TradeRow(q, FALSE), Advanced(market, "curve", q.newEth, q.newToken, q.fees))
    BY DEF ChainSell
  <1>3. PICK q \in ContractSells(tokens) :
          Log(TradeRow(q, FALSE), Advanced(market, "curve", q.newEth, q.newToken, q.fees))
    BY <1>2
  <1>4. tokens \in Nat
    BY QuotesAssumption
  <1>5. q = SellQuote(market, tokens) /\ SellAllowed(market, tokens)
    BY <1>1, <1>4, ContractSellsOne
  <1> DEFINE r == TradeRow(q, FALSE)
             t == Advanced(market, "curve", q.newEth, q.newToken, q.fees)
  <1>6. r \in TradeRows /\ InRange(p, t)
    BY <1>1, <1>4, <1>5, SellStaysInRange
  <1>7. Rebuilds(p, Append(rows, r), t)
    <2>1. t = [phase |-> IF r.graduates THEN "graduated" ELSE "curve",
               virtualEth |-> r.eth, virtualToken |-> r.token,
               protocolFees |-> market.protocolFees + r.protocolFee,
               creatorFees |-> market.creatorFees + r.creatorFee]
      BY DEF Advanced, TradeRow
    <2>2. r.eth \in 0..MaxUint /\ r.token \in 0..MaxUint
      <3>1. t.virtualEth \in 0..MaxUint /\ t.virtualToken \in 0..MaxUint
        BY <1>1, <1>6, RangeFits
      <3>2. t.virtualEth = r.eth /\ t.virtualToken = r.token
        BY DEF Advanced, TradeRow
      <3> QED BY <3>1, <3>2
    <2> HIDE DEF t, r
    <2> QED BY <1>1, <1>6, <2>1, <2>2, RebuildsTrade
  <1>8. Log(r, t) /\ r \in Rows
    BY <1>3, <1>6 DEF Rows
  <1> HIDE DEF r, t
  <1> QED BY <1>6, <1>7, <1>8, LogKeepsRebuilding

\* A claim of either kind.
LEMMA ClaimStep ==
  ASSUME OnChain, ClaimProtocolFees \/ ClaimCreatorFees PROVE OnChain'
  <1>1. Rebuilds(p, rows, market) /\ InRange(p, market) /\ market \in States
    BY PresentRebuilds
  <1>2. market.protocolFees \in Nat /\ market.creatorFees \in Nat
    BY <1>1 DEF States
  <1>3. CASE ClaimProtocolFees
    <2> DEFINE r == ClaimRow("protocol_claim", market.protocolFees)
               t == [market EXCEPT !.protocolFees = 0]
    <2>1. Log(r, t)
      BY <1>3 DEF ClaimProtocolFees
    <2>2. r \in ClaimRows
      BY <1>2 DEF ClaimRow, ClaimRows
    <2>3. InRange(p, t)
      BY <1>1 DEF InRange, States
    <2>4. Rebuilds(p, Append(rows, r), t)
      BY <1>1, RebuildsProtocolClaim
    <2>5. r \in Rows
      BY <2>2 DEF Rows
    <2> HIDE DEF r, t
    <2> QED BY <2>1, <2>3, <2>4, <2>5, LogKeepsRebuilding
  <1>4. CASE ClaimCreatorFees
    <2> DEFINE r == ClaimRow("creator_claim", market.creatorFees)
               t == [market EXCEPT !.creatorFees = 0]
    <2>1. Log(r, t)
      BY <1>4 DEF ClaimCreatorFees
    <2>2. r \in ClaimRows
      BY <1>2 DEF ClaimRow, ClaimRows
    <2>3. InRange(p, t)
      BY <1>1 DEF InRange, States
    <2>4. Rebuilds(p, Append(rows, r), t)
      BY <1>1, RebuildsCreatorClaim
    <2>5. r \in Rows
      BY <2>2 DEF Rows
    <2> HIDE DEF r, t
    <2> QED BY <2>1, <2>3, <2>4, <2>5, LogKeepsRebuilding
  <1> QED BY <1>3, <1>4

\* A change of the pair's reserves.
LEMMA SyncStep ==
  ASSUME OnChain, PoolSync PROVE OnChain'
  <1>1. /\ Rebuilds(p, rows, market) /\ InRange(p, market) /\ market \in States
        /\ market.phase = "graduated"
    BY PresentRebuilds DEF PoolSync
  <1>2. PICK eth \in PoolReserves, token \in PoolReserves : Log(SyncRow(eth, token), market)
    BY DEF PoolSync
  <1>3. SyncRow(eth, token) \in SyncRows
    BY <1>2, QuotesAssumption DEF SyncRow, SyncRows
  <1>4. PICK r \in SyncRows : r = SyncRow(eth, token)
    BY <1>3
  <1>5. r \in Rows /\ Log(r, market)
    BY <1>2, <1>4 DEF Rows
  <1>6. Rebuilds(p, Append(rows, r), market)
    BY <1>1, <1>4, RebuildsSync
  <1> QED BY <1>1, <1>5, <1>6, LogKeepsRebuilding

\* A rollback leaves a prefix of the rows and the state of that time.
LEMMA RollbackStep ==
  ASSUME OnChain, Rollback PROVE OnChain'
  <1> DEFINE S == Rows
             len == Len(rows)
  <1>1. /\ rows \in Seq(S) /\ history \in Seq(States) /\ Len(history) = len /\ len \in Nat
    BY LenProperties DEF OnChain
  <1> HIDE DEF S
  <1>2. PICK n \in 0..(len - 1) :
          /\ rows' = SubSeq(rows, 1, n) /\ history' = SubSeq(history, 1, n)
          /\ market' = history[n + 1] /\ p' = p
    BY DEF Rollback
  <1>3. n \in Nat /\ n < len
    BY <1>1, <1>2
  <1>4. \A i \in 1..n : rows[i] \in S /\ history[i] \in States
    BY <1>1, <1>3, ElementOfSeq
  <1>5. /\ rows' \in Seq(S) /\ Len(rows') = n
        /\ \A i \in 1..n : rows'[i] = rows[i]
    BY <1>2, <1>3, <1>4, SubSeqProperties
  <1>6. /\ history' \in Seq(States) /\ Len(history') = n
        /\ \A i \in 1..n : history'[i] = history[i]
    BY <1>2, <1>3, <1>4, SubSeqProperties
  <1>7. ASSUME NEW m \in 0..n
        PROVE  Rebuilds(p, SubSeq(rows', 1, m), StateAt(m)') /\ InRange(p, StateAt(m)')
    <2>1. m \in Nat /\ m <= n /\ m \in 0..len
      BY <1>1, <1>3
    <2>2. StateAt(m)' = StateAt(m)
      <3>1. StateAt(m) = history[m + 1]
        BY <1>1, <1>3, <2>1 DEF StateAt
      <3>2. CASE m = n
        BY <1>2, <1>5, <3>1, <3>2 DEF StateAt
      <3>3. CASE m # n
        <4>1. StateAt(m)' = history'[m + 1]
          BY <1>5, <3>3 DEF StateAt
        <4> QED BY <1>3, <1>6, <2>1, <3>1, <3>3, <4>1
      <3> QED BY <3>2, <3>3
    <2>3. SubSeq(rows', 1, m) = SubSeq(rows, 1, m)
      <3>1. \A i \in 1..m : rows'[i] = rows[i] /\ rows[i] \in S /\ rows'[i] \in S
        BY <1>3, <1>4, <1>5, <2>1
      <3>2. /\ SubSeq(rows, 1, m) \in Seq(S) /\ Len(SubSeq(rows, 1, m)) = m
            /\ \A i \in 1..m : SubSeq(rows, 1, m)[i] = rows[i]
        BY <2>1, <3>1, SubSeqProperties
      <3>3. /\ SubSeq(rows', 1, m) \in Seq(S) /\ Len(SubSeq(rows', 1, m)) = m
            /\ \A i \in 1..m : SubSeq(rows', 1, m)[i] = rows'[i]
        BY <2>1, <3>1, SubSeqProperties
      <3> QED BY <3>1, <3>2, <3>3, SeqEqual
    <2>4. Rebuilds(p, SubSeq(rows, 1, m), StateAt(m)) /\ InRange(p, StateAt(m))
      BY <2>1 DEF OnChain, PrefixesRebuild
    <2> QED BY <2>2, <2>3, <2>4
  <1>8. PrefixesRebuild'
    BY <1>2, <1>5, <1>7 DEF PrefixesRebuild
  <1>9. Launched'
    BY <1>2 DEF OnChain, Launched
  <1> QED BY <1>5, <1>6, <1>8, <1>9 DEF OnChain, S

\* Before the launch there is nothing to trade, to claim, to roll back or to quote.
LEMMA UnlaunchedStep ==
  ASSUME Known, Unlaunched, Next PROVE OnChain'
  <1>1. market.phase = "none" /\ Len(rows) = 0
    BY DEF Unlaunched
  <1>2. Launch
    BY <1>1 DEF Next, ChainBuy, ChainSell, ClaimProtocolFees, ClaimCreatorFees, PoolSync,
               Rollback, Ask
  <1> QED BY <1>2, LaunchStep

\* Every step of a launched market; a request changes only the answer.
LEMMA OnChainStep ==
  ASSUME OnChain, Next PROVE OnChain'
  <1>1. ~Launch
    BY PresentRebuilds DEF Launch
  <1>2. CASE Ask
    BY <1>2 DEF Ask, OnChain, Launched, PrefixesRebuild, StateAt
  <1> QED BY <1>1, <1>2, ChainBuyStep, ChainSellStep, ClaimStep, SyncStep, RollbackStep
     DEF Next

\* The invariant of Quotes: every prefix of the stored rows stands for a state of the contract
\* that lies on its curve: phase and fees, and the reserves before graduation.
THEOREM QuotesInvariant == Spec => []IInv
  <1>1. Init => IInv
    BY DEF Init, IInv, Known, Unlaunched
  <1>2. IInv /\ [Next]_vars => IInv'
    <2> SUFFICES ASSUME IInv, [Next]_vars PROVE IInv'
      OBVIOUS
    <2>1. CASE Next
      <3>1. Known'
        BY <2>1, ParametersStay DEF IInv, Known
      <3>2. OnChain'
        BY <2>1, UnlaunchedStep, OnChainStep DEF IInv
      <3> QED BY <3>1, <3>2 DEF IInv
    <2>2. CASE UNCHANGED vars
      BY <2>2 DEF vars, IInv, Known, Unlaunched, OnChain, Launched, PrefixesRebuild, StateAt
    <2> QED BY <2>1, <2>2
  <1> QED BY <1>1, <1>2, PTL DEF Spec

\* Whatever was traded, claimed and rolled back, the phase and the accrued fees that
\* GetTokenQuoteState computes from the rows are those of the contract; the reserves are too,
\* until the token graduates and they become those of its pair.
THEOREM RebuiltIsMarket == Spec => []RebuildsMarket
  <1>1. IInv => RebuildsMarket
    BY PresentRebuilds, ReadStandsFor DEF IInv, Unlaunched, RebuildsMarket
  <1> QED BY <1>1, QuotesInvariant, PTL

\* For all parameters that fit a uint256: curve.NewParameters accepts a token exactly when
\* CurveMath.validateParameters let the factory launch it and its products fit.
THEOREM ParametersDoAgree == Spec => []ParametersAgree
  <1>1. IInv => ParametersAgree
    BY ParametersMatch DEF ParametersAgree, IInv, Known
  <1> QED BY <1>1, QuotesInvariant, PTL

-----------------------------------------------------------------------------
(* The backend's quote against the contract's. *)

\* Both codes split fees in the same way.
LEMMA SameFees ==
  ASSUME NEW gross, NEW feeBps, NEW shareBps
  PROVE  SplitFees(gross, feeBps, shareBps) = Chain!SplitFees(gross, feeBps, shareBps)
  BY DEF SplitFees, MulDiv, Chain!SplitFees, Chain!TotalFee, Chain!ProtocolFee

\* Both codes compute the same gross amount of the cut final buy.
LEMMA SameExactGross ==
  ASSUME NEW net, NEW feeBps
  PROVE  ExactGrossForNet(net, feeBps) = Chain!ExactGrossForNet(net, feeBps)
  BY DEF ExactGrossForNet, MulDiv, Chain!ExactGrossForNet

\* NewState refuses only accrued fees that are wider than a uint256.
LEMMA StateFits ==
  ASSUME Launched, NEW s, InRange(p, s)
  PROVE  /\ NewState(s) \in {"none", "amount"}
         /\ NewState(s) = "none" <=> s.protocolFees <= MaxUint /\ s.creatorFees <= MaxUint
  <1>1. /\ FinalVirtualEth(p) \in Nat /\ FinalVirtualEth(p) <= MaxUint /\ MaxUint \in Nat
        /\ p.initialVirtualToken \in Nat /\ p.initialVirtualToken <= MaxUint
    BY LaunchedFacts, WidthAssumption DEF Launched
  <1>2. /\ s.virtualEth \in Nat /\ s.virtualEth <= FinalVirtualEth(p)
        /\ s.virtualToken \in Nat /\ s.virtualToken <= p.initialVirtualToken
        /\ s.protocolFees \in Nat /\ s.creatorFees \in Nat
    BY DEF InRange, States
  <1> DEFINE c1 == ~Fits(s.virtualEth) \/ ~Fits(s.virtualToken)
             c2 == ~Fits(s.protocolFees) \/ ~Fits(s.creatorFees)
             checks == << <<c1, "amount">>, <<c2, "amount">> >>
  <1>3. NewState(s) = FirstError(checks)
    BY Zenon DEF NewState
  <1>4. ~c1 /\ (~c2 <=> s.protocolFees <= MaxUint /\ s.creatorFees <= MaxUint)
    BY <1>1, <1>2 DEF Fits
  <1> HIDE DEF c1, c2
  <1>5. Len(checks) = 2 /\ checks[1][1] = c1 /\ checks[2][1] = c2
    OBVIOUS
  <1>6. \A i \in 1..2 : checks[i][2] = "amount"
    OBVIOUS
  <1> HIDE DEF checks
  <1>7. FirstError(checks) = "none" <=> \A i \in 1..2 : ~checks[i][1]
    <2>1. Len(checks) \in Nat /\ \A i \in 1..Len(checks) : checks[i][1] => checks[i][2] # "none"
      BY <1>5, <1>6
    <2> QED BY <1>5, <2>1, NoErrorMeansNoCheck
  <1>8. (\A i \in 1..2 : ~checks[i][1]) <=> ~c1 /\ ~c2
    BY <1>5
  <1>9. FirstError(checks) # "none" => FirstError(checks) = "amount"
    BY <1>5, <1>6, ErrorNamesCheck
  <1> QED BY <1>3, <1>4, <1>7, <1>8, <1>9

\* The numbers of curve.Buy are the contract's.
LEMMA GoBuys ==
  ASSUME Launched, NEW s, InRange(p, s), s.phase = "curve", NEW gross \in Nat
  PROVE  LET b == Buy(s, p, gross)
             q == BuyQuote(s, gross)
         IN /\ b.fees = q.fees /\ b.next.virtualEth = q.newEth /\ b.next.virtualToken = q.newToken
            /\ b.output = q.tokensOut /\ b.refund = q.refund /\ b.graduates = q.graduates
  <1> DEFINE F == FinalVirtualEth(p)
             D == FinalVirtualToken(p)
             cut == EthAfter(s, gross) > F
             q == BuyQuote(s, gross)
             b == Buy(s, p, gross)
  <1>1. /\ Invariant(p) \in Nat /\ D \in Nat \ {0} /\ Chain!CeilDiv(Invariant(p), D) = F
    BY LaunchedFacts DEF Launched
  <1>2. EthAfter(s, gross) \in Nat \ {0}
    BY BuyAmounts
  <1>3. SplitFees(gross, p.tradeFeeBps, p.protocolShareBps) = Supplied(gross)
    BY SameFees DEF Supplied
  <1>4. s.virtualEth + gross - SplitFees(gross, p.tradeFeeBps, p.protocolShareBps).total
          = EthAfter(s, gross)
    BY <1>3 DEF EthAfter
  <1>5. CeilQuo(Invariant(p), EthAfter(s, gross)) = TokenAfter(s, gross)
    BY <1>1, <1>2, SameRounding DEF TokenAfter
  <1>6. CeilQuo(Invariant(p), FinalVirtualToken(p)) = F
    BY <1>1, SameRounding
  <1>7. /\ ExactGrossForNet(F - s.virtualEth, p.tradeFeeBps) = GrossLeft(s)
        /\ SplitFees(GrossLeft(s), p.tradeFeeBps, p.protocolShareBps) = Supplied(GrossLeft(s))
    BY SameExactGross, SameFees DEF GrossLeft, Supplied
  <1>8. CASE cut
    <2>1. /\ b.fees = Supplied(GrossLeft(s)) /\ b.next.virtualEth = F /\ b.next.virtualToken = D
          /\ b.output = s.virtualToken - D /\ b.refund = gross - GrossLeft(s) /\ b.graduates = TRUE
      BY <1>4, <1>5, <1>6, <1>7, <1>8 DEF Buy, Advanced
    <2>2. /\ q.fees = Supplied(GrossLeft(s)) /\ q.newEth = F /\ q.newToken = D
          /\ q.tokensOut = s.virtualToken - D /\ q.refund = gross - GrossLeft(s) /\ q.graduates = TRUE
      BY <1>8 DEF BuyQuote
    <2> QED BY <2>1, <2>2
  <1>9. CASE ~cut
    <2>1. /\ b.fees = Supplied(gross) /\ b.next.virtualEth = EthAfter(s, gross)
          /\ b.next.virtualToken = TokenAfter(s, gross)
          /\ b.output = s.virtualToken - TokenAfter(s, gross) /\ b.refund = gross - gross
          /\ b.graduates = (TokenAfter(s, gross) = D)
      BY <1>3, <1>4, <1>5, <1>6, <1>9 DEF Buy, Advanced
    <2>2. /\ q.fees = Supplied(gross) /\ q.newEth = EthAfter(s, gross)
          /\ q.newToken = TokenAfter(s, gross)
          /\ q.tokensOut = s.virtualToken - TokenAfter(s, gross) /\ q.refund = 0
          /\ q.graduates = (TokenAfter(s, gross) = D)
      BY <1>9 DEF BuyQuote
    <2> QED BY <2>1, <2>2
  <1> QED BY <1>8, <1>9

\* The errors of curve.Buy before graduation, and what each of them means.
BuyErrors(s, gross, error) ==
  \/ error = "zero_input" /\ gross = 0
  \/ error = "zero_output" /\ gross > 0
  \/ /\ error \in {"amount", "overflow"}
     /\ \/ EthAfter(s, gross) > MaxUint
        \/ ~Fits(s.protocolFees) \/ ~Fits(s.creatorFees)
        \/ BuyAllowed(s, gross) /\ FeesOverflow(s, BuyQuote(s, gross).fees)

\* curve.Buy refuses what the contract reverts, and what is wider than a uint256.
LEMMA GoBuyAccepts ==
  ASSUME Launched, NEW s, InRange(p, s), s.phase = "curve", NEW gross \in 0..MaxUint
  PROVE  /\ Buy(s, p, gross).error = "none"
              <=> /\ BuyAllowed(s, gross)
                  /\ EthAfter(s, gross) <= MaxUint
                  /\ ~FeesOverflow(s, BuyQuote(s, gross).fees)
         /\ Buy(s, p, gross).error # "none" => BuyErrors(s, gross, Buy(s, p, gross).error)
  <1> DEFINE F == FinalVirtualEth(p)
             D == FinalVirtualToken(p)
             E == EthAfter(s, gross)
             T == TokenAfter(s, gross)
             cut == E > F
             used == IF cut THEN GrossLeft(s) ELSE gross
             token == IF cut THEN D ELSE T
             fees == IF cut THEN Supplied(GrossLeft(s)) ELSE Supplied(gross)
             q == BuyQuote(s, gross)
  <1>0. gross \in Nat /\ MaxUint \in Nat /\ gross <= MaxUint
    BY WidthAssumption
  <1>1. /\ Invariant(p) \in Nat /\ F \in Nat /\ D \in Nat \ {0}
        /\ Chain!CeilDiv(Invariant(p), D) = F
    BY LaunchedFacts DEF Launched
  <1>2. /\ E \in Nat \ {0} /\ T \in Nat \ {0} /\ GrossLeft(s) \in Nat \ {0}
        /\ Supplied(gross).protocol \in Nat /\ Supplied(gross).creator \in Nat
        /\ Supplied(GrossLeft(s)).protocol \in Nat /\ Supplied(GrossLeft(s)).creator \in Nat
    BY <1>0, BuyAmounts
  <1>3. /\ s.virtualEth \in Nat /\ s.virtualEth < F /\ s.virtualToken \in Nat
        /\ s.protocolFees \in Nat /\ s.creatorFees \in Nat
    BY DEF InRange, States
  <1>4. SplitFees(gross, p.tradeFeeBps, p.protocolShareBps) = Supplied(gross)
    BY SameFees DEF Supplied
  <1>5. s.virtualEth + gross - SplitFees(gross, p.tradeFeeBps, p.protocolShareBps).total = E
    BY <1>4 DEF EthAfter
  <1>6. CeilQuo(Invariant(p), E) = T
    BY <1>1, <1>2, SameRounding DEF TokenAfter
  <1>7. CeilQuo(Invariant(p), FinalVirtualToken(p)) = F
    BY <1>1, SameRounding
  <1>8. /\ ExactGrossForNet(F - s.virtualEth, p.tradeFeeBps) = GrossLeft(s)
        /\ SplitFees(GrossLeft(s), p.tradeFeeBps, p.protocolShareBps) = Supplied(GrossLeft(s))
    BY SameExactGross, SameFees DEF GrossLeft, Supplied
  <1> DEFINE c1 == s.phase # "curve"
             c2 == NewState(s) # "none"
             c3 == ~Fits(gross)
             c4 == gross = 0
             c5 == E > MaxUint
             c6 == E = 0 \/ D = 0
             c7 == T >= s.virtualToken
             c8 == cut /\ s.virtualEth >= F
             c9 == used > MaxUint \/ used > gross
             c10 == token > s.virtualToken
             c11 == token = s.virtualToken
             c12 == FeesOverflow(s, fees)
             checks == << <<c1, "wrong_phase">>, <<c2, NewState(s)>>, <<c3, "amount">>,
                          <<c4, "zero_input">>, <<c5, "overflow">>, <<c6, "division">>,
                          <<c7, "zero_output">>, <<c8, "internal">>, <<c9, "overflow">>,
                          <<c10, "overflow">>, <<c11, "zero_output">>, <<c12, "overflow">> >>
  <1>9. Buy(s, p, gross).error = FirstError(checks)
    <2>1. CASE cut
      BY <1>5, <1>6, <1>7, <1>8, <2>1 DEF Buy
    <2>2. CASE ~cut
      BY <1>4, <1>5, <1>6, <1>7, <2>2 DEF Buy
    <2> QED BY <2>1, <2>2
  <1>10. /\ q.fees = fees /\ q.tokensOut = s.virtualToken - token
         /\ (q.refund >= 0 <=> used <= gross)
    BY <1>0, <1>2 DEF BuyQuote
  <1>11. /\ c2 => c12
         /\ ~c1 /\ ~c3 /\ ~c6 /\ ~c8
    <2>1. fees.protocol \in Nat /\ fees.creator \in Nat
      BY <1>2
    <2> HIDE DEF fees
    <2>2. c2 => c12
      BY <1>0, <1>3, <2>1, StateFits DEF FeesOverflow
    <2>3. ~c1 /\ ~c3 /\ ~c6 /\ ~c8
      BY <1>0, <1>1, <1>2, <1>3 DEF Fits
    <2> QED BY <2>2, <2>3
  <1>12. BuyAllowed(s, gross) <=> ~c4 /\ ~c7 /\ ~c9 /\ ~c10 /\ ~c11
    <2>1. token \in Nat /\ used \in Nat
      BY <1>0, <1>1, <1>2
    <2> HIDE DEF token, used, q
    <2>2. BuyAllowed(s, gross) <=> gross > 0 /\ T < s.virtualToken /\ q.tokensOut > 0 /\ q.refund >= 0
      BY DEF BuyAllowed, q
    <2> HIDE DEF T
    <2>3. T \in Nat
      BY <1>2
    <2> QED BY <1>0, <1>3, <1>10, <2>1, <2>2, <2>3
  <1>13. (EthAfter(s, gross) <= MaxUint) <=> ~c5
    BY <1>0, <1>2
  <1>14. FeesOverflow(s, q.fees) <=> c12
    BY <1>10
  <1>15. /\ c2 => NewState(s) = "amount" /\ (~Fits(s.protocolFees) \/ ~Fits(s.creatorFees))
         /\ c4 <=> gross = 0
         /\ c5 <=> EthAfter(s, gross) > MaxUint
    BY <1>0, <1>3, StateFits DEF Fits
  <1>20. ~c7 => ~c9 /\ ~c10
    <2>1. ASSUME cut PROVE GrossLeft(s) <= gross
      <3> DEFINE net == F - s.virtualEth
      <3>1. /\ p.tradeFeeBps \in Nat /\ p.tradeFeeBps < Bps /\ net \in Nat \ {0}
        BY <1>1, <1>3, LaunchedFacts DEF Launched
      <3>2. /\ Supplied(gross).total \in Nat
            /\ Supplied(gross).total = Chain!TotalFee(gross, p.tradeFeeBps)
        BY <1>0, BuyAmounts
      <3>3. Net(gross, p.tradeFeeBps) = gross - Supplied(gross).total
        BY <3>2 DEF Net
      <3>4. s.virtualEth + gross - Supplied(gross).total > F
        BY <2>1 DEF EthAfter
      <3>5. ~(Net(gross, p.tradeFeeBps) < net)
        BY <1>0, <1>1, <1>3, <3>2, <3>3, <3>4
      <3> HIDE DEF net
      <3>6. ~(gross < Chain!ExactGrossForNet(net, p.tradeFeeBps))
        BY <1>0, <3>1, <3>5, NetFallsShort
      <3> QED BY <1>0, <1>2, <3>6 DEF GrossLeft, net
    <2>2. D <= s.virtualToken
      <3>1. /\ Invariant(p) \in Nat \ {0} /\ F \in Nat \ {0} /\ Chain!CeilDiv(Invariant(p), F) = D
            /\ s.virtualEth * s.virtualToken >= Invariant(p)
        BY LaunchedFacts DEF Launched, InRange
      <3>2. s.virtualToken * s.virtualEth <= s.virtualToken * F
        BY <1>1, <1>3, ProductGrows
      <3> HIDE DEF F, D
      <3>3. s.virtualToken * F >= Invariant(p)
        BY <1>3, <3>1, <3>2
      <3> QED BY <1>3, <3>1, <3>3, CeilDivBounds
    <2>3. CASE cut
      BY <1>0, <1>1, <1>2, <1>3, <2>1, <2>2, <2>3
    <2>4. CASE ~cut
      BY <1>0, <1>2, <1>3, <2>4
    <2> QED BY <2>3, <2>4
  <1> HIDE DEF c1, c2, c3, c4, c5, c6, c7, c8, c9, c10, c11, c12, q
  <1>16. /\ Len(checks) = 12
         /\ checks[1][1] = c1 /\ checks[2][1] = c2 /\ checks[3][1] = c3 /\ checks[4][1] = c4
         /\ checks[5][1] = c5 /\ checks[6][1] = c6 /\ checks[7][1] = c7 /\ checks[8][1] = c8
         /\ checks[9][1] = c9 /\ checks[10][1] = c10 /\ checks[11][1] = c11 /\ checks[12][1] = c12
    OBVIOUS
  <1>17. \A i \in 1..12 : checks[i][1] => checks[i][2] # "none"
    <2>1. \A i \in 1..12 : i # 2 => checks[i][2] # "none"
      OBVIOUS
    <2>2. checks[2][1] = c2 /\ checks[2][2] = NewState(s)
      OBVIOUS
    <2> HIDE DEF checks
    <2> QED BY <1>15, <2>1, <2>2
  <1>21. checks[2][2] = NewState(s) /\ checks[4][2] = "zero_input" /\ checks[5][2] = "overflow"
         /\ checks[7][2] = "zero_output" /\ checks[11][2] = "zero_output" /\ checks[12][2] = "overflow"
    OBVIOUS
  <1> HIDE DEF checks
  <1>18. FirstError(checks) = "none" <=> \A i \in 1..12 : ~checks[i][1]
    <2>1. Len(checks) \in Nat /\ \A i \in 1..Len(checks) : checks[i][1] => checks[i][2] # "none"
      BY <1>16, <1>17
    <2> QED BY <1>16, <2>1, NoErrorMeansNoCheck
  <1>19. (\A i \in 1..12 : ~checks[i][1])
           <=> ~c1 /\ ~c2 /\ ~c3 /\ ~c4 /\ ~c5 /\ ~c6 /\ ~c7 /\ ~c8 /\ ~c9 /\ ~c10 /\ ~c11 /\ ~c12
    BY <1>16
  <1>22. ASSUME FirstError(checks) # "none" PROVE BuyErrors(s, gross, FirstError(checks))
    <2>1. PICK i \in 1..12 : /\ checks[i][1] /\ FirstError(checks) = checks[i][2]
                             /\ \A j \in 1..12 : j < i => ~checks[j][1]
      <3>1. Len(checks) = 12 /\ Len(checks) \in Nat
        BY <1>16
      <3>2. \E i \in 1..Len(checks) :
              /\ checks[i][1] /\ FirstError(checks) = checks[i][2]
              /\ \A j \in 1..Len(checks) : j < i => ~checks[j][1]
        BY <1>22, <3>1, ErrorNamesCheck
      <3> QED BY <3>1, <3>2
    <2>2. i # 1 /\ i # 3 /\ i # 6 /\ i # 8
      BY <1>11, <1>16, <2>1
    <2>3. i > 7 => i # 9 /\ i # 10
      BY <1>16, <1>20, <2>1
    <2>4. CASE i = 2
      BY <1>15, <1>16, <1>21, <2>1, <2>4 DEF BuyErrors
    <2>5. CASE i = 4
      BY <1>15, <1>16, <1>21, <2>1, <2>5 DEF BuyErrors
    <2>6. CASE i = 5
      BY <1>15, <1>16, <1>21, <2>1, <2>6 DEF BuyErrors
    <2>7. CASE i = 7 \/ i = 11
      <3>1. ~c4
        BY <1>16, <2>1, <2>7
      <3>2. gross > 0
        BY <1>0, <1>15, <3>1
      <3> QED BY <1>21, <2>1, <2>7, <3>2 DEF BuyErrors
    <2>8. CASE i = 12
      <3>1. ~c4 /\ ~c7 /\ ~c9 /\ ~c10 /\ ~c11 /\ c12
        BY <1>16, <2>1, <2>8
      <3>2. BuyAllowed(s, gross) /\ FeesOverflow(s, BuyQuote(s, gross).fees)
        BY <1>12, <1>14, <3>1 DEF q
      <3> QED BY <1>21, <2>1, <2>8, <3>2 DEF BuyErrors
    <2> QED BY <2>2, <2>3, <2>4, <2>5, <2>6, <2>7, <2>8
  <1> QED BY <1>9, <1>11, <1>12, <1>13, <1>14, <1>18, <1>19, <1>22 DEF q

\* Amounts of a sale.
LEMMA SellAmounts ==
  ASSUME Launched, NEW s, InRange(p, s), NEW tokens \in Nat, tokens > 0
  PROVE  /\ s.virtualToken + tokens \in Nat \ {0}
         /\ EthLeft(s, tokens) \in Nat \ {0}
         /\ EthGross(s, tokens) \in Int
         /\ EthGross(s, tokens) >= 0 =>
              /\ Supplied(EthGross(s, tokens)).total \in Nat
              /\ Supplied(EthGross(s, tokens)).total <= EthGross(s, tokens)
              /\ Supplied(EthGross(s, tokens)).protocol \in Nat
              /\ Supplied(EthGross(s, tokens)).creator \in Nat
  <1>1. /\ p.tradeFeeBps \in Nat /\ p.tradeFeeBps <= Bps
        /\ p.protocolShareBps \in Nat /\ p.protocolShareBps <= Bps
        /\ Invariant(p) \in Nat \ {0}
    BY LaunchedFacts, WidthAssumption DEF Launched
  <1>2. s.virtualEth \in Nat /\ s.virtualToken \in Nat
    BY DEF InRange, States
  <1>3. s.virtualToken + tokens \in Nat \ {0}
    BY <1>2
  <1>4. EthLeft(s, tokens) \in Nat \ {0}
    BY <1>1, <1>3, CeilDivPositive DEF EthLeft
  <1>5. EthGross(s, tokens) \in Int
    BY <1>2, <1>4 DEF EthGross
  <1>6. ASSUME EthGross(s, tokens) >= 0
        PROVE  /\ Supplied(EthGross(s, tokens)).total \in Nat
               /\ Supplied(EthGross(s, tokens)).total <= EthGross(s, tokens)
               /\ Supplied(EthGross(s, tokens)).protocol \in Nat
               /\ Supplied(EthGross(s, tokens)).creator \in Nat
    <2>1. EthGross(s, tokens) \in Nat
      BY <1>5, <1>6
    <2> QED BY <1>1, <2>1, FeesAreAmounts DEF Supplied
  <1> QED BY <1>3, <1>4, <1>5, <1>6

\* The numbers of curve.Sell are the contract's.
LEMMA GoSells ==
  ASSUME Launched, NEW s, InRange(p, s), NEW tokens \in Nat, tokens > 0
  PROVE  LET b == Sell(s, p, tokens)
             q == SellQuote(s, tokens)
         IN /\ b.fees = q.fees /\ b.next.virtualEth = q.newEth /\ b.next.virtualToken = q.newToken
            /\ b.output = q.ethOut
  <1>1. Invariant(p) \in Nat /\ s.virtualToken + tokens \in Nat \ {0}
    BY LaunchedFacts, SellAmounts DEF Launched
  <1>2. CeilQuo(Invariant(p), s.virtualToken + tokens) = EthLeft(s, tokens)
    BY <1>1, SameRounding DEF EthLeft
  <1>3. SplitFees(EthGross(s, tokens), p.tradeFeeBps, p.protocolShareBps) = Supplied(EthGross(s, tokens))
    BY SameFees DEF Supplied
  <1>4. s.virtualEth - EthLeft(s, tokens) = EthGross(s, tokens)
    BY DEF EthGross
  <1> QED BY <1>2, <1>3, <1>4 DEF Sell, SellQuote, Advanced

\* The errors of curve.Sell before graduation, and what each of them means.
SellErrors(s, tokens, error) ==
  \/ error = "zero_input" /\ tokens = 0
  \/ error = "oversell" /\ tokens > TokensSold(p, s)
  \/ error = "zero_output" /\ tokens > 0 /\ ~(tokens > TokensSold(p, s))
  \/ /\ error \in {"amount", "overflow"}
     /\ \/ ~Fits(s.protocolFees) \/ ~Fits(s.creatorFees)
        \/ SellAllowed(s, tokens) /\ FeesOverflow(s, SellQuote(s, tokens).fees)

\* curve.Sell refuses what the contract reverts, and fees wider than a uint256.
LEMMA GoSellAccepts ==
  ASSUME Launched, NEW s, InRange(p, s), s.phase = "curve", NEW tokens \in 0..MaxUint
  PROVE  /\ Sell(s, p, tokens).error = "none"
              <=> SellAllowed(s, tokens) /\ ~FeesOverflow(s, SellQuote(s, tokens).fees)
         /\ Sell(s, p, tokens).error # "none" => SellErrors(s, tokens, Sell(s, p, tokens).error)
  <1> DEFINE v == s.virtualToken + tokens
             G == s.virtualEth - CeilQuo(Invariant(p), v)
             fees == SplitFees(G, p.tradeFeeBps, p.protocolShareBps)
             sold == p.initialVirtualToken - s.virtualToken
             q == SellQuote(s, tokens)
  <1>0. tokens \in Nat /\ MaxUint \in Nat /\ tokens <= MaxUint
    BY WidthAssumption
  <1>1. p.initialVirtualToken \in Nat /\ p.initialVirtualToken <= MaxUint
    BY LaunchedFacts DEF Launched
  <1>2. /\ s.virtualEth \in Nat /\ s.virtualToken \in Nat /\ s.virtualToken <= p.initialVirtualToken
        /\ s.protocolFees \in Nat /\ s.creatorFees \in Nat
    BY DEF InRange, States
  <1> DEFINE c1 == s.phase # "curve"
             c2 == NewState(s) # "none"
             c3 == ~Fits(tokens)
             c4 == tokens = 0
             c5 == TokensSold(p, s) < 0
             c6 == tokens > TokensSold(p, s)
             c7 == v > MaxUint
             c8 == v = 0
             c9 == G < 0
             c10 == G = 0 \/ G = fees.total
             c11 == FeesOverflow(s, fees)
             checks == << <<c1, "wrong_phase">>, <<c2, NewState(s)>>, <<c3, "amount">>,
                          <<c4, "zero_input">>, <<c5, "overflow">>, <<c6, "oversell">>,
                          <<c7, "overflow">>, <<c8, "division">>, <<c9, "overflow">>,
                          <<c10, "zero_output">>, <<c11, "overflow">> >>
             go == ~c2 /\ ~c4 /\ ~c6 /\ ~c9 /\ ~c10 /\ ~c11
             fails == ~c4 /\ ~c6 /\ ~c9 /\ ~c10 /\ c11
  <1>3. Sell(s, p, tokens).error = FirstError(checks)
    BY DEF Sell
  <1>4. ~c1 /\ ~c3 /\ ~c5 /\ (~c6 => ~c7) /\ (~c4 => ~c8)
    BY <1>0, <1>1, <1>2 DEF Fits, TokensSold
  <1>5. ASSUME tokens = 0 PROVE /\ go <=> SellAllowed(s, tokens) /\ ~FeesOverflow(s, q.fees)
                                /\ fails => SellAllowed(s, tokens) /\ FeesOverflow(s, q.fees)
    <2>1. ~SellAllowed(s, tokens) /\ c4
      BY <1>5 DEF SellAllowed
    <2> QED BY <2>1
  <1>6. ASSUME tokens > 0 PROVE /\ go <=> SellAllowed(s, tokens) /\ ~FeesOverflow(s, q.fees)
                                /\ fails => SellAllowed(s, tokens) /\ FeesOverflow(s, q.fees)
    <2>1. G = EthGross(s, tokens) /\ fees = q.fees /\ q.ethOut = G - fees.total
      <3>1. Invariant(p) \in Nat /\ v \in Nat \ {0}
        BY <1>0, <1>6, LaunchedFacts, SellAmounts DEF Launched
      <3>2. CeilQuo(Invariant(p), v) = EthLeft(s, tokens)
        BY <3>1, SameRounding DEF EthLeft
      <3>3. G = EthGross(s, tokens)
        BY <3>2 DEF EthGross
      <3>4. fees = Supplied(EthGross(s, tokens))
        BY <3>3, SameFees DEF Supplied
      <3> QED BY <3>3, <3>4 DEF SellQuote
    <2>2. G \in Int
      BY <1>0, <1>6, <2>1, SellAmounts
    <2>3. G >= 0 => fees.total \in Nat /\ fees.total <= G /\ fees.protocol \in Nat /\ fees.creator \in Nat
      <3>1. fees = Supplied(EthGross(s, tokens))
        BY <2>1 DEF SellQuote
      <3> QED BY <1>0, <1>6, <2>1, <3>1, SellAmounts
    <2> HIDE DEF G, fees, q
    <2>4. SellAllowed(s, tokens) <=> tokens <= sold /\ G > 0 /\ G - fees.total > 0
      BY <1>6, <2>1 DEF SellAllowed, q
    <2>5. SellAllowed(s, tokens) <=> ~c4 /\ ~c6 /\ ~c9 /\ ~c10
      BY <1>0, <1>1, <1>2, <1>6, <2>2, <2>3, <2>4 DEF TokensSold
    <2>6. ~c9 => (c2 => c11)
      BY <1>0, <1>2, <2>2, <2>3, StateFits DEF FeesOverflow
    <2>7. FeesOverflow(s, q.fees) <=> c11
      BY <2>1
    <2> HIDE DEF c2, c4, c6, c9, c10, c11
    <2> QED BY <2>5, <2>6, <2>7 DEF q
  <1>7. /\ go <=> SellAllowed(s, tokens) /\ ~FeesOverflow(s, q.fees)
        /\ fails => SellAllowed(s, tokens) /\ FeesOverflow(s, q.fees)
    <2>1. tokens = 0 \/ tokens > 0
      BY <1>0
    <2> HIDE DEF go, fails, q
    <2> QED BY <1>5, <1>6, <2>1
  <1>8. /\ c2 => NewState(s) = "amount" /\ (~Fits(s.protocolFees) \/ ~Fits(s.creatorFees))
        /\ c4 <=> tokens = 0
        /\ c6 <=> tokens > TokensSold(p, s)
    BY <1>0, <1>2, StateFits DEF Fits
  <1>13. ~c4 => ~c9
    <2> SUFFICES ASSUME tokens > 0 PROVE ~c9
      BY <1>0
    <2>1. /\ Invariant(p) \in Nat \ {0} /\ v \in Nat \ {0}
          /\ s.virtualEth * s.virtualToken >= Invariant(p)
      BY <1>0, <1>2, LaunchedFacts DEF Launched, InRange
    <2>2. CeilQuo(Invariant(p), v) = Chain!CeilDiv(Invariant(p), v)
      BY <2>1, SameRounding
    <2>3. s.virtualEth * s.virtualToken <= s.virtualEth * v
      BY <1>0, <1>2, <2>1, ProductGrows
    <2> HIDE DEF v
    <2>4. s.virtualEth * v >= Invariant(p)
      BY <1>2, <2>1, <2>3
    <2>5. Chain!CeilDiv(Invariant(p), v) \in Nat /\ Chain!CeilDiv(Invariant(p), v) <= s.virtualEth
      BY <1>2, <2>1, <2>4, CeilDivBounds
    <2> QED BY <1>2, <2>2, <2>5
  <1> HIDE DEF c1, c2, c3, c4, c5, c6, c7, c8, c9, c10, c11, q
  <1>9. /\ Len(checks) = 11
        /\ checks[1][1] = c1 /\ checks[2][1] = c2 /\ checks[3][1] = c3 /\ checks[4][1] = c4
        /\ checks[5][1] = c5 /\ checks[6][1] = c6 /\ checks[7][1] = c7 /\ checks[8][1] = c8
        /\ checks[9][1] = c9 /\ checks[10][1] = c10 /\ checks[11][1] = c11
    OBVIOUS
  <1>10. \A i \in 1..11 : checks[i][1] => checks[i][2] # "none"
    <2>1. \A i \in 1..11 : i # 2 => checks[i][2] # "none"
      OBVIOUS
    <2>2. checks[2][1] = c2 /\ checks[2][2] = NewState(s)
      OBVIOUS
    <2> HIDE DEF checks
    <2> QED BY <1>8, <2>1, <2>2
  <1>15. checks[2][2] = NewState(s) /\ checks[4][2] = "zero_input" /\ checks[6][2] = "oversell"
         /\ checks[10][2] = "zero_output" /\ checks[11][2] = "overflow"
    OBVIOUS
  <1> HIDE DEF checks
  <1>11. FirstError(checks) = "none" <=> \A i \in 1..11 : ~checks[i][1]
    <2>1. Len(checks) \in Nat /\ \A i \in 1..Len(checks) : checks[i][1] => checks[i][2] # "none"
      BY <1>9, <1>10
    <2> QED BY <1>9, <2>1, NoErrorMeansNoCheck
  <1>12. (\A i \in 1..11 : ~checks[i][1])
           <=> ~c1 /\ ~c2 /\ ~c3 /\ ~c4 /\ ~c5 /\ ~c6 /\ ~c7 /\ ~c8 /\ ~c9 /\ ~c10 /\ ~c11
    BY <1>9
  <1>16. ASSUME FirstError(checks) # "none" PROVE SellErrors(s, tokens, FirstError(checks))
    <2>1. PICK i \in 1..11 : /\ checks[i][1] /\ FirstError(checks) = checks[i][2]
                             /\ \A j \in 1..11 : j < i => ~checks[j][1]
      <3>1. Len(checks) = 11 /\ Len(checks) \in Nat
        BY <1>9
      <3>2. \E i \in 1..Len(checks) :
              /\ checks[i][1] /\ FirstError(checks) = checks[i][2]
              /\ \A j \in 1..Len(checks) : j < i => ~checks[j][1]
        BY <1>16, <3>1, ErrorNamesCheck
      <3> QED BY <3>1, <3>2
    <2>2. i # 1 /\ i # 3 /\ i # 5 /\ i # 7 /\ i # 8 /\ i # 9
      BY <1>4, <1>9, <1>13, <2>1
    <2>3. CASE i = 2
      BY <1>8, <1>9, <1>15, <2>1, <2>3 DEF SellErrors
    <2>4. CASE i = 4
      BY <1>8, <1>9, <1>15, <2>1, <2>4 DEF SellErrors
    <2>5. CASE i = 6
      BY <1>8, <1>9, <1>15, <2>1, <2>5 DEF SellErrors
    <2>6. CASE i = 10
      <3>1. ~c4 /\ ~c6
        BY <1>9, <2>1, <2>6
      <3>2. tokens > 0 /\ ~(tokens > TokensSold(p, s))
        BY <1>0, <1>8, <3>1
      <3> QED BY <1>15, <2>1, <2>6, <3>2 DEF SellErrors
    <2>7. CASE i = 11
      <3>1. ~c4 /\ ~c6 /\ ~c9 /\ ~c10 /\ c11
        BY <1>9, <2>1, <2>7
      <3>2. SellAllowed(s, tokens) /\ FeesOverflow(s, SellQuote(s, tokens).fees)
        BY <1>7, <3>1 DEF q
      <3> QED BY <1>15, <2>1, <2>7, <3>2 DEF SellErrors
    <2> QED BY <2>2, <2>3, <2>4, <2>5, <2>6, <2>7
  <1> QED BY <1>3, <1>4, <1>7, <1>11, <1>12, <1>16 DEF q

\* A failed first check is the error that is reported.
LEMMA FirstCheckFirst ==
  ASSUME NEW checks, Len(checks) \in Nat \ {0}, checks[1][1]
  PROVE  FirstError(checks) = checks[1][2]
  <1> DEFINE failed == {i \in 1..Len(checks) : checks[i][1]}
  <1>1. 1 \in failed /\ \A i \in failed : i \in Nat /\ 1 <= i
    OBVIOUS
  <1>2. (CHOOSE i \in failed : \A j \in failed : i <= j) = 1
    <2>1. \A i \in failed : (\A j \in failed : i <= j) => i = 1
      BY <1>1
    <2> HIDE DEF failed
    <2> QED BY <1>1, <2>1
  <1> QED BY <1>1, <1>2 DEF FirstError

\* Nothing is quoted after graduation.
LEMMA GraduatedIsRefused ==
  ASSUME NEW s, s.phase # "curve", NEW amount
  PROVE  Buy(s, p, amount).error = "wrong_phase" /\ Sell(s, p, amount).error = "wrong_phase"
  <1> DEFINE c1 == s.phase # "curve"
             c2 == NewState(s) # "none"
             c3 == ~Fits(amount)
             c4 == amount = 0
  <1>0. c1
    OBVIOUS
  <1>1. Buy(s, p, amount).error = "wrong_phase"
    <2> DEFINE supplied == SplitFees(amount, p.tradeFeeBps, p.protocolShareBps)
               candidateEth == s.virtualEth + amount - supplied.total
               candidateToken == CeilQuo(Invariant(p), candidateEth)
               finalToken == FinalVirtualToken(p)
               finalEth == CeilQuo(Invariant(p), finalToken)
               cut == candidateEth > finalEth
               used == IF cut THEN ExactGrossForNet(finalEth - s.virtualEth, p.tradeFeeBps) ELSE amount
               fees == IF cut THEN SplitFees(used, p.tradeFeeBps, p.protocolShareBps) ELSE supplied
               newToken == IF cut THEN finalToken ELSE candidateToken
               c5 == candidateEth > MaxUint
               c6 == candidateEth = 0 \/ finalToken = 0
               c7 == candidateToken >= s.virtualToken
               c8 == cut /\ s.virtualEth >= finalEth
               c9 == used > MaxUint \/ used > amount
               c10 == newToken > s.virtualToken
               c11 == newToken = s.virtualToken
               c12 == FeesOverflow(s, fees)
               checks == << <<c1, "wrong_phase">>, <<c2, NewState(s)>>, <<c3, "amount">>,
                            <<c4, "zero_input">>, <<c5, "overflow">>, <<c6, "division">>,
                            <<c7, "zero_output">>, <<c8, "internal">>, <<c9, "overflow">>,
                            <<c10, "overflow">>, <<c11, "zero_output">>, <<c12, "overflow">> >>
    <2>1. Buy(s, p, amount).error = FirstError(checks)
      BY DEF Buy
    <2> HIDE DEF c1, c2, c3, c4, c5, c6, c7, c8, c9, c10, c11, c12
    <2>2. Len(checks) \in Nat \ {0} /\ checks[1][1] = c1 /\ checks[1][2] = "wrong_phase"
      OBVIOUS
    <2> HIDE DEF checks
    <2> QED BY <1>0, <2>1, <2>2, FirstCheckFirst
  <1>2. Sell(s, p, amount).error = "wrong_phase"
    <2> DEFINE newToken == s.virtualToken + amount
               ethGross == s.virtualEth - CeilQuo(Invariant(p), newToken)
               fees == SplitFees(ethGross, p.tradeFeeBps, p.protocolShareBps)
               c5 == TokensSold(p, s) < 0
               c6 == amount > TokensSold(p, s)
               c7 == newToken > MaxUint
               c8 == newToken = 0
               c9 == ethGross < 0
               c10 == ethGross = 0 \/ ethGross = fees.total
               c11 == FeesOverflow(s, fees)
               checks == << <<c1, "wrong_phase">>, <<c2, NewState(s)>>, <<c3, "amount">>,
                            <<c4, "zero_input">>, <<c5, "overflow">>, <<c6, "oversell">>,
                            <<c7, "overflow">>, <<c8, "division">>, <<c9, "overflow">>,
                            <<c10, "zero_output">>, <<c11, "overflow">> >>
    <2>1. Sell(s, p, amount).error = FirstError(checks)
      BY DEF Sell
    <2> HIDE DEF c1, c2, c3, c4, c5, c6, c7, c8, c9, c10, c11
    <2>2. Len(checks) \in Nat \ {0} /\ checks[1][1] = c1 /\ checks[1][2] = "wrong_phase"
      OBVIOUS
    <2> HIDE DEF checks
    <2> QED BY <1>0, <2>1, <2>2, FirstCheckFirst
  <1> QED BY <1>1, <1>2

\* NewState refuses nothing but amounts wider than a uint256.
LEMMA WidthOfState ==
  ASSUME NEW s, Fits(s.virtualEth), Fits(s.virtualToken)
  PROVE  \/ NewState(s) = "none"
         \/ NewState(s) = "amount" /\ (~Fits(s.protocolFees) \/ ~Fits(s.creatorFees))
  <1> DEFINE c1 == ~Fits(s.virtualEth) \/ ~Fits(s.virtualToken)
             c2 == ~Fits(s.protocolFees) \/ ~Fits(s.creatorFees)
             checks == << <<c1, "amount">>, <<c2, "amount">> >>
  <1>1. NewState(s) = FirstError(checks)
    BY Zenon DEF NewState
  <1>2. ~c1
    OBVIOUS
  <1> HIDE DEF c1, c2
  <1>3. /\ Len(checks) = 2 /\ checks[1][1] = c1 /\ checks[2][1] = c2
        /\ checks[1][2] = "amount" /\ checks[2][2] = "amount"
    OBVIOUS
  <1> HIDE DEF checks
  <1>4. CASE FirstError(checks) # "none"
    <2>1. PICK i \in 1..Len(checks) : checks[i][1] /\ FirstError(checks) = checks[i][2]
      BY <1>3, <1>4, ErrorNamesCheck
    <2>2. i = 1 \/ i = 2
      BY <1>3, <2>1
    <2>3. c2 /\ FirstError(checks) = "amount"
      BY <1>2, <1>3, <2>1, <2>2
    <2> QED BY <1>1, <2>3 DEF c2
  <1> QED BY <1>1, <1>4

FeesAreWide(s) == ~Fits(s.protocolFees) \/ ~Fits(s.creatorFees)

\* The service refuses a state with fees that are wider than a uint256 and a graduated token,
\* and quotes the present market otherwise.
LEMMA ServiceReadsMarket ==
  ASSUME OnChain, NEW side \in {"buy", "sell"}, NEW amount \in 0..MaxUint
  PROVE  \/ ServiceQuote(side, amount).error = "amount" /\ FeesAreWide(market)
         \/ ServiceQuote(side, amount).error = "wrong_phase" /\ market.phase = "graduated"
         \/ /\ market.phase = "curve"
            /\ ServiceQuote(side, amount)
                 = IF side = "buy" THEN Buy(market, p, amount) ELSE Sell(market, p, amount)
  <1> DEFINE s == ReadQuoteState(p, rows)
  <1>1. /\ NewParameters(p) = "none" /\ market \in States /\ Rebuilds(p, rows, market)
        /\ MaxUint \in Nat /\ market.phase \in {"curve", "graduated"}
    BY PresentRebuilds, WidthAssumption DEF OnChain, Launched
  <1>2. /\ StandsFor(s, market) /\ (market.phase = "curve" => s = market)
        /\ Fits(s.virtualEth) /\ Fits(s.virtualToken)
    <2>1. /\ StandsFor(s, market) /\ (market.phase = "curve" => s = market)
          /\ s.virtualEth \in 0..MaxUint /\ s.virtualToken \in 0..MaxUint
      BY <1>1, ReadStandsFor
    <2> HIDE DEF s
    <2> QED BY <1>1, <2>1 DEF Fits
  <1>3. ServiceQuote(side, amount)
          = IF NewState(s) # "none" THEN [error |-> NewState(s)]
            ELSE IF side = "buy" THEN Buy(s, p, amount) ELSE Sell(s, p, amount)
    BY <1>1 DEF ServiceQuote
  <1> HIDE DEF s
  <1>4. CASE NewState(s) # "none"
    <2>1. NewState(s) = "amount" /\ (~Fits(s.protocolFees) \/ ~Fits(s.creatorFees))
      BY <1>2, <1>4, WidthOfState
    <2>2. FeesAreWide(market)
      BY <1>2, <2>1 DEF StandsFor, FeesAreWide
    <2> QED BY <1>3, <2>1, <2>2
  <1>5. CASE NewState(s) = "none" /\ market.phase = "curve"
    BY <1>2, <1>3, <1>5
  <1>6. CASE NewState(s) = "none" /\ market.phase = "graduated"
    <2>1. s.phase # "curve"
      BY <1>2, <1>6 DEF StandsFor
    <2>2. Buy(s, p, amount).error = "wrong_phase" /\ Sell(s, p, amount).error = "wrong_phase"
      BY <2>1, GraduatedIsRefused
    <2> QED BY <1>3, <1>6, <2>2
  <1> QED BY <1>1, <1>4, <1>5, <1>6

\* Where the fees are too wide, so are those after any trade.
LEMMA WideFeesOverflow ==
  ASSUME Launched, InRange(p, market), FeesAreWide(market), NEW side \in {"buy", "sell"},
         NEW amount \in Nat, NEW c \in Contract(side, amount)
  PROVE  FeesOverflow(market, c.fees)
  <1>1. /\ market \in States /\ market.phase = "curve" /\ MaxUint \in Nat
        /\ market.protocolFees \in Nat /\ market.creatorFees \in Nat
    BY WidthAssumption DEF InRange, States, Contract
  <1>2. c.fees.protocol \in Nat /\ c.fees.creator \in Nat
    <2>1. CASE side = "buy"
      <3>1. c = BuyQuote(market, amount) /\ BuyAllowed(market, amount)
        BY <1>1, <2>1, ContractBuysOne DEF Contract
      <3>2. TradeRow(c, c.graduates) \in TradeRows
        BY <1>1, <3>1, BuyStaysInRange
      <3> QED BY <3>2 DEF TradeRow, TradeRows
    <2>2. CASE side = "sell"
      <3>1. c = SellQuote(market, amount) /\ SellAllowed(market, amount)
        BY <1>1, <2>2, ContractSellsOne DEF Contract
      <3>2. TradeRow(c, FALSE) \in TradeRows
        BY <1>1, <3>1, SellStaysInRange
      <3> QED BY <3>2 DEF TradeRow, TradeRows
    <2> QED BY <2>1, <2>2
  <1>3. market.protocolFees > MaxUint \/ market.creatorFees > MaxUint
    BY <1>1 DEF FeesAreWide, Fits
  <1> QED BY <1>1, <1>2, <1>3 DEF FeesOverflow

\* What the service quotes is what the contract would do.
LEMMA QuoteIsTrade ==
  ASSUME OnChain, NEW side \in {"buy", "sell"}, NEW amount \in 0..MaxUint
  PROVE  QuotedAsTraded(side, amount)
  <1> DEFINE q == ServiceQuote(side, amount)
  <1>1. /\ Launched /\ InRange(p, market) /\ market.phase \in {"curve", "graduated"}
        /\ amount \in Nat /\ MaxUint \in Nat
    BY PresentRebuilds, WidthAssumption DEF OnChain
  <1>2. \/ q.error = "amount" /\ FeesAreWide(market)
        \/ q.error = "wrong_phase" /\ market.phase = "graduated"
        \/ /\ market.phase = "curve"
           /\ q = IF side = "buy" THEN Buy(market, p, amount) ELSE Sell(market, p, amount)
    BY ServiceReadsMarket
  <1> HIDE DEF q
  <1>6. CASE q.error = "amount" /\ FeesAreWide(market)
    BY <1>1, <1>6, WideFeesOverflow DEF QuotedAsTraded, q
  <1>3. CASE q.error = "wrong_phase" /\ market.phase = "graduated"
    <2>1. q.error # "none"
      BY <1>3
    <2>2. Contract(side, amount) = {}
      BY <1>3 DEF Contract
    <2> QED BY <2>1, <2>2 DEF QuotedAsTraded, q
  <1>4. CASE market.phase = "curve" /\ side = "buy" /\ q = Buy(market, p, amount)
    <2> DEFINE c == BuyQuote(market, amount)
    <2>1. q = Buy(market, p, amount) /\ Contract(side, amount) = ContractBuys(amount)
      BY <1>4 DEF Contract
    <2>2. \A d : d \in ContractBuys(amount) <=> d = c /\ BuyAllowed(market, amount)
      BY <1>1, ContractBuysOne
    <2>3. SameTrade(side, q, c)
      BY <1>1, <1>4, <2>1, GoBuys DEF SameTrade
    <2>4. q.error = "none" <=> /\ BuyAllowed(market, amount)
                               /\ EthAfter(market, amount) <= MaxUint
                               /\ ~FeesOverflow(market, c.fees)
      BY <1>1, <1>4, <2>1, GoBuyAccepts
    <2>5. ~(EthAfter(market, amount) <= MaxUint) => ReserveTooWide(side, amount)
      <3>1. Supplied(amount).total = Chain!TotalFee(amount, p.tradeFeeBps)
            /\ EthAfter(market, amount) \in Nat
        BY <1>1, <1>4, BuyAmounts
      <3> QED BY <1>1, <1>4, <3>1 DEF ReserveTooWide, EthAfter
    <2> HIDE DEF c
    <2> QED BY <2>1, <2>2, <2>3, <2>4, <2>5 DEF QuotedAsTraded, q
  <1>5. CASE market.phase = "curve" /\ side = "sell" /\ q = Sell(market, p, amount)
    <2> DEFINE c == SellQuote(market, amount)
    <2>1. q = Sell(market, p, amount) /\ Contract(side, amount) = ContractSells(amount)
      BY <1>5 DEF Contract
    <2>2. \A d : d \in ContractSells(amount) <=> d = c /\ SellAllowed(market, amount)
      BY ContractSellsOne
    <2>3. SellAllowed(market, amount) => SameTrade(side, q, c)
      <3>1. SellAllowed(market, amount) => amount > 0
        BY DEF SellAllowed
      <3> QED BY <1>1, <1>5, <2>1, <3>1, GoSells DEF SameTrade
    <2>4. q.error = "none" <=> SellAllowed(market, amount) /\ ~FeesOverflow(market, c.fees)
      BY <1>1, <1>5, <2>1, GoSellAccepts
    <2> HIDE DEF c
    <2> QED BY <2>1, <2>2, <2>3, <2>4 DEF QuotedAsTraded, q
  <1> QED BY <1>1, <1>2, <1>3, <1>4, <1>5, <1>6

\* For every token, every history and every uint256 amount: when the service quotes a trade,
\* the contract would now do it with the same amounts; when it refuses, the contract would
\* revert, or its reserves or fees would be wider than a uint256.
THEOREM ServiceIsFaithful == Spec => []ServiceFaithful
  <1>1. IInv => ServiceFaithful
    BY QuoteIsTrade DEF IInv, Unlaunched, ServiceFaithful
  <1> QED BY <1>1, QuotesInvariant, PTL

-----------------------------------------------------------------------------
(* The contract's rounding against the reference definitions. *)

\* exactGrossForNet returns the least amount that leaves `net`, and it leaves exactly `net`.
LEMMA ExactGrossIsLeast ==
  ASSUME NEW net \in Nat \ {0}, NEW fee \in Nat, fee < Bps
  PROVE  /\ Chain!ExactGrossForNet(net, fee) = LeastGross(net, fee)
         /\ Net(Chain!ExactGrossForNet(net, fee), fee) = net
  <1> DEFINE g == Chain!ExactGrossForNet(net, fee)
  <1>1. g \in Nat \ {0}
    BY ExactGrossPositive
  <1>2. Bps \in Nat \ {0}
    BY WidthAssumption
  <1>3. g \in 1..(net * Bps)
    <2> DEFINE rest == Bps - fee
               k == ((net - 1) * Bps) \div rest
    <2>1. rest \in Nat \ {0} /\ (net - 1) * Bps \in Nat
      BY <1>2
    <2>2. k \in Int /\ rest * k <= (net - 1) * Bps
      BY <2>1, DivBounds
    <2>3. g = k + 1
      BY DEF Chain!ExactGrossForNet
    <2> HIDE DEF rest, k, g
    <2>4. k \in Nat /\ k <= rest * k
      BY <1>1, <2>1, <2>2, <2>3
    <2>5. (net - 1) * Bps = net * Bps - Bps
      BY <1>2
    <2> QED BY <1>1, <1>2, <2>1, <2>2, <2>3, <2>4, <2>5
  <1>4. \A h \in Nat : Net(h, fee) < net <=> h < g
    BY NetFallsShort
  <1>5. \A h \in Nat : Net(h, fee) \in Int
    BY <1>2, DivBounds DEF Net, Chain!TotalFee
  <1> HIDE DEF g
  <1>6. \A c \in 1..(net * Bps) :
          (Net(c, fee) >= net /\ \A h \in 1..(c - 1) : Net(h, fee) < net) <=> c = g
    <2> SUFFICES ASSUME NEW c \in 1..(net * Bps)
                 PROVE  (Net(c, fee) >= net /\ \A h \in 1..(c - 1) : Net(h, fee) < net) <=> c = g
      OBVIOUS
    <2>1. c \in Nat \ {0} /\ Net(c, fee) \in Int
      BY <1>5
    <2>2. Net(c, fee) >= net <=> c >= g
      BY <1>1, <1>4, <2>1
    <2>3. (\A h \in 1..(c - 1) : Net(h, fee) < net) <=> c <= g
      <3>1. ASSUME c <= g, NEW h \in 1..(c - 1) PROVE Net(h, fee) < net
        <4>1. h \in Nat /\ h < g
          BY <1>1, <2>1, <3>1
        <4> QED BY <1>4, <4>1
      <3>2. ASSUME ~(c <= g) PROVE g \in 1..(c - 1) /\ ~(Net(g, fee) < net)
        <4>1. g \in 1..(c - 1) /\ g \in Nat /\ ~(g < g)
          BY <1>1, <2>1, <3>2
        <4> QED BY <1>4, <4>1
      <3> QED BY <3>1, <3>2
    <2> QED BY <1>1, <2>1, <2>2, <2>3
  <1>7. g = LeastGross(net, fee)
    BY <1>3, <1>6 DEF LeastGross
  <1>8. Net(g, fee) = net
    <2>1. Net(g, fee) >= net
      BY <1>3, <1>6
    <2>2. CASE g = 1
      <3>1. Net(1, fee) = 1 - Chain!TotalFee(1, fee) /\ Chain!TotalFee(1, fee) \in Nat
        BY <1>2, ShareIsPart DEF Net, Chain!TotalFee
      <3> QED BY <2>1, <2>2, <3>1
    <2>3. CASE g # 1
      <3> DEFINE h == g - 1
                 th == (h * fee) \div Bps
                 tg == (g * fee) \div Bps
      <3>1. h \in Nat /\ h < g /\ Net(h, fee) < net /\ g = h + 1
        BY <1>1, <1>4, <2>3
      <3> HIDE DEF h
      <3>2. h * fee \in Nat /\ g * fee = h * fee + fee
        BY <3>1
      <3>3. th \in Int /\ Bps * th <= h * fee /\ tg \in Int /\ g * fee < Bps * tg + Bps
        BY <1>2, <3>1, <3>2, DivBounds
      <3>4. Net(h, fee) = h - th /\ Net(g, fee) = g - tg
        BY DEF Net, Chain!TotalFee
      <3> HIDE DEF th, tg
      <3>5. th <= tg
        <4> SUFFICES ASSUME tg + 1 <= th PROVE FALSE
          BY <3>3
        <4>1. Bps * (tg + 1) <= Bps * th /\ Bps * (tg + 1) = Bps * tg + Bps
          BY <1>2, <3>3
        <4> QED BY <1>2, <3>2, <3>3, <4>1
      <3> QED BY <2>1, <3>1, <3>3, <3>4, <3>5
    <2> QED BY <2>2, <2>3
  <1> QED BY <1>7, <1>8 DEF g

\* What validateParameters guarantees of a curve.
LEMMA ValidFacts ==
  ASSUME NEW q \in AllParameters, Chain!ValidParameters(q)
  PROVE  /\ q.initialVirtualEth \in Nat \ {0}
         /\ Invariant(q) \in Nat \ {0}
         /\ FinalVirtualEth(q) \in Nat \ {0} /\ FinalVirtualToken(q) \in Nat \ {0}
         /\ q.protocolShareBps \in Nat /\ q.protocolShareBps <= Bps
         /\ Chain!CeilDiv(Invariant(q), FinalVirtualToken(q)) = FinalVirtualEth(q)
         /\ Chain!CeilDiv(Invariant(q), FinalVirtualEth(q)) = FinalVirtualToken(q)
  <1> DEFINE e == q.initialVirtualEth
             v == q.initialVirtualToken
  <1>1. /\ q.curveTokens \in Nat /\ q.graduationEth \in Nat /\ e \in Nat /\ v \in Nat
        /\ q.protocolShareBps \in Nat
    BY ParametersTyped
  <1>2. /\ q.graduationEth > 0 /\ e > 0 /\ v > q.curveTokens /\ q.protocolShareBps <= Bps
        /\ Chain!CeilDiv(Invariant(q), FinalVirtualToken(q)) = FinalVirtualEth(q)
        /\ Chain!CeilDiv(Invariant(q), FinalVirtualEth(q)) = FinalVirtualToken(q)
    BY DEF Chain!ValidParameters, Invariant, FinalVirtualEth, FinalVirtualToken
  <1>3. /\ Invariant(q) = e * v /\ FinalVirtualEth(q) = e + q.graduationEth
        /\ FinalVirtualToken(q) = v - q.curveTokens
    BY DEF Invariant, FinalVirtualEth, FinalVirtualToken
  <1> HIDE DEF e, v
  <1>4. e \in Nat \ {0} /\ v \in Nat \ {0}
    BY <1>1, <1>2
  <1>5. e * v \in Nat \ {0}
    BY <1>4
  <1> QED BY <1>1, <1>2, <1>3, <1>4, <1>5 DEF e

\* At a position of the curve: the reserves cover the invariant, and tokens are left.
LEMMA PositionFacts ==
  ASSUME NEW q \in AllParameters, Chain!ValidParameters(q), NEW eth \in Positions(q)
  PROVE  /\ eth \in Nat \ {0} /\ eth < FinalVirtualEth(q)
         /\ TokenAt(q, eth) \in Nat \ {0}
         /\ eth * TokenAt(q, eth) >= Invariant(q)
         /\ FinalVirtualToken(q) < TokenAt(q, eth)
  <1> DEFINE k == Invariant(q)
             E == FinalVirtualEth(q)
             F == FinalVirtualToken(q)
             T == TokenAt(q, eth)
  <1>1. /\ k \in Nat \ {0} /\ E \in Nat \ {0} /\ F \in Nat \ {0} /\ q.initialVirtualEth \in Nat \ {0}
        /\ Chain!CeilDiv(k, F) = E
    BY ValidFacts
  <1>2. eth \in Nat \ {0} /\ eth < E
    BY <1>1 DEF Positions
  <1>3. T \in Nat \ {0} /\ T * eth >= k
    BY <1>1, <1>2, CeilDivBounds DEF TokenAt
  <1>4. \A c \in Nat : c * F >= k => E <= c
    BY <1>1, CeilDivBounds
  <1> HIDE DEF k, E, F, T
  <1>5. F < T
    <2> SUFFICES ASSUME T <= F PROVE FALSE
      BY <1>1, <1>3
    <2>1. T * eth <= F * eth /\ F * eth = eth * F
      BY <1>1, <1>2, <1>3, ProductGrows
    <2>2. eth * F >= k
      BY <1>1, <1>2, <1>3, <2>1
    <2> QED BY <1>1, <1>2, <1>4, <2>2
  <1>6. eth * T >= k
    BY <1>2, <1>3
  <1> QED BY <1>2, <1>3, <1>5, <1>6 DEF k, E, F, T

\* The quote of a buy at a position of the curve, as a set.
LEMMA BuyAtOne ==
  ASSUME NEW q \in AllParameters, Chain!ValidParameters(q), NEW eth \in Positions(q),
         NEW gross \in Nat \ {0}, NEW fee \in Nat, fee < Bps,
         NEW c, c = eth + Net(gross, fee),
         NEW token, token = Chain!CeilDiv(Invariant(q), c),
         NEW used, used = Chain!ExactGrossForNet(FinalVirtualEth(q) - eth, fee)
  PROVE  /\ c \in Nat \ {0} /\ eth <= c /\ token \in Nat \ {0}
         /\ used \in Nat \ {0} /\ (c > FinalVirtualEth(q) => used <= gross)
         /\ \A b \in BuyAt(q, eth, gross, fee) :
              /\ token < TokenAt(q, eth)
              /\ c > FinalVirtualEth(q) =>
                   /\ b.used = used /\ b.refund = gross - used /\ b.newEth = FinalVirtualEth(q)
                   /\ b.tokensOut = TokenAt(q, eth) - FinalVirtualToken(q)
                   /\ b.fees.total = Chain!TotalFee(used, fee) /\ b.graduates
              /\ ~(c > FinalVirtualEth(q)) =>
                   /\ b.used = gross /\ b.refund = 0 /\ b.newEth = c
                   /\ b.tokensOut = TokenAt(q, eth) - token
                   /\ b.fees.total = Chain!TotalFee(gross, fee)
                   /\ b.graduates <=> token = FinalVirtualToken(q)
         /\ token < TokenAt(q, eth) => BuyAt(q, eth, gross, fee) # {}
  <1> DEFINE E == FinalVirtualEth(q)
             F == FinalVirtualToken(q)
             T == TokenAt(q, eth)
             fees == Chain!SplitFees(gross, fee, q.protocolShareBps)
             cut == Chain!SplitFees(used, fee, q.protocolShareBps)
             quote == IF c > E
                      THEN [used |-> used, refund |-> gross - used, fees |-> cut,
                            newEth |-> E, newToken |-> F, tokensOut |-> T - F, graduates |-> TRUE]
                      ELSE [used |-> gross, refund |-> 0, fees |-> fees, newEth |-> c,
                            newToken |-> token, tokensOut |-> T - token,
                            graduates |-> token = F]
  <1>1. /\ Invariant(q) \in Nat \ {0} /\ E \in Nat \ {0} /\ F \in Nat \ {0}
        /\ q.protocolShareBps \in Nat /\ q.protocolShareBps <= Bps
        /\ Chain!CeilDiv(Invariant(q), F) = E
    BY ValidFacts
  <1>2. eth \in Nat \ {0} /\ eth < E /\ T \in Nat \ {0} /\ F < T
    BY PositionFacts
  <1>3. Bps \in Nat \ {0} /\ fee <= Bps
    BY WidthAssumption
  <1>4. fees.total \in Nat /\ fees.total <= gross /\ fees.total = Chain!TotalFee(gross, fee)
    BY <1>1, <1>3, FeesAreAmounts
  <1>5. c = eth + gross - fees.total /\ c \in Nat \ {0} /\ eth <= c
    <2>1. c = eth + (gross - fees.total)
      BY <1>4 DEF Net
    <2> HIDE DEF fees
    <2> QED BY <1>2, <1>4, <2>1
  <1>6. token \in Nat \ {0}
    BY <1>1, <1>5, CeilDivPositive
  <1>7. E - eth \in Nat \ {0}
    BY <1>1, <1>2
  <1>8. used \in Nat \ {0}
    BY <1>3, <1>7, ExactGrossPositive
  <1>9. c > E => used <= gross
    <2>1. Net(gross, fee) < E - eth <=> gross < used
      BY <1>7, NetFallsShort
    <2>2. Net(gross, fee) \in Int
      BY <1>4 DEF Net
    <2> HIDE DEF E
    <2> QED BY <1>1, <1>2, <1>8, <2>1, <2>2
  <1>10. cut.total = Chain!TotalFee(used, fee)
    BY <1>1, <1>3, <1>8, FeesAreAmounts
  <1>11. BuyAt(q, eth, gross, fee)
           = {x \in {quote} : /\ gross > 0 /\ token < T /\ x.tokensOut > 0 /\ x.refund >= 0}
    BY <1>1, <1>5 DEF BuyAt, Chain!QuoteBuy
  <1> HIDE DEF E, F, T, fees, cut
  <1>12. /\ c > E => /\ quote.used = used /\ quote.refund = gross - used /\ quote.newEth = E
                     /\ quote.tokensOut = T - F /\ quote.fees = cut /\ quote.graduates
         /\ ~(c > E) => /\ quote.used = gross /\ quote.refund = 0 /\ quote.newEth = c
                        /\ quote.tokensOut = T - token /\ quote.fees = fees
                        /\ quote.graduates <=> token = F
    OBVIOUS
  <1> HIDE DEF quote
  <1>13. \A b \in BuyAt(q, eth, gross, fee) : b = quote /\ token < T
    BY <1>11
  <1>14. ASSUME token < T PROVE quote \in BuyAt(q, eth, gross, fee)
    <2>1. CASE c > E
      <3>1. T - F > 0 /\ gross - used >= 0 /\ gross > 0
        BY <1>1, <1>2, <1>8, <1>9, <2>1
      <3> QED BY <1>11, <1>12, <1>14, <2>1, <3>1
    <2>2. CASE ~(c > E)
      <3>1. T - token > 0 /\ gross > 0
        BY <1>2, <1>6, <1>14
      <3> QED BY <1>11, <1>12, <1>14, <2>2, <3>1
    <2> QED BY <2>1, <2>2
  <1>15. \A b \in BuyAt(q, eth, gross, fee) :
           /\ token < T
           /\ c > E => /\ b.used = used /\ b.refund = gross - used /\ b.newEth = E
                       /\ b.tokensOut = T - F
                       /\ b.fees.total = Chain!TotalFee(used, fee) /\ b.graduates
           /\ ~(c > E) => /\ b.used = gross /\ b.refund = 0 /\ b.newEth = c
                          /\ b.tokensOut = T - token
                          /\ b.fees.total = Chain!TotalFee(gross, fee)
                          /\ b.graduates <=> token = F
    BY <1>4, <1>10, <1>12, <1>13, Zenon
  <1> QED BY <1>5, <1>6, <1>8, <1>9, <1>14, <1>15 DEF E, F, T

\* The most tokens, when the reserve that is left is rounded up.
LEMMA MostIsRoundedUp ==
  ASSUME NEW q \in AllParameters, Chain!ValidParameters(q), NEW eth \in Positions(q),
         NEW net \in Nat, NEW left \in Nat, FinalVirtualToken(q) <= left, left <= TokenAt(q, eth),
         (eth + net) * left >= Invariant(q),
         \A x \in Nat : FinalVirtualToken(q) <= x /\ (eth + net) * x >= Invariant(q) => left <= x
  PROVE  MostTokens(q, eth, net) = TokenAt(q, eth) - left
  <1> DEFINE F == FinalVirtualToken(q)
             T == TokenAt(q, eth)
             k == Invariant(q)
             fits == {t \in 0..(T - F) : (eth + net) * (T - t) >= k}
  <1>1. /\ T \in Nat \ {0} /\ F < T /\ F \in Nat \ {0} /\ k \in Nat \ {0}
        /\ eth \in Nat \ {0}
    BY ValidFacts, PositionFacts
  <1>2. MostTokens(q, eth, net) = CHOOSE t \in fits : \A u \in fits : u <= t
    BY DEF MostTokens
  <1> HIDE DEF F, T, k
  <1>3. T - left \in fits
    <2>1. T - left \in 0..(T - F) /\ T - (T - left) = left
      BY <1>1 DEF F, T
    <2> QED BY <2>1 DEF k
  <1>4. ASSUME NEW u \in fits PROVE u <= T - left
    <2>1. u \in 0..(T - F) /\ (eth + net) * (T - u) >= k
      OBVIOUS
    <2>2. T - u \in Nat /\ F <= T - u
      BY <1>1, <2>1
    <2>3. left <= T - u
      BY <2>1, <2>2 DEF F, k
    <2> QED BY <1>1, <2>1, <2>3
  <1>5. \A t \in fits : t \in Int
    BY <1>1
  <1> HIDE DEF fits
  <1>6. \A t \in fits : (\A u \in fits : u <= t) <=> t = T - left
    BY <1>1, <1>3, <1>4, <1>5
  <1> QED BY <1>2, <1>3, <1>6 DEF T

\* A buy at a position of the curve gives the most tokens, and only dust reverts.
LEMMA BuyIsReference ==
  ASSUME NEW q \in AllParameters, Chain!ValidParameters(q), NEW eth \in Positions(q),
         NEW gross \in Nat \ {0}, NEW fee \in Nat, fee < Bps
  PROVE  BuyIsMaximal(q, eth, gross, fee) /\ BuyRevertsOnlyOnDust(q, eth, gross, fee)
  <1> DEFINE E == FinalVirtualEth(q)
             F == FinalVirtualToken(q)
             T == TokenAt(q, eth)
             k == Invariant(q)
             net == Net(gross, fee)
             c == eth + net
             token == Chain!CeilDiv(k, c)
             used == Chain!ExactGrossForNet(E - eth, fee)
  <1>1. /\ k \in Nat \ {0} /\ E \in Nat \ {0} /\ F \in Nat \ {0}
        /\ Chain!CeilDiv(k, F) = E /\ Chain!CeilDiv(k, E) = F
    BY ValidFacts
  <1>2. eth \in Nat \ {0} /\ eth < E /\ T \in Nat \ {0} /\ F < T /\ eth * T >= k
    BY PositionFacts
  <1>3. net \in Nat /\ net = gross - Chain!TotalFee(gross, fee) /\ Chain!TotalFee(gross, fee) \in Nat
    <2>1. Chain!TotalFee(gross, fee) \in Nat /\ Chain!TotalFee(gross, fee) <= gross
      BY WidthAssumption, ShareIsPart DEF Chain!TotalFee
    <2> QED BY <2>1 DEF Net
  <1>4. Net(used, fee) = E - eth /\ Chain!TotalFee(used, fee) \in Int
    <2>1. E - eth \in Nat \ {0}
      BY <1>1, <1>2
    <2>2. used \in Nat
      BY <2>1, ExactGrossPositive
    <2>3. Chain!TotalFee(used, fee) \in Nat
      <3> HIDE DEF used
      <3> QED BY <2>2, WidthAssumption, ShareIsPart DEF Chain!TotalFee
    <2> QED BY <2>1, <2>3, ExactGrossIsLeast
  <1>5. /\ c \in Nat \ {0} /\ eth <= c /\ token \in Nat \ {0}
        /\ used \in Nat \ {0} /\ (c > E => used <= gross)
        /\ \A b \in BuyAt(q, eth, gross, fee) :
             /\ token < T
             /\ c > E =>
                  /\ b.used = used /\ b.refund = gross - used /\ b.newEth = E
                  /\ b.tokensOut = T - F
                  /\ b.fees.total = Chain!TotalFee(used, fee) /\ b.graduates
             /\ ~(c > E) =>
                  /\ b.used = gross /\ b.refund = 0 /\ b.newEth = c
                  /\ b.tokensOut = T - token
                  /\ b.fees.total = Chain!TotalFee(gross, fee)
                  /\ b.graduates <=> token = F
        /\ token < T => BuyAt(q, eth, gross, fee) # {}
    BY BuyAtOne
  <1>6. token * c >= k /\ \A x \in Nat : x * c >= k => token <= x
    BY <1>1, <1>5, CeilDivBounds
  <1>7. /\ F * E >= k /\ (\A x \in Nat : x * E >= k => F <= x)
        /\ E * F >= k /\ (\A x \in Nat : x * F >= k => E <= x)
    BY <1>1, CeilDivBounds
  <1>8. c = eth + net
    OBVIOUS
  <1>9. Net(used, fee) = used - Chain!TotalFee(used, fee)
    BY DEF Net
  <1> HIDE DEF E, F, T, k, net, c, token, used
  <1>10. token <= T
    <2>1. T * eth <= T * c /\ T * eth = eth * T
      BY <1>2, <1>5, ProductGrows
    <2>2. T * c >= k
      BY <1>1, <1>2, <1>5, <2>1
    <2> QED BY <1>2, <1>6, <2>2
  <1>11. ASSUME ~(c > E) PROVE F <= token
    <2>1. token * c <= token * E
      BY <1>1, <1>5, <1>11, ProductGrows
    <2>2. token * E >= k
      BY <1>1, <1>5, <1>6, <2>1
    <2> QED BY <1>5, <1>7, <2>2
  <1>12. ASSUME c > E PROVE MostTokens(q, eth, net) = T - F
    <2>1. (eth + net) * F >= k
      <3>1. E * F <= c * F
        BY <1>1, <1>5, <1>12, ProductGrows
      <3> QED BY <1>1, <1>5, <1>7, <1>8, <3>1
    <2>2. F \in Nat /\ F <= F /\ F <= T
      BY <1>1, <1>2
    <2> QED BY <1>3, <2>1, <2>2, MostIsRoundedUp DEF F, T, k
  <1>13. ASSUME ~(c > E) PROVE MostTokens(q, eth, net) = T - token
    <2>1. (eth + net) * token >= k
      BY <1>5, <1>6, <1>8
    <2>2. \A x \in Nat : F <= x /\ (eth + net) * x >= k => token <= x
      <3>1. \A x \in Nat : (eth + net) * x = x * c
        BY <1>5, <1>8
      <3> QED BY <1>6, <3>1
    <2>3. token \in Nat /\ F <= token /\ token <= T
      BY <1>5, <1>10, <1>11, <1>13
    <2> QED BY <1>3, <2>1, <2>2, <2>3, MostIsRoundedUp DEF F, T, k
  <1>14. ASSUME ~(c > E) PROVE token = F <=> c = E
    <2>1. ASSUME token = F PROVE c = E
      <3>1. c * F >= k
        BY <1>1, <1>5, <1>6, <2>1
      <3>2. E <= c
        BY <1>5, <1>7, <3>1
      <3> QED BY <1>1, <1>5, <1>14, <3>2
    <2>2. ASSUME c = E PROVE token = F
      BY <1>1, <2>2 DEF token
    <2> QED BY <2>1, <2>2
  <1>15. ASSUME NEW b \in BuyAt(q, eth, gross, fee)
         PROVE  /\ b.tokensOut = MostTokens(q, eth, net)
                /\ b.used + b.refund = gross
                /\ b.refund > 0 => eth + net > E
                /\ b.newEth = eth + b.used - b.fees.total
                /\ b.graduates <=> b.newEth = E
    <2>1. CASE c > E
      <3>1. /\ b.used = used /\ b.refund = gross - used /\ b.newEth = E /\ b.tokensOut = T - F
            /\ b.fees.total = Chain!TotalFee(used, fee) /\ b.graduates
        BY <1>5, <2>1
      <3>2. used + (gross - used) = gross
        BY <1>5
      <3>3. E = eth + used - Chain!TotalFee(used, fee)
        BY <1>1, <1>2, <1>4, <1>5, <1>9
      <3>4. eth + net > E
        BY <1>8, <2>1
      <3> QED BY <1>12, <2>1, <3>1, <3>2, <3>3, <3>4, Zenon
    <2>2. CASE ~(c > E)
      <3>1. /\ b.used = gross /\ b.refund = 0 /\ b.newEth = c /\ b.tokensOut = T - token
            /\ b.fees.total = Chain!TotalFee(gross, fee)
            /\ b.graduates <=> token = F
        BY <1>5, <2>2
      <3>2. gross + 0 = gross /\ ~(0 > 0)
        OBVIOUS
      <3>3. c = eth + gross - Chain!TotalFee(gross, fee)
        BY <1>2, <1>3, <1>8
      <3> QED BY <1>13, <1>14, <2>2, <3>1, <3>2, <3>3, Zenon
    <2> QED BY <2>1, <2>2
  <1>16. BuyIsMaximal(q, eth, gross, fee)
    BY <1>15 DEF BuyIsMaximal, net, E
  <1>17. BuyRevertsOnlyOnDust(q, eth, gross, fee)
    <2>1. BuyAt(q, eth, gross, fee) = {} => token = T
      BY <1>2, <1>5, <1>10
    <2> QED BY <2>1 DEF BuyRevertsOnlyOnDust, token, T, k, c, net
  <1> QED BY <1>16, <1>17

\* The contract's arithmetic (CurveMath.quoteBuy, exactGrossForNet) rounds as the reference
\* does, for every curve that the factory accepts, every position, amount and fee rate.
THEOREM RoundsLikeTheReference == Spec => []RoundsLikeReference
  <1>1. ASSUME Known, Chain!ValidParameters(p), NEW eth \in Positions(p), NEW fee \in 0..(Bps - 1)
        PROVE  GrossIsLeast(p, eth, fee)
    <2>1. fee \in Nat /\ fee < Bps
      BY WidthAssumption
    <2>2. FinalVirtualEth(p) - eth \in Nat \ {0}
      <3>1. eth \in Nat \ {0} /\ eth < FinalVirtualEth(p) /\ FinalVirtualEth(p) \in Nat
        BY <1>1, PositionFacts, ValidFacts DEF Known
      <3> QED BY <3>1
    <2> QED BY <2>1, <2>2, ExactGrossIsLeast DEF GrossIsLeast
  <1>2. ASSUME Known, Chain!ValidParameters(p), NEW eth \in Positions(p), NEW fee \in 0..(Bps - 1),
               NEW gross \in 1..MaxUint
        PROVE  BuyIsMaximal(p, eth, gross, fee) /\ BuyRevertsOnlyOnDust(p, eth, gross, fee)
    <2>1. fee \in Nat /\ fee < Bps /\ gross \in Nat \ {0}
      BY WidthAssumption
    <2> QED BY <1>2, <2>1, BuyIsReference DEF Known
  <1>3. Known => RoundsLikeReference
    BY <1>1, <1>2 DEF RoundsLikeReference
  <1>4. IInv => RoundsLikeReference
    BY <1>3 DEF IInv
  <1> QED BY <1>4, QuotesInvariant, PTL

-----------------------------------------------------------------------------
(* Decimal texts.  Value and Format are recursive functions; that they     *)
(* exist and what they return is shown by least counterexamples.           *)

\* The first k values of Horner's rule.
Partial(s, m, f) ==
  /\ f \in [0..m -> Nat]
  /\ f[0] = 0
  /\ \A k \in 1..m : f[k] = 10 * f[k - 1] + s[k]

LEMMA PartialExists ==
  ASSUME NEW s \in Seq(Nat), NEW m \in 0..Len(s)
  PROVE  \E f : Partial(s, m, f)
  <1> DEFINE bad == {k \in 0..Len(s) : ~ \E f : Partial(s, k, f)}
  <1>1. Len(s) \in Nat
    OBVIOUS
  <1> SUFFICES ASSUME bad # {} PROVE FALSE
    OBVIOUS
  <1>2. PICK k \in bad : \A j \in bad : k <= j
    <2>1. bad \in SUBSET Nat
      BY <1>1
    <2> QED BY <2>1, LeastNatural
  <1>3. k \in Nat /\ k <= Len(s) /\ ~ \E f : Partial(s, k, f)
    BY <1>1, <1>2
  <1>4. CASE k = 0
    <2>1. Partial(s, 0, [i \in 0..0 |-> 0])
      BY DEF Partial
    <2> QED BY <1>3, <1>4, <2>1
  <1>5. CASE k # 0
    <2>1. k - 1 \in 0..Len(s) /\ ~(k <= k - 1) /\ k \in 1..Len(s)
      BY <1>1, <1>3, <1>5
    <2>2. PICK f : Partial(s, k - 1, f)
      BY <1>2, <2>1
    <2> DEFINE g == [i \in 0..k |-> IF i = k THEN 10 * f[k - 1] + s[k] ELSE f[i]]
    <2>3. f \in [0..(k - 1) -> Nat] /\ f[0] = 0
          /\ \A i \in 1..(k - 1) : f[i] = 10 * f[i - 1] + s[i]
      BY <2>2 DEF Partial
    <2>4. s[k] \in Nat /\ f[k - 1] \in Nat
      BY <1>3, <1>5, <2>1, <2>3
    <2>5. \A i \in 0..k : i # k => i \in 0..(k - 1)
      BY <1>3
    <2>6. g \in [0..k -> Nat]
      BY <2>3, <2>4, <2>5
    <2>7. g[0] = 0
      BY <1>3, <1>5, <2>3
    <2>8. ASSUME NEW i \in 1..k PROVE g[i] = 10 * g[i - 1] + s[i]
      <3>1. i \in 0..k /\ i - 1 \in 0..k /\ i - 1 # k
        BY <1>3
      <3>2. CASE i = k
        BY <3>1, <3>2
      <3>3. CASE i # k
        <4>1. i \in 1..(k - 1)
          BY <1>3, <3>3
        <4> QED BY <2>3, <3>1, <3>3, <4>1
      <3> QED BY <3>2, <3>3
    <2>9. Partial(s, k, g)
      BY <2>6, <2>7, <2>8 DEF Partial
    <2> QED BY <1>3, <2>9
  <1> QED BY <1>4, <1>5

LEMMA PartialUnique ==
  ASSUME NEW s, NEW t, NEW m \in Nat, NEW n \in Nat, m <= n, NEW f, NEW g,
         Partial(s, m, f), Partial(t, n, g), \A i \in 1..m : s[i] = t[i]
  PROVE  \A k \in 0..m : f[k] = g[k]
  <1> DEFINE bad == {i \in 0..m : f[i] # g[i]}
  <1> SUFFICES ASSUME bad # {} PROVE FALSE
    OBVIOUS
  <1>1. PICK i \in bad : \A j \in bad : i <= j
    <2>1. bad \in SUBSET Nat
      OBVIOUS
    <2> QED BY <2>1, LeastNatural
  <1>2. i \in Nat /\ i <= m /\ f[i] # g[i]
    BY <1>1
  <1>3. i # 0
    BY <1>2 DEF Partial
  <1>4. i \in 1..m /\ i \in 1..n /\ i - 1 \in 0..m /\ ~(i <= i - 1)
    BY <1>2, <1>3
  <1>5. f[i - 1] = g[i - 1]
    BY <1>1, <1>4
  <1> QED BY <1>2, <1>4, <1>5 DEF Partial

\* Value is the last value of Horner's rule.
LEMMA ValueIsPartial ==
  ASSUME NEW s \in Seq(Nat)
  PROVE  /\ Value(s) \in Nat
         /\ \A n \in Nat : \A t, g :
              Len(s) <= n /\ Partial(t, n, g) /\ (\A i \in 1..Len(s) : s[i] = t[i])
                => Value(s) = g[Len(s)]
  <1> DEFINE m == Len(s)
             Eq(f) == f = [k \in 0..m |-> IF k = 0 THEN 0 ELSE 10 * f[k - 1] + s[k]]
             v == CHOOSE f : Eq(f)
  <1>1. m \in Nat /\ m \in 0..m
    OBVIOUS
  <1>2. Value(s) = v[m]
    BY DEF Value
  <1>3. PICK f : Partial(s, m, f)
    BY <1>1, PartialExists
  <1>4. f = [k \in 0..m |-> IF k = 0 THEN 0 ELSE 10 * f[k - 1] + s[k]]
    <2>1. \A k \in 0..m : k # 0 => k \in 1..m
      BY <1>1
    <2> QED BY <1>3, <2>1 DEF Partial
  <1>5. \E h : Eq(h)
    BY <1>4
  <1>6. Eq(v)
    BY <1>5
  <1> HIDE DEF v, m
  <1>7. /\ DOMAIN v = 0..m /\ v[0] = 0
        /\ \A k \in 1..m : v[k] = 10 * v[k - 1] + s[k]
    <2>1. DOMAIN v = 0..m /\ \A k \in 0..m : v[k] = IF k = 0 THEN 0 ELSE 10 * v[k - 1] + s[k]
      BY <1>6
    <2>2. 0 \in 0..m /\ \A k \in 1..m : k \in 0..m /\ k # 0
      BY <1>1
    <2> QED BY <2>1, <2>2
  <1>8. \A k \in 0..m : v[k] \in Nat
    <2> DEFINE bad == {i \in 0..m : v[i] \notin Nat}
    <2> SUFFICES ASSUME bad # {} PROVE FALSE
      OBVIOUS
    <2>1. PICK i \in bad : \A j \in bad : i <= j
      <3>1. bad \in SUBSET Nat
        BY <1>1
      <3> QED BY <3>1, LeastNatural
    <2>2. i \in Nat /\ i <= m /\ v[i] \notin Nat
      BY <1>1, <2>1
    <2>3. i # 0
      BY <1>7, <2>2
    <2>4. i \in 1..m /\ i - 1 \in 0..m /\ ~(i <= i - 1)
      BY <1>1, <2>2, <2>3
    <2>5. v[i - 1] \in Nat
      BY <2>1, <2>4
    <2>6. s[i] \in Nat
      BY <2>4 DEF m
    <2> QED BY <1>7, <2>2, <2>4, <2>5, <2>6
  <1>9. v \in [0..m -> Nat]
    <2>1. v = [k \in 0..m |-> v[k]]
      BY <1>6
    <2> QED BY <1>8, <2>1
  <1>10. Partial(s, m, v)
    BY <1>7, <1>9 DEF Partial
  <1>11. ASSUME NEW n \in Nat, NEW t, NEW g,
                m <= n /\ Partial(t, n, g) /\ (\A i \in 1..m : s[i] = t[i])
         PROVE  v[m] = g[m]
    <2>1. m \in Nat /\ m \in 0..m /\ m <= n
      BY <1>1, <1>11
    <2>2. Partial(s, m, v) /\ Partial(t, n, g)
      BY <1>10, <1>11
    <2>3. \A i \in 1..m : s[i] = t[i]
      BY <1>11
    <2>4. \A k \in 0..m : v[k] = g[k]
      BY <2>1, <2>2, <2>3, PartialUnique
    <2> QED BY <2>1, <2>4
  <1>12. \A n \in Nat : \A t, g :
           m <= n /\ Partial(t, n, g) /\ (\A i \in 1..m : s[i] = t[i]) => v[m] = g[m]
    BY <1>11
  <1>13. v[m] \in Nat
    BY <1>1, <1>8
  <1> QED BY <1>2, <1>12, <1>13 DEF m

\* Horner's rule, digit by digit.
LEMMA ValueOfEmpty == Value(<<>>) = 0
  <1>1. <<>> \in Seq(Nat) /\ Len(<<>>) = 0
    OBVIOUS
  <1> DEFINE g == [i \in 0..0 |-> 0]
  <1>2. Partial(<<>>, 0, g) /\ g[0] = 0
    BY DEF Partial
  <1> HIDE DEF g
  <1> DEFINE e == <<>>
  <1>3. e \in Seq(Nat) /\ 0 \in Nat /\ Len(e) = 0 /\ 0 <= 0 /\ \A i \in 1..0 : e[i] = e[i]
    BY <1>1
  <1>4. Partial(e, 0, g)
    BY <1>2
  <1> HIDE DEF e
  <1>5. Value(e) = g[0]
    BY <1>3, <1>4, ValueIsPartial
  <1> QED BY <1>2, <1>5 DEF e

LEMMA ValueOfAppend ==
  ASSUME NEW s \in Seq(Nat), NEW d \in Nat
  PROVE  Value(Append(s, d)) = 10 * Value(s) + d
  <1> DEFINE t == Append(s, d)
             m == Len(s)
             n == m + 1
  <1>1. t \in Seq(Nat) /\ Len(t) = n /\ m \in Nat /\ t[n] = d /\ \A i \in 1..m : t[i] = s[i]
    BY AppendProperties, LenProperties
  <1> HIDE DEF t
  <1>2. PICK f : Partial(t, n, f)
    <2>1. n \in 0..Len(t)
      BY <1>1
    <2> QED BY <1>1, <2>1, PartialExists
  <1>3. Value(t) = f[n]
    <2>1. n \in Nat /\ Len(t) <= n /\ \A i \in 1..Len(t) : t[i] = t[i]
      BY <1>1
    <2> QED BY <1>1, <1>2, <2>1, ValueIsPartial
  <1>4. Value(s) = f[m]
    <2>1. n \in Nat /\ m <= n /\ \A i \in 1..m : s[i] = t[i]
      BY <1>1
    <2> QED BY <1>2, <2>1, ValueIsPartial
  <1>5. f[n] = 10 * f[m] + t[n]
    <2>1. n \in 1..n /\ n - 1 = m
      BY <1>1
    <2> HIDE DEF n
    <2> QED BY <1>2, <2>1 DEF Partial
  <1> QED BY <1>1, <1>3, <1>4, <1>5 DEF t

\* The first m values of the recursion of Format.
Digits == 0..9

FormatsTo(m, f) ==
  /\ f \in [0..m -> Seq(Digits)]
  /\ \A n \in 0..m : f[n] = IF n < 10 THEN <<n>> ELSE Append(f[n \div 10], n % 10)

\* A number of several digits is ten times a smaller one and a digit.
LEMMA TenTimes ==
  ASSUME NEW n \in Nat, ~(n < 10)
  PROVE  /\ n \div 10 \in Nat \ {0} /\ n \div 10 < n
         /\ n % 10 \in Digits /\ n = 10 * (n \div 10) + (n % 10)
  BY DEF Digits

LEMMA FormatsToExists ==
  ASSUME NEW m \in Nat
  PROVE  \E f : FormatsTo(m, f)
  <1> DEFINE bad == {k \in Nat : ~ \E f : FormatsTo(k, f)}
  <1> SUFFICES ASSUME bad # {} PROVE FALSE
    OBVIOUS
  <1>1. PICK k \in bad : \A j \in bad : k <= j
    <2>1. bad \in SUBSET Nat
      OBVIOUS
    <2> QED BY <2>1, LeastNatural
  <1>2. k \in Nat /\ ~ \E f : FormatsTo(k, f)
    BY <1>1
  <1>3. ASSUME NEW d \in Nat, d < 10 PROVE <<d>> \in Seq(Digits)
    BY <1>3 DEF Digits
  <1>4. CASE k = 0
    <2> DEFINE g == [i \in 0..0 |-> <<0>>]
    <2>1. g \in [0..0 -> Seq(Digits)]
      BY <1>3
    <2>2. \A n \in 0..0 : g[n] = <<n>> /\ n < 10
      OBVIOUS
    <2> HIDE DEF g
    <2>3. FormatsTo(0, g)
      BY <2>1, <2>2 DEF FormatsTo
    <2> QED BY <1>2, <1>4, <2>3
  <1>5. CASE k # 0
    <2>1. k - 1 \in Nat /\ ~(k <= k - 1)
      BY <1>2, <1>5
    <2>2. PICK f : FormatsTo(k - 1, f)
      BY <1>1, <2>1
    <2> DEFINE new == IF k < 10 THEN <<k>> ELSE Append(f[k \div 10], k % 10)
               g == [i \in 0..k |-> IF i = k THEN new ELSE f[i]]
    <2>3. /\ f \in [0..(k - 1) -> Seq(Digits)]
          /\ \A n \in 0..(k - 1) : f[n] = IF n < 10 THEN <<n>> ELSE Append(f[n \div 10], n % 10)
      BY <2>2 DEF FormatsTo
    <2>4. new \in Seq(Digits)
      <3>1. CASE k < 10
        BY <1>2, <1>3, <3>1
      <3>2. CASE ~(k < 10)
        <4>1. k \div 10 \in 0..(k - 1) /\ k % 10 \in Digits
          BY <1>2, <3>2, TenTimes
        <4>2. f[k \div 10] \in Seq(Digits)
          BY <2>3, <4>1
        <4>3. Append(f[k \div 10], k % 10) \in Seq(Digits)
          BY <4>1, <4>2, AppendProperties
        <4> QED BY <3>2, <4>3
      <3> QED BY <3>1, <3>2
    <2>5. \A i \in 0..k : i # k => i \in 0..(k - 1)
      BY <1>2
    <2> HIDE DEF new
    <2>6. g \in [0..k -> Seq(Digits)]
      BY <2>3, <2>4, <2>5
    <2>7. ASSUME NEW n \in 0..k
          PROVE  g[n] = IF n < 10 THEN <<n>> ELSE Append(g[n \div 10], n % 10)
      <3>1. ASSUME ~(n < 10) PROVE n \div 10 \in 0..k /\ g[n \div 10] = f[n \div 10]
        <4>1. n \in Nat /\ n <= k
          BY <1>2
        <4>2. n \div 10 \in Nat /\ n \div 10 < n
          BY <3>1, <4>1, TenTimes
        <4>3. n \div 10 \in 0..k /\ n \div 10 # k
          BY <1>2, <4>1, <4>2
        <4> QED BY <4>3
      <3>2. CASE n = k
        BY <3>1, <3>2 DEF new
      <3>3. CASE n # k
        <4>1. n \in 0..(k - 1) /\ g[n] = f[n]
          BY <2>5, <3>3
        <4> QED BY <2>3, <3>1, <4>1
      <3> QED BY <3>2, <3>3
    <2>8. FormatsTo(k, g)
      BY <2>6, <2>7 DEF FormatsTo
    <2> QED BY <1>2, <2>8
  <1> QED BY <1>4, <1>5

LEMMA FormatsToUnique ==
  ASSUME NEW m \in Nat, NEW n \in Nat, NEW f, NEW g, FormatsTo(m, f), FormatsTo(n, g),
         NEW k \in Nat, k <= m, k <= n
  PROVE  f[k] = g[k]
  <1> DEFINE bad == {i \in Nat : i <= m /\ i <= n /\ f[i] # g[i]}
  <1> SUFFICES ASSUME bad # {} PROVE FALSE
    OBVIOUS
  <1>1. PICK i \in bad : \A j \in bad : i <= j
    <2>1. bad \in SUBSET Nat
      OBVIOUS
    <2> QED BY <2>1, LeastNatural
  <1>2. i \in Nat /\ i <= m /\ i <= n /\ f[i] # g[i] /\ i \in 0..m /\ i \in 0..n
    BY <1>1
  <1>3. /\ f[i] = IF i < 10 THEN <<i>> ELSE Append(f[i \div 10], i % 10)
        /\ g[i] = IF i < 10 THEN <<i>> ELSE Append(g[i \div 10], i % 10)
    BY <1>2 DEF FormatsTo
  <1>4. ~(i < 10)
    BY <1>2, <1>3
  <1>5. i \div 10 \in Nat /\ i \div 10 < i
    BY <1>2, <1>4, TenTimes
  <1>6. f[i \div 10] = g[i \div 10]
    <2>1. i \div 10 <= m /\ i \div 10 <= n /\ ~(i <= i \div 10)
      BY <1>2, <1>5
    <2> QED BY <1>1, <1>5, <2>1
  <1> QED BY <1>2, <1>3, <1>4, <1>6

\* Format is defined by its recursion.
LEMMA FormatRecursion ==
  /\ Format \in [Nat -> Seq(Digits)]
  /\ \A n \in Nat : Format[n] = IF n < 10 THEN <<n>> ELSE Append(Format[n \div 10], n % 10)
  <1> DEFINE Eq(h) == h = [n \in Nat |-> IF n < 10 THEN <<n>> ELSE Append(h[n \div 10], n % 10)]
             to(n) == CHOOSE f : FormatsTo(n, f)
             h == [n \in Nat |-> to(n)[n]]
  <1>1. \A n \in Nat : FormatsTo(n, to(n))
    BY FormatsToExists
  <1> HIDE DEF to
  <1>2. \A n \in Nat : h[n] = to(n)[n]
    OBVIOUS
  <1> HIDE DEF h
  <1>3. ASSUME NEW n \in Nat
        PROVE  h[n] = IF n < 10 THEN <<n>> ELSE Append(h[n \div 10], n % 10)
    <2>1. to(n)[n] = IF n < 10 THEN <<n>> ELSE Append(to(n)[n \div 10], n % 10)
      BY <1>1 DEF FormatsTo
    <2>2. ASSUME ~(n < 10) PROVE to(n)[n \div 10] = h[n \div 10]
      <3> DEFINE k == n \div 10
      <3>1. k \in Nat /\ k <= n /\ k <= k
        BY <2>2, TenTimes
      <3> HIDE DEF k
      <3>2. FormatsTo(n, to(n)) /\ FormatsTo(k, to(k))
        BY <1>1, <3>1
      <3>3. to(n)[k] = to(k)[k]
        BY <3>1, <3>2, FormatsToUnique
      <3>4. to(n)[k] = h[k]
        BY <1>2, <3>1, <3>3
      <3> QED BY <3>4 DEF k
    <2> QED BY <1>2, <2>1, <2>2
  <1>4. Eq(h)
    <2>1. h = [n \in Nat |-> h[n]]
      BY DEF h
    <2> QED BY <1>3, <2>1
  <1>5. Format = CHOOSE g : Eq(g)
    BY DEF Format
  <1>6. Eq(Format)
    BY <1>4, <1>5
  <1>7. /\ Format = [n \in Nat |-> Format[n]]
        /\ \A n \in Nat : Format[n] = IF n < 10 THEN <<n>> ELSE Append(Format[n \div 10], n % 10)
    BY <1>6
  <1>8. ASSUME NEW n \in Nat PROVE Format[n] \in Seq(Digits)
    <2> DEFINE bad == {k \in Nat : Format[k] \notin Seq(Digits)}
    <2> SUFFICES ASSUME bad # {} PROVE FALSE
      OBVIOUS
    <2>1. PICK k \in bad : \A j \in bad : k <= j
      <3>1. bad \in SUBSET Nat
        OBVIOUS
      <3> QED BY <3>1, LeastNatural
    <2>2. k \in Nat /\ Format[k] \notin Seq(Digits)
      BY <2>1
    <2>3. CASE k < 10
      <3>1. Format[k] = <<k>>
        BY <1>7, <2>2, <2>3
      <3>2. k \in Digits
        BY <2>2, <2>3 DEF Digits
      <3> QED BY <2>2, <3>1, <3>2
    <2>4. CASE ~(k < 10)
      <3>1. k \div 10 \in Nat /\ k \div 10 < k /\ k % 10 \in Digits
        BY <2>2, <2>4, TenTimes
      <3>2. Format[k \div 10] \in Seq(Digits)
        <4>1. ~(k <= k \div 10)
          BY <2>2, <3>1
        <4> QED BY <2>1, <3>1, <4>1
      <3>3. Append(Format[k \div 10], k % 10) \in Seq(Digits)
        BY <3>1, <3>2, AppendProperties
      <3> QED BY <1>7, <2>2, <2>4, <3>3
    <2> QED BY <2>3, <2>4
  <1> QED BY <1>7, <1>8

LEMMA DigitsAreNumbers ==
  ASSUME NEW s \in Seq(Digits)
  PROVE  s \in Seq(Nat)
  <1>1. \A i \in 1..Len(s) : s[i] \in Nat
    BY ElementOfSeq DEF Digits
  <1> QED BY <1>1, IsASeq, LenProperties

\* What Format writes is read back.
LEMMA ValueOfFormat ==
  ASSUME NEW n \in Nat
  PROVE  Value(Format[n]) = n
  <1> DEFINE bad == {k \in Nat : Value(Format[k]) # k}
  <1> SUFFICES ASSUME bad # {} PROVE FALSE
    OBVIOUS
  <1>1. PICK k \in bad : \A j \in bad : k <= j
    <2>1. bad \in SUBSET Nat
      OBVIOUS
    <2> QED BY <2>1, LeastNatural
  <1>2. k \in Nat /\ Value(Format[k]) # k
    BY <1>1
  <1>3. CASE k < 10
    <2>1. Format[k] = <<k>>
      BY <1>2, <1>3, FormatRecursion
    <2>2. <<>> \in Seq(Nat) /\ Append(<<>>, k) = <<k>>
      OBVIOUS
    <2>3. Value(Append(<<>>, k)) = 10 * Value(<<>>) + k
      BY <1>2, <2>2, ValueOfAppend
    <2> QED BY <1>2, <2>1, <2>2, <2>3, ValueOfEmpty
  <1>4. CASE ~(k < 10)
    <2> DEFINE j == k \div 10
               d == k % 10
               s == Format[j]
    <2>1. j \in Nat /\ j < k /\ d \in Digits /\ k = 10 * j + d
      BY <1>2, <1>4, TenTimes
    <2>2. Format[k] = Append(s, d)
      BY <1>2, <1>4, FormatRecursion
    <2> HIDE DEF j, d
    <2>3. s \in Seq(Digits)
      BY <2>1, FormatRecursion
    <2>4. Value(s) = j
      <3>1. ~(k <= j)
        BY <1>2, <2>1
      <3> QED BY <1>1, <2>1, <3>1
    <2> HIDE DEF s
    <2>5. s \in Seq(Nat) /\ d \in Nat
      BY <2>1, <2>3 DEF Digits
    <2>6. Value(Append(s, d)) = 10 * Value(s) + d
      BY <2>5, ValueOfAppend
    <2> QED BY <1>2, <2>1, <2>2, <2>4, <2>6
  <1> QED BY <1>3, <1>4

\* What Format writes has no leading zero, and grows with the number.
LEMMA FormatIsCanonical ==
  ASSUME NEW n \in Nat
  PROVE  /\ Len(Format[n]) \in Nat \ {0}
         /\ Len(Format[n]) > 1 => Format[n][1] # 0
         /\ n > 0 => Format[n][1] # 0
         /\ \A m \in Nat : n <= m => Len(Format[n]) <= Len(Format[m])
  <1> DEFINE good(k) == /\ Len(Format[k]) \in Nat \ {0}
                        /\ Len(Format[k]) > 1 => Format[k][1] # 0
                        /\ k > 0 => Format[k][1] # 0
                        /\ \A m \in Nat : k <= m => Len(Format[k]) <= Len(Format[m])
             bad == {k \in Nat : ~good(k)}
  <1>0. \A m \in Nat : Len(Format[m]) \in Nat \ {0}
    <2> SUFFICES ASSUME NEW m \in Nat PROVE Len(Format[m]) \in Nat \ {0}
      OBVIOUS
    <2>1. CASE m < 10
      <3>1. Format[m] = <<m>>
        BY <2>1, FormatRecursion
      <3> QED BY <3>1
    <2>2. CASE ~(m < 10)
      <3>1. Format[m] = Append(Format[m \div 10], m % 10)
        BY <2>2, FormatRecursion
      <3>2. m \div 10 \in Nat /\ m % 10 \in Digits
        BY <2>2, TenTimes
      <3>3. Format[m \div 10] \in Seq(Digits)
        BY <3>2, FormatRecursion
      <3>4. Len(Append(Format[m \div 10], m % 10)) = Len(Format[m \div 10]) + 1
            /\ Len(Format[m \div 10]) \in Nat
        BY <3>2, <3>3, AppendProperties, LenProperties
      <3> QED BY <3>1, <3>4
    <2> QED BY <2>1, <2>2
  <1> SUFFICES ASSUME bad # {} PROVE FALSE
    OBVIOUS
  <1>1. PICK k \in bad : \A j \in bad : k <= j
    <2>1. bad \in SUBSET Nat
      OBVIOUS
    <2> QED BY <2>1, LeastNatural
  <1>2. k \in Nat /\ ~good(k) /\ Len(Format[k]) \in Nat \ {0}
    BY <1>0, <1>1
  <1>3. CASE k < 10
    <2>1. Format[k] = <<k>> /\ Len(<<k>>) = 1 /\ <<k>>[1] = k
      BY <1>2, <1>3, FormatRecursion
    <2>2. \A m \in Nat : k <= m => Len(Format[k]) <= Len(Format[m])
      BY <1>0, <2>1
    <2> QED BY <1>2, <2>1, <2>2
  <1>4. CASE ~(k < 10)
    <2> DEFINE j == k \div 10
               d == k % 10
               s == Format[j]
    <2>1. j \in Nat \ {0} /\ j < k /\ d \in Digits /\ k = 10 * j + d
      BY <1>2, <1>4, TenTimes
    <2>2. Format[k] = Append(s, d)
      BY <1>2, <1>4, FormatRecursion
    <2> HIDE DEF j, d
    <2>3. s \in Seq(Digits)
      BY <2>1, FormatRecursion
    <2>4. good(j)
      <3>1. ~(k <= j) /\ j \in Nat
        BY <1>2, <2>1
      <3> HIDE DEF good
      <3> QED BY <1>1, <3>1
    <2>5. Len(s) \in Nat \ {0} /\ s[1] # 0
      BY <2>1, <2>4
    <2>6. Format[k][1] # 0 /\ Len(Format[k]) = Len(s) + 1
      <3> HIDE DEF s
      <3>1. 1 \in 1..Len(s)
        BY <2>5
      <3>2. Append(s, d)[1] = s[1] /\ Len(Append(s, d)) = Len(s) + 1
        BY <2>1, <2>3, <3>1, AppendProperties
      <3> QED BY <2>2, <2>5, <3>2
    <2>7. ASSUME NEW m \in Nat, k <= m PROVE Len(Format[k]) <= Len(Format[m])
      <3> DEFINE i == m \div 10
      <3>1. ~(m < 10)
        BY <1>2, <1>4, <2>7
      <3>2. i \in Nat /\ m % 10 \in Digits /\ m = 10 * i + (m % 10)
        BY <3>1, TenTimes
      <3>3. Format[m] = Append(Format[i], m % 10)
        BY <3>1, FormatRecursion
      <3>4. j <= i
        BY <1>2, <2>1, <2>7, <3>2 DEF Digits
      <3> HIDE DEF i
      <3>5. Format[i] \in Seq(Digits) /\ Len(s) <= Len(Format[i])
        BY <2>4, <3>2, <3>4, FormatRecursion
      <3>6. Len(Format[m]) = Len(Format[i]) + 1 /\ Len(Format[i]) \in Nat
        BY <3>2, <3>3, <3>5, AppendProperties, LenProperties
      <3> QED BY <2>5, <2>6, <3>5, <3>6
    <2> QED BY <1>2, <2>6, <2>7
  <1> QED BY <1>3, <1>4

\* A text of digits without leading zeros is what Format writes of its value.
LEMMA FormatOfValue ==
  ASSUME NEW s \in Seq(Digits), Len(s) # 0, Len(s) > 1 => s[1] # 0
  PROVE  s = Format[Value(s)]
  <1> DEFINE Wrong(k) == \E t \in Seq(Digits) : /\ Len(t) = k /\ (k > 1 => t[1] # 0)
                                                /\ t # Format[Value(t)]
             bad == {k \in Nat \ {0} : Wrong(k)}
  <1>0. ASSUME bad = {} PROVE s = Format[Value(s)]
    <2>1. Len(s) \in Nat \ {0}
      OBVIOUS
    <2> QED BY <1>0, <2>1
  <1> SUFFICES ASSUME bad # {} PROVE FALSE
    BY <1>0
  <1>1. PICK k \in bad : \A j \in bad : k <= j
    <2>1. bad \in SUBSET Nat
      OBVIOUS
    <2> QED BY <2>1, LeastNatural
  <1>2. k \in Nat \ {0} /\ Wrong(k)
    BY <1>1
  <1>3. PICK t \in Seq(Digits) : Len(t) = k /\ (k > 1 => t[1] # 0) /\ t # Format[Value(t)]
    BY <1>2
  <1> DEFINE u == SubSeq(t, 1, k - 1)
             d == t[k]
  <1>4. /\ u \in Seq(Digits) /\ Len(u) = k - 1 /\ d \in Digits
        /\ \A i \in 1..(k - 1) : u[i] = t[i]
    <2>1. k \in 1..Len(t) /\ 1 \in 1..(Len(t) + 1) /\ k - 1 \in Int /\ k - 1 \in 0..Len(t)
      BY <1>2, <1>3
    <2>2. d \in Digits
      BY <2>1, ElementOfSeq
    <2>3. /\ u \in Seq(Digits)
          /\ Len(u) = IF 1 <= k - 1 THEN k - 1 - 1 + 1 ELSE 0
          /\ \A i \in 1..(k - 1 - 1 + 1) : u[i] = t[1 + i - 1]
      <3>1. 1 \in 1..(Len(t) + 1) /\ k - 1 \in 0..Len(t)
        BY <2>1
      <3>2. (k - 1) - 1 + 1 = k - 1
        BY <1>2
      <3> QED BY <3>1, SubSeqProperties
    <2>4. Len(u) = k - 1
      BY <1>2, <2>3
    <2>5. \A i \in 1..(k - 1) : i \in 1..(k - 1 - 1 + 1) /\ 1 + i - 1 = i
      BY <1>2
    <2> QED BY <2>2, <2>3, <2>4, <2>5
  <1> HIDE DEF u, d
  <1>5. t = Append(u, d)
    <2>1. /\ Append(u, d) \in Seq(Digits) /\ Len(Append(u, d)) = k
          /\ \A i \in 1..(k - 1) : Append(u, d)[i] = u[i]
          /\ Append(u, d)[k] = d
      <3>1. /\ Append(u, d) \in Seq(Digits) /\ Len(Append(u, d)) = Len(u) + 1
            /\ \A i \in 1..Len(u) : Append(u, d)[i] = u[i]
            /\ Append(u, d)[Len(u) + 1] = d
        BY <1>4, AppendProperties
      <3>2. Len(u) + 1 = k
        BY <1>2, <1>4
      <3> QED BY <1>4, <3>1, <3>2
    <2>2. \A i \in 1..k : t[i] = Append(u, d)[i]
      <3>1. \A i \in 1..k : i = k \/ i \in 1..(k - 1)
        BY <1>2
      <3> QED BY <1>4, <2>1, <3>1 DEF d
    <2> QED BY <1>3, <2>1, <2>2, SeqEqual
  <1>6. /\ u \in Seq(Nat) /\ d \in Nat /\ Value(u) \in Nat
        /\ Value(t) = 10 * Value(u) + d
    <2>1. u \in Seq(Nat) /\ d \in Nat
      <3>1. u \in Seq(Nat)
        BY <1>4, DigitsAreNumbers
      <3>2. d \in Nat
        BY <1>4 DEF Digits
      <3> QED BY <3>1, <3>2
    <2> QED BY <1>5, <2>1, ValueOfAppend, ValueIsPartial
  <1>7. CASE k = 1
    <2>1. u = <<>>
      BY <1>4, <1>7
    <2>2. Value(t) = d
      BY <1>6, <2>1, ValueOfEmpty
    <2>3. t = <<d>>
      BY <1>5, <2>1
    <2>4. d < 10
      BY <1>4 DEF Digits
    <2>5. Format[d] = <<d>>
      BY <1>6, <2>4, FormatRecursion
    <2> QED BY <1>3, <2>2, <2>3, <2>5
  <1>8. CASE k # 1
    <2>1. k - 1 \in Nat \ {0} /\ ~(k <= k - 1) /\ k > 1 /\ 1 \in 1..(k - 1)
      BY <1>2, <1>8
    <2>2. u[1] # 0
      BY <1>3, <1>4, <2>1
    <2>3. u = Format[Value(u)]
      BY <1>1, <1>4, <2>1, <2>2
    <2>4. Value(u) # 0
      <3> SUFFICES ASSUME Value(u) = 0 PROVE FALSE
        OBVIOUS
      <3>1. 0 \in Nat /\ 0 < 10
        OBVIOUS
      <3>2. Format[0] = <<0>>
        BY <3>1, FormatRecursion
      <3> QED BY <2>2, <2>3, <3>2
    <2> DEFINE n == Value(t)
    <2>5. n \in Nat /\ ~(n < 10) /\ n \div 10 = Value(u) /\ n % 10 = d
      <3> DEFINE w == Value(u)
      <3>1. w \in Nat \ {0} /\ d \in 0..9 /\ n = 10 * w + d
        BY <1>4, <1>6, <2>4 DEF Digits
      <3> HIDE DEF w, n
      <3>2. n \in Nat /\ ~(n < 10) /\ n \div 10 = w /\ n % 10 = d
        BY <3>1
      <3> QED BY <3>2 DEF w
    <2> HIDE DEF n
    <2>6. Format[n] = Append(Format[n \div 10], n % 10)
      BY <2>5, FormatRecursion
    <2>7. Format[n] = t
      BY <1>5, <2>3, <2>5, <2>6
    <2> QED BY <1>3, <2>7 DEF n
  <1> QED BY <1>7, <1>8

\* parseCanonicalUint256 accepts exactly what decimal writes of a uint256.
LEMMA CanonicalIsFormat ==
  ASSUME NEW s \in Seq(0..NotDigit)
  PROVE  /\ Canonical(s) <=> \E n \in 0..MaxUint : s = Format[n]
         /\ Canonical(s) => Value(s) \in 0..MaxUint
  <1>0. MaxUint \in Nat
    BY WidthAssumption
  <1>1. ASSUME Canonical(s) PROVE s = Format[Value(s)] /\ Value(s) \in 0..MaxUint
    <2>1. /\ s # <<>> /\ (Len(s) > 1 => s[1] # 0) /\ Value(s) <= MaxUint
          /\ \A i \in DOMAIN s : s[i] # NotDigit
      BY <1>1 DEF Canonical
    <2>2. s \in Seq(Digits)
      <3>1. Len(s) \in Nat /\ DOMAIN s = 1..Len(s)
        BY LenProperties
      <3>2. \A i \in 1..Len(s) : s[i] \in Digits
        <4>1. \A i \in 1..Len(s) : s[i] \in 0..10 /\ s[i] # 10
          BY <2>1, <3>1, ElementOfSeq DEF NotDigit
        <4> QED BY <4>1 DEF Digits
      <3> QED BY <3>1, <3>2, IsASeq
    <2>3. Len(s) # 0
      BY <2>1
    <2>4. Value(s) \in Nat
      <3>1. s \in Seq(Nat)
        BY <2>2 DEF Digits
      <3> QED BY <3>1, ValueIsPartial
    <2> QED BY <1>0, <2>1, <2>2, <2>3, <2>4, FormatOfValue
  <1>2. ASSUME NEW n \in 0..MaxUint, s = Format[n] PROVE Canonical(s)
    <2>1. n \in Nat /\ n <= MaxUint
      BY <1>0
    <2>2. /\ Len(s) \in Nat \ {0} /\ (Len(s) > 1 => s[1] # 0) /\ Value(s) = n
          /\ s \in Seq(Digits)
      BY <1>2, <2>1, FormatIsCanonical, ValueOfFormat, FormatRecursion
    <2>3. Len(s) <= MaxLength
      BY <1>0, <1>2, <2>1, FormatIsCanonical DEF MaxLength
    <2>4. \A i \in DOMAIN s : s[i] # NotDigit
      <3>1. \A i \in DOMAIN s : s[i] \in 0..9
        BY <2>2, ElementOfSeq, LenProperties DEF Digits
      <3> QED BY <3>1 DEF NotDigit
    <2>5. s # <<>>
      BY <2>2
    <2> QED BY <2>1, <2>2, <2>3, <2>4, <2>5 DEF Canonical
  <1> QED BY <1>1, <1>2

-----------------------------------------------------------------------------
(* The answers to requests. *)

\* What the contract would return are amounts.
LEMMA OutputsAreAmounts ==
  ASSUME Launched, InRange(p, market), NEW side \in {"buy", "sell"}, NEW amount \in Nat,
         NEW c \in Contract(side, amount)
  PROVE  /\ side = "buy" => c.tokensOut \in Nat /\ c.refund \in Nat
         /\ side = "sell" => c.ethOut \in Nat
  <1>1. /\ market.virtualToken \in Nat /\ FinalVirtualToken(p) \in Nat /\ market \in States
        /\ market.phase = "curve"
    BY LaunchedFacts DEF Launched, InRange, States, Contract
  <1>2. CASE side = "buy"
    <2>1. c = BuyQuote(market, amount) /\ BuyAllowed(market, amount)
      BY <1>1, <1>2, ContractBuysOne DEF Contract
    <2>2. TokenAfter(market, amount) \in Nat /\ GrossLeft(market) \in Nat
      BY <1>1, BuyAmounts
    <2>3. c.tokensOut > 0 /\ c.refund >= 0
      BY <2>1 DEF BuyAllowed
    <2>4. c.tokensOut \in Int /\ c.refund \in Int
      BY <1>1, <2>1, <2>2 DEF BuyQuote
    <2> QED BY <1>2, <2>3, <2>4
  <1>3. CASE side = "sell"
    <2>1. c = SellQuote(market, amount) /\ SellAllowed(market, amount)
      BY <1>1, <1>3, ContractSellsOne DEF Contract
    <2>2. amount > 0 /\ EthGross(market, amount) > 0 /\ c.ethOut > 0
      BY <2>1 DEF SellAllowed
    <2>3. EthGross(market, amount) \in Int /\ Supplied(EthGross(market, amount)).total \in Nat
      BY <2>2, SellAmounts
    <2>4. c.ethOut \in Int
      BY <2>1, <2>3 DEF SellQuote
    <2> QED BY <1>3, <2>2, <2>4
  <1> QED BY <1>2, <1>3

\* A refused quote names its reason.
LEMMA RefusalNamed ==
  ASSUME OnChain, NEW side \in {"buy", "sell"}, NEW amount \in 0..MaxUint, NEW code,
         ServiceQuote(side, amount).error # "none", code = Code(ServiceQuote(side, amount).error)
  PROVE  /\ code \notin {"none", "ok", "bad_amount"}
         /\ code = "wrong_phase" => market.phase = "graduated"
         /\ code = "zero_input" => amount = 0
         /\ code = "oversell" => Oversold(side, amount)
         /\ code = "zero_output" => market.phase = "curve" /\ amount > 0 /\ ~Oversold(side, amount)
         /\ code = "quote_failed" => ReserveTooWide(side, amount) \/ FeesTooWide(side, amount)
  <1> DEFINE error == ServiceQuote(side, amount).error
  <1>1. /\ Launched /\ InRange(p, market) /\ market.phase \in {"curve", "graduated"} /\ market.virtualToken \in Nat
        /\ amount \in Nat /\ MaxUint \in Nat
    BY PresentRebuilds, WidthAssumption DEF OnChain, InRange, States
  <1>2. \/ error = "amount" /\ FeesAreWide(market)
        \/ error = "wrong_phase" /\ market.phase = "graduated"
        \/ /\ market.phase = "curve"
           /\ error = IF side = "buy" THEN Buy(market, p, amount).error
                      ELSE Sell(market, p, amount).error
    <2>1. CASE ServiceQuote(side, amount).error = "amount" /\ FeesAreWide(market)
      BY <2>1
    <2>2. CASE ServiceQuote(side, amount).error = "wrong_phase" /\ market.phase = "graduated"
      BY <2>2
    <2>3. CASE /\ market.phase = "curve"
               /\ ServiceQuote(side, amount)
                    = IF side = "buy" THEN Buy(market, p, amount) ELSE Sell(market, p, amount)
      BY <2>3
    <2> QED BY <2>1, <2>2, <2>3, ServiceReadsMarket
  <1>3. error # "none" /\ code = Code(error)
    OBVIOUS
  <1> HIDE DEF error
  <1>4. CASE error = "wrong_phase" /\ market.phase = "graduated"
    <2>1. code = "wrong_phase"
      BY <1>3, <1>4 DEF Code
    <2> QED BY <1>4, <2>1
  <1>7. CASE error = "amount" /\ FeesAreWide(market)
    <2>1. code = "quote_failed"
      BY <1>3, <1>7 DEF Code
    <2>2. FeesTooWide(side, amount)
      BY <1>7 DEF FeesTooWide, FeesAreWide
    <2> QED BY <2>1, <2>2
  <1>5. CASE /\ market.phase = "curve" /\ side = "buy"
             /\ error = Buy(market, p, amount).error
    <2> DEFINE c == BuyQuote(market, amount)
    <2>1. BuyErrors(market, amount, error)
      BY <1>1, <1>3, <1>5, GoBuyAccepts
    <2>2. EthAfter(market, amount) > MaxUint => ReserveTooWide(side, amount)
      <3>1. Supplied(amount).total = Chain!TotalFee(amount, p.tradeFeeBps)
        BY <1>1, <1>5, BuyAmounts
      <3> QED BY <1>5, <3>1 DEF ReserveTooWide, EthAfter
    <2>3. BuyAllowed(market, amount) => c \in Contract(side, amount)
      BY <1>1, <1>5, ContractBuysOne DEF Contract
    <2> HIDE DEF c
    <2>4. BuyAllowed(market, amount) /\ FeesOverflow(market, c.fees) => FeesTooWide(side, amount)
      BY <2>3 DEF FeesTooWide
    <2>5. ~Fits(market.protocolFees) \/ ~Fits(market.creatorFees) => FeesTooWide(side, amount)
      BY DEF FeesTooWide
    <2>6. ~Oversold(side, amount)
      BY <1>5 DEF Oversold
    <2>7. \/ code = "zero_input" /\ amount = 0
          \/ code = "zero_output" /\ amount > 0
          \/ code = "quote_failed" /\ (ReserveTooWide(side, amount) \/ FeesTooWide(side, amount))
      BY <1>3, <2>1, <2>2, <2>4, <2>5 DEF BuyErrors, Code, c
    <2> QED BY <1>5, <2>6, <2>7
  <1>6. CASE /\ market.phase = "curve" /\ side = "sell"
             /\ error = Sell(market, p, amount).error
    <2> DEFINE c == SellQuote(market, amount)
    <2>1. SellErrors(market, amount, error)
      BY <1>1, <1>3, <1>6, GoSellAccepts
    <2>2. SellAllowed(market, amount) => c \in Contract(side, amount)
      BY <1>6, ContractSellsOne DEF Contract
    <2> HIDE DEF c
    <2>3. SellAllowed(market, amount) /\ FeesOverflow(market, c.fees) => FeesTooWide(side, amount)
      BY <2>2 DEF FeesTooWide
    <2>4. ~Fits(market.protocolFees) \/ ~Fits(market.creatorFees) => FeesTooWide(side, amount)
      BY DEF FeesTooWide
    <2>5. Oversold(side, amount) <=> amount > TokensSold(p, market)
      BY <1>6 DEF Oversold
    <2>6. \/ code = "zero_input" /\ amount = 0
          \/ code = "oversell" /\ Oversold(side, amount)
          \/ code = "zero_output" /\ amount > 0 /\ ~Oversold(side, amount)
          \/ code = "quote_failed" /\ FeesTooWide(side, amount)
      BY <1>3, <2>1, <2>3, <2>4, <2>5 DEF SellErrors, Code, c
    <2> QED BY <1>6, <2>6
  <1> QED BY <1>1, <1>2, <1>4, <1>5, <1>6, <1>7

\* An answer computed against the present market is faithful to it.
LEMMA HandleIsFaithful ==
  ASSUME OnChain, NEW side \in {"buy", "sell"}, NEW text \in Texts, NEW a,
         a = [side |-> side, text |-> text, reply |-> Handle(side, text)]
  PROVE  /\ OneSpelling(a)
         /\ a.reply.code # "bad_amount" => AnswersLikeContract(a) /\ RefusalExplained(a)
  <1> DEFINE amount == Value(text)
             q == ServiceQuote(side, amount)
  <1>1. /\ a.side = side /\ a.text = text /\ a.reply = Handle(side, text)
        /\ text \in Seq(0..NotDigit)
    BY QuotesAssumption
  <1>2. /\ Canonical(text) <=> \E n \in 0..MaxUint : text = Format[n]
        /\ Canonical(text) => amount \in 0..MaxUint
    BY <1>1, CanonicalIsFormat
  <1>3. CASE ~Canonical(text)
    <2>1. a.reply.code = "bad_amount"
      BY <1>1, <1>3 DEF Handle
    <2> QED BY <1>1, <1>2, <1>3, <2>1 DEF OneSpelling
  <1>4. CASE Canonical(text) /\ q.error # "none"
    <2>1. a.reply.code = Code(q.error)
      BY <1>1, <1>4 DEF Handle
    <2>2. amount \in 0..MaxUint
      BY <1>2, <1>4
    <2> DEFINE code == a.reply.code
    <2>3. /\ code \notin {"none", "ok", "bad_amount"}
          /\ code = "wrong_phase" => market.phase = "graduated"
          /\ code = "zero_input" => amount = 0
          /\ code = "oversell" => Oversold(side, amount)
          /\ code = "zero_output" => market.phase = "curve" /\ amount > 0 /\ ~Oversold(side, amount)
          /\ code = "quote_failed" => ReserveTooWide(side, amount) \/ FeesTooWide(side, amount)
      <3> HIDE DEF amount
      <3> QED BY <1>4, <2>1, <2>2, RefusalNamed
    <2>4. RefusalExplained(a)
      BY <1>1, <2>3 DEF RefusalExplained
    <2>5. \A c \in Contract(side, amount) : ReserveTooWide(side, amount) \/ FeesOverflow(market, c.fees)
      <3>1. QuotedAsTraded(side, amount)
        BY <2>2, QuoteIsTrade
      <3> QED BY <1>4, <3>1 DEF QuotedAsTraded
    <2>6. AnswersLikeContract(a)
      BY <1>1, <2>3, <2>5 DEF AnswersLikeContract
    <2>7. OneSpelling(a)
      BY <1>1, <1>2, <1>4, <2>3 DEF OneSpelling
    <2> QED BY <2>4, <2>6, <2>7
  <1>5. CASE Canonical(text) /\ q.error = "none"
    <2>1. a.reply = [code |-> "ok", input |-> text, output |-> Format[q.output],
                     refund |-> Format[q.refund], fees |-> q.fees, graduates |-> q.graduates,
                     nextEth |-> q.next.virtualEth, nextToken |-> q.next.virtualToken]
      BY <1>1, <1>5 DEF Handle
    <2>2. amount \in 0..MaxUint /\ amount \in Nat
      BY <1>2, <1>5, WidthAssumption
    <2>3. PICK c \in Contract(side, amount) : SameTrade(side, q, c)
      <3>1. QuotedAsTraded(side, amount)
        BY <2>2, QuoteIsTrade
      <3> QED BY <1>5, <3>1 DEF QuotedAsTraded
    <2>4. /\ side = "buy" => c.tokensOut \in Nat /\ c.refund \in Nat
          /\ side = "sell" => c.ethOut \in Nat
      <3>1. Launched /\ InRange(p, market)
        BY PresentRebuilds DEF OnChain
      <3> HIDE DEF amount
      <3> QED BY <2>2, <3>1, OutputsAreAmounts
    <2> HIDE DEF q
    <2>5. /\ q.fees = c.fees /\ q.next.virtualEth = c.newEth /\ q.next.virtualToken = c.newToken
          /\ side = "buy" => q.output = c.tokensOut /\ q.refund = c.refund /\ q.graduates = c.graduates
          /\ side = "sell" => q.output = c.ethOut
      BY <2>3 DEF SameTrade
    <2>6. /\ side = "buy" => Value(Format[q.output]) = c.tokensOut /\ Value(Format[q.refund]) = c.refund
          /\ side = "sell" => Value(Format[q.output]) = c.ethOut
      BY <2>4, <2>5, ValueOfFormat
    <2>7. /\ a.reply.code = "ok" /\ a.reply.fees = c.fees /\ a.reply.nextEth = c.newEth
          /\ a.reply.nextToken = c.newToken
          /\ side = "buy" => /\ Value(a.reply.output) = c.tokensOut /\ Value(a.reply.refund) = c.refund
                             /\ a.reply.graduates = c.graduates
          /\ side = "sell" => Value(a.reply.output) = c.ethOut
      BY <2>1, <2>5, <2>6
    <2>8. AnswersLikeContract(a)
      BY <1>1, <2>3, <2>7 DEF AnswersLikeContract
    <2>9. RefusalExplained(a)
      BY <2>7 DEF RefusalExplained
    <2>10. OneSpelling(a)
      BY <1>1, <1>2, <1>5, <2>7 DEF OneSpelling
    <2> QED BY <2>8, <2>9, <2>10
  <1> QED BY <1>3, <1>4, <1>5

\* The last answer, if there is one, was computed against the present market.
Answered == answer = NoAnswer \/ (market.phase # "none" /\ QuoteFaithful)

\* For every token, every history of trades, claims and rollbacks and every request: an
\* answered quote carries the numbers that the contract would return now, a refusal names
\* its true reason and is given only where the contract reverts or a result is wider than
\* a uint256, and exactly the canonical spellings of uint256 amounts are accepted.
THEOREM AnswersAreFaithful == Spec => []QuoteFaithful
  <1>1. Init => Answered
    BY DEF Init, Answered
  <1>2. IInv /\ Answered /\ [Next]_vars => Answered'
    <2> SUFFICES ASSUME IInv, Answered, [Next]_vars PROVE Answered'
      OBVIOUS
    <2>1. CASE Launch
      BY <2>1 DEF Launch, Answered, NoAnswer
    <2>2. CASE ChainBuy \/ ChainSell \/ ClaimProtocolFees \/ ClaimCreatorFees \/ PoolSync \/ Rollback
      <3>1. answer' = NoAnswer
        BY <2>2 DEF ChainBuy, ChainSell, ClaimProtocolFees, ClaimCreatorFees, PoolSync, Rollback, Log
      <3> QED BY <3>1 DEF Answered, NoAnswer
    <2>3. CASE Ask
      <3>1. PICK side \in {"buy", "sell"}, text \in Texts :
              answer' = [side |-> side, text |-> text, reply |-> Handle(side, text)]
        BY <2>3 DEF Ask
      <3> DEFINE a == [side |-> side, text |-> text, reply |-> Handle(side, text)]
      <3>2. OnChain /\ market.phase # "none" /\ p' = p /\ market' = market
        BY <2>3 DEF Ask, IInv, Unlaunched
      <3>3. /\ OneSpelling(a)
            /\ a.reply.code # "bad_amount" => AnswersLikeContract(a) /\ RefusalExplained(a)
        BY <3>2, HandleIsFaithful
      <3>4. answer' = a
        BY <3>1
      <3> HIDE DEF a
      <3>5. QuoteFaithful'
        BY <3>2, <3>3, <3>4
           DEF QuoteFaithful, OneSpelling, AnswersLikeContract, RefusalExplained, Contract,
               ContractBuys, ContractSells, ReserveTooWide, Oversold, FeesTooWide
      <3> QED BY <3>2, <3>5 DEF Answered
    <2>4. CASE UNCHANGED vars
      BY <2>4 DEF vars, Answered, QuoteFaithful, OneSpelling, AnswersLikeContract, RefusalExplained,
                  Contract, ContractBuys, ContractSells, ReserveTooWide, Oversold, FeesTooWide
    <2> QED BY <2>1, <2>2, <2>3, <2>4 DEF Next
  <1>3. Answered => QuoteFaithful
    BY DEF Answered, QuoteFaithful, NoAnswer
  <1> QED BY <1>1, <1>2, <1>3, QuotesInvariant, PTL DEF Spec
=============================================================================
