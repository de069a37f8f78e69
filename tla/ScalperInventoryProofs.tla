----------------------- MODULE ScalperInventoryProofs -----------------------
(***************************************************************************)
(* Proofs about ScalperInventory, for any number of positions and any      *)
(* limits.  The argument: an entry is planned last and for an inventory    *)
(* that has room for it, and until it is filled, however late, the         *)
(* inventory only shrinks; what the exits spend is written before they are *)
(* executed, and lost with no plan.                                        *)
(***************************************************************************)
EXTENDS ScalperInventory, RankLemmas

-----------------------------------------------------------------------------
(* Positions and their lots.                                               *)

LEMMA TicketsAreFinite ==
  /\ IsFiniteSet(Ticket) /\ Cardinality(Ticket) \in Nat /\ Ticket \subseteq Nat
  /\ \A ps \in SUBSET Ticket : IsFiniteSet(ps) /\ Cardinality(ps) \in Nat
<1>1. IsFiniteSet(Ticket) /\ Ticket = 1..Cardinality(Ticket)
  BY LimitsAssumption
<1>2. Cardinality(Ticket) \in Nat
  BY <1>1, FS_CardinalityType
<1>3. Ticket \subseteq Nat
  BY <1>1, <1>2
<1>4. ASSUME NEW ps \in SUBSET Ticket PROVE IsFiniteSet(ps) /\ Cardinality(ps) \in Nat
  BY <1>1, <1>4, FS_Subset, FS_CardinalityType
<1>5. QED
  BY <1>1, <1>2, <1>3, <1>4

\* The lots of some positions, each a pair of its position and a number.
Blocks(sz, ps) == UNION {{p} \X (1..sz[p]) : p \in ps}

LEMMA LotsAreBlocks == \A ps : Lots(ps) = Cardinality(Blocks(size, ps))
BY DEF Lots, Blocks

LEMMA BlocksAreFinite ==
  ASSUME NEW sz \in [Ticket -> Nat], NEW ps \in SUBSET Ticket
  PROVE  IsFiniteSet(Blocks(sz, ps)) /\ Cardinality(Blocks(sz, ps)) \in Nat
<1> DEFINE f == [p \in ps |-> {p} \X (1..sz[p])]
           T == {{p} \X (1..sz[p]) : p \in ps}
<1>1. f \in Surjection(ps, T)
  <2>1. f \in [ps -> T] /\ \A t \in T : \E p \in ps : f[p] = t
    OBVIOUS
  <2>2. QED
    BY <2>1 DEF Surjection
<1>2. IsFiniteSet(T)
  <2> HIDE DEF f, T
  <2>1. QED
    BY <1>1, TicketsAreFinite, FS_Surjection
<1>3. \A t \in T : IsFiniteSet(t)
  <2> SUFFICES ASSUME NEW p \in ps PROVE IsFiniteSet({p} \X (1..sz[p]))
    OBVIOUS
  <2>1. sz[p] \in Nat
    OBVIOUS
  <2>2. \A k \in Nat : IsFiniteSet(1..k)
    BY FS_Interval
  <2>3. IsFiniteSet({p}) /\ IsFiniteSet(1..sz[p])
    BY <2>1, <2>2, FS_Singleton
  <2>4. QED
    BY <2>3, FS_Product
<1>4. IsFiniteSet(UNION T)
  <2> HIDE DEF T
  <2>1. QED
    BY <1>2, <1>3, FS_UNION
<1>5. IsFiniteSet(Blocks(sz, ps))
  BY <1>4 DEF Blocks
<1>6. QED
  BY <1>5, FS_CardinalityType

\* Fewer or smaller positions have fewer lots.
LEMMA BlocksShrink ==
  ASSUME NEW sz \in [Ticket -> Nat], NEW less \in [Ticket -> Nat],
         NEW ps \in SUBSET Ticket, NEW qs \in SUBSET ps, \A p \in qs : less[p] <= sz[p]
  PROVE  Cardinality(Blocks(less, qs)) <= Cardinality(Blocks(sz, ps))
<1>1. ASSUME NEW b \in Blocks(less, qs) PROVE b \in Blocks(sz, ps)
  <2>1. PICK p \in qs : b \in {p} \X (1..less[p])
    BY DEF Blocks
  <2>2. PICK k \in 1..less[p] : b = <<p, k>>
    BY <2>1
  <2>3. p \in ps /\ k \in 1..sz[p]
    <3>1. p \in Ticket /\ less[p] \in Nat /\ sz[p] \in Nat /\ less[p] <= sz[p]
      OBVIOUS
    <3>2. QED
      BY <2>2, <3>1
  <2>4. b \in {p} \X (1..sz[p])
    BY <2>2, <2>3
  <2>5. QED
    BY <2>3, <2>4 DEF Blocks
<1>2. Blocks(less, qs) \in SUBSET Blocks(sz, ps)
  BY <1>1
<1>3. QED
  BY <1>2, BlocksAreFinite, FS_Subset

\* One more position adds its lots.
LEMMA BlocksGrow ==
  ASSUME NEW sz \in [Ticket -> Nat], NEW ps \in SUBSET Ticket, NEW p \in Ticket, p \notin ps
  PROVE  Cardinality(Blocks(sz, ps \cup {p})) = Cardinality(Blocks(sz, ps)) + sz[p]
<1> DEFINE B == {p} \X (1..sz[p])
<1>1. Blocks(sz, ps \cup {p}) = Blocks(sz, ps) \cup B
  BY DEF Blocks
<1>2. Blocks(sz, ps) \cap B = {}
  <2> SUFFICES ASSUME NEW b \in Blocks(sz, ps), b \in B PROVE FALSE
    OBVIOUS
  <2>1. PICK q \in ps : b \in {q} \X (1..sz[q])
    BY DEF Blocks
  <2>2. b[1] = q /\ b[1] = p
    BY <2>1
  <2>3. QED
    BY <2>1, <2>2
<1>3. IsFiniteSet(B) /\ Cardinality(B) = sz[p]
  <2>1. sz[p] \in Nat
    OBVIOUS
  <2>2. \A k \in Nat : IsFiniteSet(1..k) /\ Cardinality(1..k) = k
    BY FS_Interval
  <2>3. IsFiniteSet({p}) /\ Cardinality({p}) = 1
    BY FS_Singleton
  <2>4. IsFiniteSet(1..sz[p]) /\ Cardinality(1..sz[p]) = sz[p]
    BY <2>1, <2>2
  <2>5. IsFiniteSet(B) /\ Cardinality(B) = Cardinality({p}) * Cardinality(1..sz[p])
    BY <2>3, <2>4, FS_Product
  <2>6. QED
    BY <2>1, <2>3, <2>4, <2>5
<1> HIDE DEF B
<1>4. /\ IsFiniteSet(Blocks(sz, ps)) /\ Cardinality(Blocks(sz, ps)) \in Nat
      /\ Cardinality({}) = 0 /\ sz[p] \in Nat
  BY BlocksAreFinite, FS_EmptySet
<1>5. Cardinality(Blocks(sz, ps) \cup B)
        = Cardinality(Blocks(sz, ps)) + Cardinality(B) - Cardinality(Blocks(sz, ps) \cap B)
  BY <1>3, <1>4, FS_Union
<1>6. Cardinality(Blocks(sz, ps) \cap B) = 0
  BY <1>2, <1>4
<1>7. Cardinality(Blocks(sz, ps) \cup B) = Cardinality(Blocks(sz, ps)) + sz[p]
  BY <1>3, <1>4, <1>5, <1>6
<1>8. QED
  BY <1>1, <1>7

-----------------------------------------------------------------------------
(* Positions in their order.                                               *)

LEMMA InOrderIsOrder ==
  ASSUME NEW ps \in SUBSET Ticket
  PROVE  /\ InOrder(ps) \in Seq(ps) /\ Len(InOrder(ps)) = Cardinality(ps)
         /\ \A i, j \in 1..Cardinality(ps) : InOrder(ps)[i] = InOrder(ps)[j] => i = j
<1> DEFINE self == [p \in ps |-> p]
           n == Cardinality(ps)
<1>1. IsFiniteSet(ps) /\ n \in Nat /\ ps \subseteq Nat
  BY TicketsAreFinite
<1>2. Numbers(self, ps)
  <2>1. \A p \in ps : self[p] = p /\ p \in Nat
    BY <1>1
  <2> HIDE DEF self
  <2>2. QED
    BY <1>1, <2>1 DEF Numbers
<1>3. \A p \in ps : Rank(self, ps, p) = Cardinality({q \in ps : q <= p})
  <2> SUFFICES ASSUME NEW p \in ps
               PROVE  {q \in ps : self[q] <= self[p]} = {q \in ps : q <= p}
    BY DEF Rank
  <2>1. QED
    OBVIOUS
<1>4. ASSUME NEW i \in 1..n
      PROVE  InOrder(ps)[i] \in ps /\ Rank(self, ps, InOrder(ps)[i]) = i
  <2>1. \E p \in ps : Rank(self, ps, p) = i
    <3> HIDE DEF self
    <3>1. QED
      BY <1>2, <1>4, RankIsOnto
  <2>2. \E p \in ps : Cardinality({q \in ps : q <= p}) = i
    BY <1>3, <2>1
  <2>3. InOrder(ps)[i] = CHOOSE p \in ps : Cardinality({q \in ps : q <= p}) = i
    BY <1>4 DEF InOrder
  <2>4. InOrder(ps)[i] \in ps /\ Cardinality({q \in ps : q <= InOrder(ps)[i]}) = i
    BY <2>2, <2>3
  <2> HIDE DEF self
  <2>5. QED
    BY <1>3, <2>4
<1>5. \A i, j \in 1..n : InOrder(ps)[i] = InOrder(ps)[j] => i = j
  <2> HIDE DEF self
  <2>1. \A i \in 1..n : Rank(self, ps, InOrder(ps)[i]) = i
    BY <1>4
  <2>2. QED
    BY <2>1
<1>6. InOrder(ps) = [i \in 1..n |-> InOrder(ps)[i]] /\ DOMAIN InOrder(ps) = 1..n
  BY DEF InOrder
<1>7. InOrder(ps) \in [1..n -> ps]
  BY <1>4, <1>6
<1> HIDE DEF n
<1>8. InOrder(ps) \in Seq(ps) /\ Len(InOrder(ps)) = n
  BY <1>1, <1>7
<1>9. QED
  BY <1>5, <1>8 DEF n

-----------------------------------------------------------------------------
(* Plans.                                                                  *)

\* What run_once may rely on about a plan of on_tick.
GoodPlan(intents, reduced) ==
  /\ intents \in Seq(Intent)
  /\ \A i \in DOMAIN intents : intents[i].kind # "ENTER" => intents[i].on \in Open
  /\ \A i \in DOMAIN intents : intents[i].kind = "ENTER" => i = Len(intents) /\ Fits(intents[i])
  /\ \A i \in DOMAIN intents : \A p \in Ticket : Scales(intents[i], p) => p \in reduced
  /\ \A i, j \in DOMAIN intents : \A p \in Ticket :
       Scales(intents[i], p) /\ Scales(intents[j], p) => i = j
  /\ reduced \subseteq Open /\ \A p \in reduced : spent[p] < MaxReductions

LEMMA OpenIsFinite ==
  ASSUME ITypeOK
  PROVE  /\ Open \subseteq Ticket /\ \A q : OnSide(q) \subseteq Open
         /\ \A ps \in SUBSET Open : IsFiniteSet(ps) /\ Cardinality(ps) \in Nat
<1>1. Open \subseteq Ticket /\ \A q : OnSide(q) \subseteq Open
  BY DEF Open, OnSide
<1>2. QED
  BY <1>1, TicketsAreFinite

\* With nothing open no limit is exceeded.
LEMMA OverNeedsPositions ==
  ASSUME ITypeOK, Over({})
  PROVE  Open # {}
<1> SUFFICES ASSUME Open = {} PROVE FALSE
  OBVIOUS
<1>1. Cardinality({}) = 0 /\ MaxPositions \in Nat /\ MaxTotal \in Nat /\ MaxDirectional \in Nat
  BY LimitsAssumption, FS_EmptySet
<1>2. Lots({}) = 0
  BY <1>1 DEF Lots
<1>3. Open \ {} = {} /\ \A q : OnSide(q) = {} /\ OnSide(q) \ {} = {}
  BY DEF OnSide
<1>4. ~TooMany(Cardinality(Open))
  BY <1>1 DEF TooMany
<1>5. ~(Lots(Open) + Lots(Open \ {}) > 2 * MaxTotal)
  BY <1>1, <1>2, <1>3
<1>6. \A q \in Side : ~(Lots(OnSide(q)) + Lots(OnSide(q) \ {}) > 2 * MaxDirectional)
  BY <1>1, <1>2, <1>3
<1>7. QED
  BY <1>4, <1>5, <1>6 DEF Over

\* Every open position is a candidate of the guard.
LEMMA CandidatesAreOpen ==
  ASSUME ITypeOK, Open # {}, NEW lean
  PROVE  Candidates(lean) \in Seq(Open) /\ Len(Candidates(lean)) \in Nat \ {0}
<1> DEFINE A == Open \ OnSide(lean)
           B == OnSide(lean)
<1>1. /\ A \in SUBSET Ticket /\ B \in SUBSET Ticket /\ A \subseteq Open /\ B \subseteq Open
      /\ A \cup B = Open
  BY OpenIsFinite
<1>2. A # {} \/ B # {}
  BY <1>1
<1> HIDE DEF A, B
<1>3. /\ InOrder(A) \in Seq(A) /\ Len(InOrder(A)) = Cardinality(A)
      /\ InOrder(B) \in Seq(B) /\ Len(InOrder(B)) = Cardinality(B)
  BY <1>1, InOrderIsOrder
<1>4. InOrder(A) \in Seq(Open) /\ InOrder(B) \in Seq(Open)
  BY <1>1, <1>3
<1>5. /\ Cardinality(A) \in Nat /\ Cardinality(B) \in Nat
      /\ A # {} => Cardinality(A) # 0
      /\ B # {} => Cardinality(B) # 0
  BY <1>1, TicketsAreFinite, FS_EmptySet
<1>6. Candidates(lean) = InOrder(A) \o InOrder(B)
  BY DEF Candidates, A, B
<1>7. Candidates(lean) \in Seq(Open) /\ Len(Candidates(lean)) = Cardinality(A) + Cardinality(B)
  BY <1>3, <1>4, <1>6
<1>8. QED
  BY <1>2, <1>5, <1>7

\* The guard halves some open positions, without spending their budget.
LEMMA DeleveragingIsGood ==
  ASSUME ITypeOK, Over({}), NEW lean
  PROVE  GoodPlan(Deleveraging(lean), {})
<1> DEFINE c == Candidates(lean)
           Enough == {k \in 1..Len(c) : k = Len(c) \/ ~Over({c[i] : i \in 1..k})}
           n == CHOOSE k \in 1..Len(c) :
                  /\ k = Len(c) \/ ~Over({c[i] : i \in 1..k})
                  /\ \A j \in 1..(k - 1) : Over({c[i] : i \in 1..j})
           self == [k \in Enough |-> k]
<1>1. c \in Seq(Open) /\ Len(c) \in Nat /\ Len(c) > 0 /\ Open \subseteq Ticket
  BY CandidatesAreOpen, OverNeedsPositions, OpenIsFinite
<1>2. Enough # {} /\ Numbers(self, Enough)
  <2>1. Len(c) \in Enough
    BY <1>1
  <2>2. IsFiniteSet(1..Len(c)) /\ Enough \in SUBSET (1..Len(c))
    BY <1>1, FS_Interval
  <2>3. \A k \in Enough : self[k] = k /\ k \in Nat
    BY <1>1
  <2> HIDE DEF Enough, self
  <2>4. IsFiniteSet(Enough)
    BY <2>2, FS_Subset
  <2>5. QED
    BY <2>1, <2>3, <2>4 DEF Numbers
<1>3. PICK k \in Enough : \A j \in Enough : k <= j
  <2>1. \A j \in Enough : self[j] = j
    OBVIOUS
  <2> HIDE DEF Enough, self
  <2>2. QED
    BY <1>2, <2>1, FirstExists
<1>4. \A j \in 1..(k - 1) : Over({c[i] : i \in 1..j})
  <2> SUFFICES ASSUME NEW j \in 1..(k - 1), ~Over({c[i] : i \in 1..j}) PROVE FALSE
    OBVIOUS
  <2>1. j \in 1..Len(c) /\ j < k
    BY <1>1
  <2>2. j \in Enough
    BY <2>1
  <2> HIDE DEF Enough
  <2>3. QED
    BY <1>1, <1>3, <2>1, <2>2
<1>5. \E m \in 1..Len(c) : /\ m = Len(c) \/ ~Over({c[i] : i \in 1..m})
                           /\ \A j \in 1..(m - 1) : Over({c[i] : i \in 1..j})
  BY <1>3, <1>4
<1>6. n \in 1..Len(c)
  BY <1>5
<1>7. Deleveraging(lean) = [i \in 1..n |-> [kind |-> "REDUCE", on |-> c[i], part |-> 2,
                                            exit |-> FALSE]]
  BY DEF Deleveraging
<1> DEFINE d == Deleveraging(lean)
<1>8. \A i \in 1..n : c[i] \in Open /\ c[i] \in Ticket
  <2> HIDE DEF c, n
  <2>1. QED
    BY <1>1, <1>6
<1>9. n \in Nat
  <2> HIDE DEF c, n
  <2>1. QED
    BY <1>1, <1>6
<1> HIDE DEF c, n, Enough, self
<1>10. \A i \in 1..n : /\ d[i].kind = "REDUCE" /\ d[i].on \in Open /\ ~d[i].exit
                       /\ d[i] \in Intent
  BY <1>7, <1>8 DEF Intent
<1>11. DOMAIN d = 1..n /\ d \in Seq(Intent)
  <2>1. d \in [1..n -> Intent]
    BY <1>7, <1>10
  <2> HIDE DEF d
  <2>2. QED
    BY <1>9, <2>1
<1> HIDE DEF d
<1>12. \A i \in 1..n : \A p \in Ticket : ~Scales(d[i], p)
  BY <1>10 DEF Scales
<1>13. GoodPlan(d, {})
  BY <1>10, <1>11, <1>12 DEF GoodPlan
<1>14. QED
  BY <1>13 DEF d

\* What an exit of a position may be.
LEMMA ExitShape ==
  ASSUME ITypeOK, NEW p \in Open, NEW e \in Exits(p), e # None
  PROVE  /\ e \in Intent /\ e.on = p /\ e.kind # "ENTER"
         /\ \A q \in Ticket : Scales(e, q) => q = p /\ e.kind = "REDUCE"
         /\ e.kind = "REDUCE" => spent[p] < MaxReductions
<1>1. p \in Ticket
  BY DEF Open
<1>2. CASE e = Close(p)
  BY <1>1, <1>2 DEF Close, Intent, Scales
<1>3. CASE e = [kind |-> "PROTECT", on |-> p]
  BY <1>1, <1>3 DEF Intent, Scales
<1>4. ASSUME NEW f \in Parts, spent[p] < MaxReductions,
             e = [kind |-> "REDUCE", on |-> p, part |-> f, exit |-> TRUE]
      PROVE  /\ e \in Intent /\ e.on = p /\ e.kind # "ENTER"
             /\ \A q \in Ticket : Scales(e, q) => q = p /\ e.kind = "REDUCE"
  BY <1>1, <1>4 DEF Intent, Scales
<1>5. \/ e = Close(p)
      \/ e = [kind |-> "PROTECT", on |-> p]
      \/ \E f \in Parts : /\ spent[p] < MaxReductions
                          /\ e = [kind |-> "REDUCE", on |-> p, part |-> f, exit |-> TRUE]
  BY DEF Exits, Held, Tracked
<1>6. QED
  BY <1>2, <1>3, <1>4, <1>5 DEF Close

\* The exits of the positions, one each.
LEMMA ExitsAreGood ==
  ASSUME ITypeOK, NEW x, \A p \in Open : x[p] \in Exits(p)
  PROVE  /\ GoodPlan(Intents(x), {p \in Open : x[p].kind = "REDUCE"})
         /\ \A i \in DOMAIN Intents(x) : Intents(x)[i].kind # "ENTER"
<1> DEFINE ps == {p \in Open : x[p] # None}
           o == InOrder(ps)
           n == Cardinality(ps)
           reduced == {p \in Open : x[p].kind = "REDUCE"}
           d == Intents(x)
<1>1. ps \in SUBSET Ticket /\ n \in Nat
  BY OpenIsFinite
<1>2. /\ o \in Seq(ps) /\ Len(o) = n
      /\ \A i, j \in 1..n : o[i] = o[j] => i = j
  <2> HIDE DEF ps
  <2>1. QED
    BY <1>1, InOrderIsOrder
<1>3. DOMAIN o = 1..n /\ \A i \in 1..n : o[i] \in ps
  <2> HIDE DEF ps, o, n
  <2>1. QED
    BY <1>1, <1>2
<1>4. d = [i \in 1..n |-> x[o[i]]]
  BY <1>3 DEF Intents
<1>5. \A i \in 1..n : o[i] \in Open /\ x[o[i]] \in Exits(o[i]) /\ x[o[i]] # None
  BY <1>3
<1>6. \A p \in reduced : /\ spent[p] < MaxReductions
  <2> SUFFICES ASSUME NEW p \in reduced PROVE spent[p] < MaxReductions
    OBVIOUS
  <2>1. p \in Open /\ x[p] \in Exits(p) /\ x[p].kind = "REDUCE" /\ x[p] # None
    BY DEF None
  <2>2. QED
    BY <2>1, ExitShape
<1> HIDE DEF o, n, d
<1>7. \A i \in 1..n : /\ d[i] \in Intent /\ d[i].on = o[i] /\ d[i].kind # "ENTER"
                      /\ \A q \in Ticket : Scales(d[i], q) => q = o[i] /\ q \in reduced
  <2> SUFFICES ASSUME NEW i \in 1..n
               PROVE  /\ d[i] \in Intent /\ d[i].on = o[i] /\ d[i].kind # "ENTER"
                      /\ \A q \in Ticket : Scales(d[i], q) => q = o[i] /\ q \in reduced
    OBVIOUS
  <2>1. d[i] = x[o[i]]
    BY <1>4
  <2> HIDE DEF ps, reduced
  <2>2. /\ d[i] \in Intent /\ d[i].on = o[i] /\ d[i].kind # "ENTER"
        /\ \A q \in Ticket : Scales(d[i], q) => q = o[i] /\ d[i].kind = "REDUCE"
    BY <1>5, <2>1, ExitShape
  <2>3. d[i].kind = "REDUCE" => o[i] \in reduced
    BY <1>5, <2>1 DEF reduced
  <2>4. QED
    BY <2>2, <2>3
<1>8. d \in Seq(Intent) /\ DOMAIN d = 1..n
  <2>1. DOMAIN d = 1..n /\ d = [i \in 1..n |-> d[i]]
    BY <1>4
  <2>2. d \in [1..n -> Intent]
    BY <1>7, <2>1
  <2>3. QED
    BY <1>1, <2>1, <2>2
<1>9. \A i, j \in 1..n : \A p \in Ticket : Scales(d[i], p) /\ Scales(d[j], p) => i = j
  BY <1>2, <1>7
<1>10. reduced \subseteq Open
  OBVIOUS
<1> HIDE DEF reduced, ps
<1>11. GoodPlan(d, reduced) /\ \A i \in DOMAIN d : d[i].kind # "ENTER"
  BY <1>5, <1>6, <1>7, <1>8, <1>9, <1>10 DEF GoodPlan
<1>12. QED
  BY <1>11 DEF d, reduced

\* And one entry behind them, which fits.
LEMMA EntryIsGood ==
  ASSUME ITypeOK, NEW x, NEW intents, NEW reduced, NEW e \in Entries(x),
         GoodPlan(intents, reduced), \A i \in DOMAIN intents : intents[i].kind # "ENTER"
  PROVE  GoodPlan(Append(intents, e), reduced)
<1>1. /\ e \in Intent /\ e.kind = "ENTER" /\ e.side \in Side
      /\ OnSide(e.side) = Open /\ CanOpen(e.side, e.lots)
  BY DEF Entries, Intent
<1>2. Fits(e) /\ \A p \in Ticket : ~Scales(e, p)
  BY <1>1 DEF Fits, Scales
<1> DEFINE d == Append(intents, e)
<1>3. intents \in Seq(Intent) /\ Len(intents) \in Nat /\ DOMAIN intents = 1..Len(intents)
  BY DEF GoodPlan
<1>4. /\ d \in Seq(Intent) /\ Len(d) = Len(intents) + 1
      /\ \A i \in 1..Len(d) : IF i = Len(d) THEN d[i] = e
                              ELSE d[i] = intents[i] /\ i \in DOMAIN intents
  BY <1>1, <1>3
<1>5. DOMAIN d = 1..Len(d)
  <2> HIDE DEF d
  <2>1. QED
    BY <1>4
<1> HIDE DEF d
<1>6. \A i \in DOMAIN d : IF i = Len(d) THEN d[i] = e
                          ELSE d[i] = intents[i] /\ i \in DOMAIN intents
  BY <1>4, <1>5
<1>7. \A i \in DOMAIN d : d[i].kind # "ENTER" => d[i].on \in Open
  BY <1>1, <1>6 DEF GoodPlan
<1>8. \A i \in DOMAIN d : d[i].kind = "ENTER" => i = Len(d) /\ Fits(d[i])
  BY <1>2, <1>6 DEF GoodPlan
<1>9. \A i \in DOMAIN d : \A p \in Ticket : Scales(d[i], p) =>
        i \in DOMAIN intents /\ Scales(intents[i], p)
  BY <1>2, <1>6
<1>10. \A i \in DOMAIN d : \A p \in Ticket : Scales(d[i], p) => p \in reduced
  BY <1>9 DEF GoodPlan
<1>11. \A i, j \in DOMAIN d : \A p \in Ticket : Scales(d[i], p) /\ Scales(d[j], p) => i = j
  BY <1>9 DEF GoodPlan
<1>12. GoodPlan(d, reduced)
  BY <1>4, <1>7, <1>8, <1>10, <1>11 DEF GoodPlan
<1>13. QED
  BY <1>12 DEF d

LEMMA PlansAreGood ==
  ASSUME ITypeOK, NEW plan \in Plans
  PROVE  GoodPlan(plan.intents, plan.reduced)
<1>1. CASE Over({})
  <2>1. PICK lean \in Side \cup {"NONE"} :
          plan = [intents |-> Deleveraging(lean), reduced |-> {}]
    BY <1>1 DEF Plans
  <2>2. plan.intents = Deleveraging(lean) /\ plan.reduced = {}
    BY <2>1
  <2>3. QED
    BY <1>1, <2>2, DeleveragingIsGood
<1>2. CASE ~Over({})
  <2> DEFINE reduced(x) == {p \in Open : x[p].kind = "REDUCE"}
  <2>1. \E x : /\ \A p \in Open : x[p] \in Exits(p)
               /\ \/ plan = [intents |-> Intents(x), reduced |-> reduced(x)]
                  \/ \E e \in Entries(x) :
                       plan = [intents |-> Append(Intents(x), e), reduced |-> reduced(x)]
    BY <1>2 DEF Plans
  <2>2. PICK x : /\ \A p \in Open : x[p] \in Exits(p)
                 /\ \/ plan = [intents |-> Intents(x), reduced |-> reduced(x)]
                    \/ \E e \in Entries(x) :
                         plan = [intents |-> Append(Intents(x), e), reduced |-> reduced(x)]
    BY <2>1
  <2>3. /\ GoodPlan(Intents(x), reduced(x))
        /\ \A i \in DOMAIN Intents(x) : Intents(x)[i].kind # "ENTER"
    BY <2>2, ExitsAreGood
  <2> HIDE DEF reduced
  <2>4. CASE plan = [intents |-> Intents(x), reduced |-> reduced(x)]
    BY <2>3, <2>4
  <2>5. ASSUME NEW e \in Entries(x),
               plan = [intents |-> Append(Intents(x), e), reduced |-> reduced(x)]
        PROVE  GoodPlan(plan.intents, plan.reduced)
    BY <2>3, <2>5, EntryIsGood
  <2>6. QED
    BY <2>2, <2>4, <2>5
<1>3. QED
  BY <1>1, <1>2

-----------------------------------------------------------------------------
(* What a step does to the inventory.                                      *)

\* Some positions are reduced or closed, and nothing is gained.
Lessens ==
  /\ opened' = opened
  /\ \A p \in Ticket : /\ size'[p] <= size[p] /\ spent'[p] <= spent[p]
                       /\ size'[p] > 0 => side'[p] = side[p] /\ spent'[p] = spent[p]

\* A position of n lots is opened for i.
Grows(i, n) ==
  /\ i.kind = "ENTER" /\ opened < Cardinality(Ticket) /\ n \in 1..i.lots
  /\ opened' = opened + 1
  /\ size' = [size EXCEPT ![opened + 1] = n] /\ side' = [side EXCEPT ![opened + 1] = i.side]
  /\ UNCHANGED <<adverse, spent, scaled>>

\* What the exits have taken of an open position grows by the reductions of i.
Takes(i) ==
  \A p \in Ticket :
    IF size'[p] = 0 THEN scaled'[p] = 0
    ELSE scaled'[p] = IF Scales(i, p) THEN scaled[p] + 1 ELSE scaled[p]

BrokerType ==
  /\ size \in [Ticket -> Nat] /\ side \in [Ticket -> Side] /\ opened \in 0..Cardinality(Ticket)
  /\ adverse \subseteq Ticket /\ spent \in [Ticket -> Nat] /\ scaled \in [Ticket -> Nat]

LEMMA ResizeLessens ==
  ASSUME ITypeOK, NEW p \in Ticket, NEW n \in Nat, n <= size[p], Resize(p, n)
  PROVE  /\ Lessens /\ size' \in [Ticket -> Nat] /\ side' \in [Ticket -> Side]
         /\ opened' \in 0..Cardinality(Ticket)
         /\ adverse' \subseteq Ticket /\ spent' \in [Ticket -> Nat]
         /\ size'[p] = n /\ \A q \in Ticket \ {p} : size'[q] = size[q]
<1>1. /\ size' = [size EXCEPT ![p] = n] /\ opened' = opened
      /\ side' = IF n > 0 THEN side ELSE [side EXCEPT ![p] = "LONG"]
      /\ adverse' = IF n > 0 THEN adverse ELSE adverse \ {p}
      /\ spent' = IF n > 0 THEN spent ELSE [spent EXCEPT ![p] = 0]
  BY DEF Resize
<1>2. /\ size \in [Ticket -> Nat] /\ side \in [Ticket -> Side] /\ opened \in 0..Cardinality(Ticket)
      /\ adverse \subseteq Ticket /\ spent \in [Ticket -> Nat]
  BY DEF ITypeOK
<1>3. /\ size' \in [Ticket -> Nat] /\ size'[p] = n
      /\ \A q \in Ticket \ {p} : size'[q] = size[q]
  BY <1>1, <1>2
<1>4. side' \in [Ticket -> Side] /\ \A q \in Ticket : q # p \/ n > 0 => side'[q] = side[q]
  BY <1>1, <1>2 DEF Side
<1>5. /\ spent' \in [Ticket -> Nat] /\ \A q \in Ticket : q # p \/ n > 0 => spent'[q] = spent[q]
      /\ n = 0 => spent'[p] = 0
  BY <1>1, <1>2
<1>6. ASSUME NEW q \in Ticket
      PROVE  /\ size'[q] <= size[q] /\ spent'[q] <= spent[q]
             /\ size'[q] > 0 => side'[q] = side[q] /\ spent'[q] = spent[q]
  <2>1. size[q] \in Nat /\ spent[q] \in Nat
    BY <1>2
  <2>2. CASE q = p
    BY <1>3, <1>4, <1>5, <2>1, <2>2
  <2>3. CASE q # p
    BY <1>3, <1>4, <1>5, <2>1, <2>3
  <2>4. QED
    BY <2>2, <2>3
<1>7. Lessens
  BY <1>1, <1>6 DEF Lessens
<1>8. QED
  BY <1>1, <1>2, <1>3, <1>4, <1>5, <1>7

\* A reduction or a close is at most the position.
LEMMA VolumeIsBounded ==
  ASSUME ITypeOK, NEW i \in Intent, IsExit(i)
  PROVE  Volume(i) \in Nat /\ Volume(i) <= size[i.on] /\ i.on \in Ticket
<1>1. \A a \in Nat : \A b \in Nat \ {0} : a \div b \in Nat /\ a \div b <= a
  OBVIOUS
<1>2. i.on \in Ticket /\ i.part \in {1, 2} \cup Parts
  BY DEF Intent, IsExit
<1>3. {1, 2} \cup Parts \subseteq Nat \ {0}
  BY LimitsAssumption
<1>4. i.part \in Nat \ {0} /\ size[i.on] \in Nat
  BY <1>2, <1>3 DEF ITypeOK
<1>5. QED
  BY <1>1, <1>2, <1>4 DEF Volume

\* An order opens a position, or takes from one, or changes neither.
LEMMA FillsShape ==
  ASSUME ITypeOK, \A p \in Ticket : size[p] = 0 => scaled[p] = 0,
         NEW i \in Intent, NEW n, Fills(i, n)
  PROVE  /\ BrokerType'
         /\ IF i.kind = "ENTER" THEN Grows(i, n) ELSE Lessens /\ Takes(i)
<1>1. /\ size \in [Ticket -> Nat] /\ side \in [Ticket -> Side] /\ opened \in 0..Cardinality(Ticket)
      /\ adverse \subseteq Ticket /\ spent \in [Ticket -> Nat] /\ scaled \in [Ticket -> Nat]
  BY DEF ITypeOK
<1>2. CASE i.kind = "ENTER"
  <2>1. Grows(i, n)
    BY <1>2 DEF Fills, Grows, IsExit
  <2>2. i.side \in Side /\ i.lots \in 1..MaxSize
    BY <1>2 DEF Intent
  <2>3. n \in Nat /\ opened + 1 \in 0..Cardinality(Ticket)
    BY <1>1, <2>1, <2>2, TicketsAreFinite DEF Grows
  <2>4. size' \in [Ticket -> Nat] /\ side' \in [Ticket -> Side]
    BY <1>1, <2>1, <2>2, <2>3 DEF Grows
  <2>5. BrokerType'
    BY <1>1, <2>1, <2>3, <2>4 DEF Grows, BrokerType
  <2>6. QED
    BY <1>2, <2>1, <2>5
<1>3. CASE IsExit(i)
  <2>1. /\ n \in 1..Volume(i) /\ Resize(i.on, size[i.on] - n)
        /\ scaled' = [scaled EXCEPT ![i.on] =
                        IF size'[i.on] = 0 THEN 0
                        ELSE IF Scales(i, i.on) THEN scaled[i.on] + 1 ELSE scaled[i.on]]
    BY <1>3 DEF Fills, IsExit
  <2>2. Volume(i) \in Nat /\ Volume(i) <= size[i.on] /\ i.on \in Ticket /\ size[i.on] \in Nat
    BY <1>1, <1>3, VolumeIsBounded
  <2>3. size[i.on] - n \in Nat /\ size[i.on] - n <= size[i.on]
    BY <2>1, <2>2
  <2>4. /\ Lessens /\ size' \in [Ticket -> Nat] /\ side' \in [Ticket -> Side]
        /\ opened' \in 0..Cardinality(Ticket)
        /\ adverse' \subseteq Ticket /\ spent' \in [Ticket -> Nat]
        /\ \A q \in Ticket \ {i.on} : size'[q] = size[q]
    BY <2>1, <2>2, <2>3, ResizeLessens
  <2>5. scaled' \in [Ticket -> Nat]
    BY <1>1, <2>1, <2>2
  <2>6. /\ \A q \in Ticket \ {i.on} : scaled'[q] = scaled[q] /\ ~Scales(i, q)
        /\ scaled'[i.on] = IF size'[i.on] = 0 THEN 0
                           ELSE IF Scales(i, i.on) THEN scaled[i.on] + 1 ELSE scaled[i.on]
    BY <1>1, <2>1, <2>2 DEF Scales
  <2>7. Takes(i)
    BY <2>4, <2>6 DEF Takes
  <2>8. QED
    BY <1>3, <2>4, <2>5, <2>7 DEF BrokerType, IsExit
<1>4. CASE i.kind = "PROTECT"
  <2>1. UNCHANGED <<broker, adverse, spent, scaled>>
    BY <1>4 DEF Fills, IsExit
  <2>2. BrokerType' /\ Lessens
    BY <1>1, <2>1 DEF BrokerType, Lessens, broker
  <2>3. Takes(i)
    BY <1>4, <2>1 DEF Takes, Scales, broker
  <2>4. QED
    BY <1>4, <2>2, <2>3
<1>5. QED
  BY <1>2, <1>3, <1>4 DEF Intent, IsExit

\* An entry that fits an inventory fits what is left of it.
LEMMA FitsStays ==
  ASSUME ITypeOK, ITypeOK', Lessens, NEW e, e.kind = "ENTER", e \in Intent, Fits(e)
  PROVE  Fits(e)'
<1>1. /\ size \in [Ticket -> Nat] /\ size' \in [Ticket -> Nat]
      /\ \A p \in Ticket : /\ size[p] \in Nat /\ size'[p] \in Nat /\ size'[p] <= size[p]
                           /\ size'[p] > 0 => side'[p] = side[p]
  BY DEF ITypeOK, Lessens
<1>2. /\ Open = {p \in Ticket : size[p] > 0} /\ Open' = {p \in Ticket : size'[p] > 0}
      /\ OnSide(e.side) = {p \in Open : side[p] = e.side}
      /\ OnSide(e.side)' = {p \in Open' : side'[p] = e.side}
  BY DEF Open, OnSide
<1>3. OnSide(e.side) = Open /\ CanOpen(e.side, e.lots)
  BY DEF Fits
<1>4. Open \subseteq Ticket /\ Open' \subseteq Open
  BY <1>1, <1>2
<1>5. OnSide(e.side)' = Open'
  BY <1>1, <1>2, <1>3, <1>4
<1>6. Cardinality(Open') \in Nat /\ Cardinality(Open) \in Nat /\ Cardinality(Open') <= Cardinality(Open)
  BY <1>4, TicketsAreFinite, FS_Subset
<1>7. Cardinality(Blocks(size', Open')) <= Cardinality(Blocks(size, Open))
  BY <1>1, <1>4, BlocksShrink
<1>8. Cardinality(Blocks(size', Open')) \in Nat /\ Cardinality(Blocks(size, Open)) \in Nat
  BY <1>1, <1>4, BlocksAreFinite
<1>9. Lots(Open) = Cardinality(Blocks(size, Open)) /\ Lots(Open)' = Cardinality(Blocks(size', Open'))
  BY DEF Lots, Blocks
<1>10. e.lots \in Nat /\ MaxTotal \in Nat /\ MaxDirectional \in Nat /\ MaxPositions \in Nat
       /\ MaxSameSide \in Nat
  BY LimitsAssumption DEF Intent
<1>11. /\ Cardinality(Open) < MaxPositions /\ Cardinality(Open) < MaxSameSide
       /\ Lots(Open) + e.lots <= MaxTotal /\ Lots(Open) + e.lots <= MaxDirectional
  BY <1>3 DEF CanOpen, PositionsAllow
<1>12. /\ Cardinality(Open') < MaxPositions /\ Cardinality(Open') < MaxSameSide
       /\ Lots(Open)' + e.lots <= MaxTotal /\ Lots(Open)' + e.lots <= MaxDirectional
  BY <1>6, <1>7, <1>8, <1>9, <1>10, <1>11
<1>13. Lots(OnSide(e.side))' = Lots(Open)' /\ Cardinality(OnSide(e.side)') = Cardinality(Open')
  BY <1>5 DEF Lots
<1>14. PositionsAllow(e.side)' /\ CanOpen(e.side, e.lots)'
  BY <1>12, <1>13 DEF CanOpen, PositionsAllow
<1>15. QED
  BY <1>5, <1>14 DEF Fits

\* And when it is filled, in part or as asked for, the inventory is within its
\* limits, and on one side.
LEMMA FilledIsWithin ==
  ASSUME ITypeOK, ITypeOK', KnownInv, NEW e \in Intent, NEW n, Grows(e, n), Fits(e)
  PROVE  Within'
<1> DEFINE p == opened + 1
           s == e.side
<1>1. /\ size \in [Ticket -> Nat] /\ side \in [Ticket -> Side] /\ opened \in Nat
      /\ size' \in [Ticket -> Nat] /\ e.kind = "ENTER" /\ opened < Cardinality(Ticket)
      /\ n \in 1..e.lots
      /\ size' = [size EXCEPT ![p] = n] /\ side' = [side EXCEPT ![p] = s]
  BY TicketsAreFinite DEF ITypeOK, Grows
<1>2. s \in Side /\ e.lots \in Nat /\ n \in Nat /\ n > 0 /\ n <= e.lots
  <2>1. e.lots \in 1..MaxSize /\ s \in Side
    BY <1>1 DEF Intent
  <2>2. QED
    BY <1>1, <2>1
<1>3. p \in Ticket /\ p \notin Open
  <2>1. p \in 1..Cardinality(Ticket)
    BY <1>1, TicketsAreFinite
  <2>2. p \in Ticket
    BY <2>1, LimitsAssumption
  <2>3. ~(p <= opened)
    BY <1>1
  <2>4. QED
    BY <2>2, <2>3 DEF KnownInv, Open
<1> HIDE DEF p, s
<1>4. /\ size'[p] = n /\ side'[p] = s
      /\ \A q \in Ticket \ {p} : size'[q] = size[q] /\ side'[q] = side[q]
  BY <1>1, <1>3
<1>5. Open' = Open \cup {p} /\ Open \subseteq Ticket
  BY <1>2, <1>3, <1>4 DEF Open
<1>6. OnSide(s) = Open /\ CanOpen(s, e.lots)
  BY DEF Fits, s
<1>7. OnSide(s)' = Open'
  <2>1. \A q \in Open : side[q] = s
    BY <1>6 DEF OnSide
  <2>2. \A q \in Open' : side'[q] = s
    BY <1>3, <1>4, <1>5, <2>1
  <2>3. OnSide(s)' = {q \in Open' : side'[q] = s}
    BY DEF OnSide
  <2>4. QED
    BY <2>2, <2>3
<1>8. IsFiniteSet(Open) /\ Cardinality(Open) \in Nat
      /\ Cardinality(Open') = Cardinality(Open) + 1
  BY <1>3, <1>5, TicketsAreFinite, FS_AddElement
<1>9. Lots(Open)' = Lots(Open) + n /\ Lots(Open) \in Nat
  <2>1. Cardinality(Blocks(size', Open \cup {p})) = Cardinality(Blocks(size', Open)) + size'[p]
    BY <1>1, <1>3, <1>5, BlocksGrow
  <2>2. Blocks(size', Open) = Blocks(size, Open)
    <3>1. \A q \in Open : size'[q] = size[q]
      BY <1>3, <1>4, <1>5
    <3>2. QED
      BY <3>1 DEF Blocks
  <2>3. Lots(Open) = Cardinality(Blocks(size, Open)) /\ Lots(Open)' = Cardinality(Blocks(size', Open'))
    BY DEF Lots, Blocks
  <2>4. Cardinality(Blocks(size, Open)) \in Nat
    BY <1>1, <1>5, BlocksAreFinite
  <2>5. QED
    BY <1>4, <1>5, <2>1, <2>2, <2>3, <2>4
<1>10. MaxTotal \in Nat /\ MaxDirectional \in Nat /\ MaxPositions \in Nat /\ MaxSameSide \in Nat
  BY LimitsAssumption
<1>11. /\ Cardinality(Open) < MaxPositions /\ Cardinality(Open) < MaxSameSide
       /\ Lots(Open) + e.lots <= MaxTotal /\ Lots(Open) + e.lots <= MaxDirectional
  BY <1>6 DEF CanOpen, PositionsAllow
<1>12. /\ Cardinality(Open') <= MaxPositions /\ Cardinality(Open') <= MaxSameSide
       /\ Lots(Open)' <= MaxTotal /\ Lots(Open)' <= MaxDirectional
  BY <1>2, <1>8, <1>9, <1>10, <1>11
<1>13. QED
  BY <1>2, <1>7, <1>12 DEF Within

-----------------------------------------------------------------------------
(* The steps.                                                              *)

LEMMA QueueAdvances ==
  ASSUME queue \in Seq(Intent), queue # << >>
  PROVE  /\ Current = queue[1] /\ Current \in Intent /\ 1 \in DOMAIN queue
         /\ Tail(queue) \in Seq(Intent) /\ Len(Tail(queue)) = Len(queue) - 1
         /\ Len(queue) \in Nat \ {0}
         /\ \A i \in DOMAIN Tail(queue) :
              i \in Nat \ {0} /\ i + 1 \in DOMAIN queue /\ Tail(queue)[i] = queue[i + 1]
<1>1. Len(queue) \in Nat \ {0} /\ DOMAIN queue = 1..Len(queue)
  OBVIOUS
<1>2. Tail(queue) \in Seq(Intent) /\ Len(Tail(queue)) = Len(queue) - 1
  BY <1>1
<1>3. DOMAIN Tail(queue) = 1..(Len(queue) - 1)
  BY <1>1, <1>2
<1>4. \A i \in 1..(Len(queue) - 1) : Tail(queue)[i] = queue[i + 1]
  BY <1>1
<1>5. Current = queue[1] /\ queue[1] \in Intent
  BY <1>1 DEF Current
<1>6. QED
  BY <1>1, <1>2, <1>3, <1>4, <1>5

\* The queue stays, is dropped, or has lost its head.
Drains == queue' \in {queue, << >>, Tail(queue)} /\ (queue = << >> => queue' = << >>)

\* What the exits have taken of what is left, with what they still plan.
Accounts ==
  \A p \in Ticket :
    IF size'[p] = 0 THEN scaled'[p] = 0
    ELSE scaled'[p] + (IF Owed(p)' THEN 1 ELSE 0) <= scaled[p] + (IF Owed(p) THEN 1 ELSE 0)

LEMMA DrainsIsPart ==
  ASSUME ITypeOK, Drains
  PROVE  /\ queue' \in Seq(Intent)
         /\ \E k \in {0, 1} : \A i \in DOMAIN queue' :
              /\ i \in Nat /\ i + k \in DOMAIN queue /\ queue'[i] = queue[i + k]
              /\ i + k = Len(queue) => i = Len(queue')
<1>1. queue \in Seq(Intent)
  BY DEF ITypeOK
<1>2. CASE queue' = queue
  <2>1. \A i \in DOMAIN queue' : i \in Nat /\ i + 0 = i
    BY <1>1, <1>2
  <2>2. QED
    BY <1>1, <1>2, <2>1
<1>3. CASE queue' = << >>
  BY <1>3
<1>4. CASE queue # << >> /\ queue' = Tail(queue)
  <2>1. /\ queue' \in Seq(Intent) /\ Len(queue') = Len(queue) - 1 /\ Len(queue) \in Nat
        /\ \A i \in DOMAIN queue' :
             i \in Nat /\ i + 1 \in DOMAIN queue /\ queue'[i] = queue[i + 1]
    BY <1>1, <1>4, QueueAdvances
  <2>2. \A i \in DOMAIN queue' : i + 1 = Len(queue) => i = Len(queue')
    BY <2>1
  <2>3. QED
    BY <2>1, <2>2
<1>5. QED
  BY <1>2, <1>3, <1>4 DEF Drains

\* Whatever reduces the inventory and plans nothing new keeps the invariant.
LEMMA LesserKeeps ==
  ASSUME InventoryInv, ITypeOK', Lessens, Drains, Outstanding' \subseteq Outstanding, Accounts
  PROVE  KnownInv' /\ BudgetInv' /\ EntryInv'
<1>1. PICK k \in {0, 1} : \A i \in DOMAIN queue' :
        /\ i \in Nat /\ i + k \in DOMAIN queue /\ queue'[i] = queue[i + k]
        /\ i + k = Len(queue) => i = Len(queue')
  BY DrainsIsPart DEF InventoryInv
<1>2. \A p \in Ticket : /\ size[p] \in Nat /\ size'[p] \in Nat /\ spent[p] \in Nat
                        /\ spent'[p] \in Nat /\ scaled[p] \in Nat /\ scaled'[p] \in Nat
                        /\ p \in Nat
  BY TicketsAreFinite DEF InventoryInv, ITypeOK
<1>3. KnownInv'
  <2>1. \A p \in Ticket : size'[p] > 0 => p <= opened'
    BY <1>2 DEF InventoryInv, KnownInv, Lessens
  <2>2. \A i \in Outstanding' : i.kind # "ENTER" => i.on <= opened'
    BY DEF InventoryInv, KnownInv, Lessens
  <2>3. QED
    BY <2>1, <2>2 DEF KnownInv
<1>4. BudgetInv'
  <2>1. ASSUME NEW i \in DOMAIN queue', NEW j \in DOMAIN queue', NEW p \in Ticket,
               Scales(queue'[i], p), Scales(queue'[j], p)
        PROVE  i = j
    <3>1. i + k = j + k
      BY <1>1, <2>1 DEF InventoryInv, BudgetInv
    <3>2. QED
      BY <1>1, <3>1
  <2>2. ASSUME NEW p \in Ticket
        PROVE  /\ spent'[p] <= MaxReductions
               /\ IF size'[p] = 0 THEN scaled'[p] = 0
                  ELSE scaled'[p] + (IF Owed(p)' THEN 1 ELSE 0) <= spent'[p]
    <3>1. spent'[p] <= spent[p] /\ spent[p] <= MaxReductions /\ MaxReductions \in Nat
      BY LimitsAssumption DEF Lessens, InventoryInv, BudgetInv
    <3>2. CASE size'[p] = 0
      BY <1>2, <3>1, <3>2 DEF Accounts
    <3>3. CASE size'[p] # 0
      <4>1. size'[p] > 0 /\ size[p] > 0 /\ spent'[p] = spent[p]
        BY <1>2, <3>3 DEF Lessens
      <4>2. scaled[p] + (IF Owed(p) THEN 1 ELSE 0) <= spent[p]
        BY <1>2, <4>1 DEF InventoryInv, BudgetInv
      <4>3. scaled'[p] + (IF Owed(p)' THEN 1 ELSE 0) <= scaled[p] + (IF Owed(p) THEN 1 ELSE 0)
        BY <3>3 DEF Accounts
      <4>4. scaled'[p] + (IF Owed(p)' THEN 1 ELSE 0) <= spent'[p]
        BY <1>2, <4>1, <4>2, <4>3
      <4>5. QED
        BY <1>2, <3>1, <3>3, <4>4
    <3>4. QED
      BY <3>2, <3>3
  <2>3. QED
    BY <2>1, <2>2 DEF BudgetInv, Scales
<1>5. EntryInv'
  <2>1. ASSUME NEW i \in DOMAIN queue', queue'[i].kind = "ENTER"
        PROVE  i = Len(queue')
    <3>1. i + k = Len(queue)
      BY <1>1, <2>1 DEF InventoryInv, EntryInv
    <3>2. QED
      BY <1>1, <3>1
  <2>2. ASSUME NEW e \in Outstanding', e.kind = "ENTER"
        PROVE  Fits(e)'
    <3>1. e \in Outstanding /\ Fits(e)
      BY <2>2 DEF InventoryInv, EntryInv
    <3>2. e \in Intent
      BY <3>1 DEF InventoryInv, ITypeOK, Outstanding
    <3>3. QED
      BY <2>2, <3>1, <3>2, FitsStays DEF InventoryInv
  <2>3. QED
    BY <2>1, <2>2 DEF EntryInv
<1>6. QED
  BY <1>3, <1>4, <1>5

\* A step that leaves the positions alone.
LEMMA QuietKeeps ==
  ASSUME InventoryInv, ITypeOK', UNCHANGED <<broker, spent, scaled>>,
         Drains, Outstanding' \subseteq Outstanding
  PROVE  KnownInv' /\ BudgetInv' /\ EntryInv'
<1>1. \A p \in Ticket : size[p] \in Nat /\ spent[p] \in Nat /\ scaled[p] \in Nat
  BY DEF InventoryInv, ITypeOK
<1>2. Lessens
  BY <1>1 DEF Lessens, broker
<1>3. Accounts
  <2> SUFFICES ASSUME NEW p \in Ticket
               PROVE  IF size'[p] = 0 THEN scaled'[p] = 0
                      ELSE scaled'[p] + (IF Owed(p)' THEN 1 ELSE 0)
                             <= scaled[p] + (IF Owed(p) THEN 1 ELSE 0)
    BY DEF Accounts
  <2>1. Owed(p)' => Owed(p)
    BY DEF Owed, Scales
  <2>2. size'[p] = size[p] /\ scaled'[p] = scaled[p] /\ (size[p] = 0 => scaled[p] = 0)
    BY DEF broker, InventoryInv, BudgetInv
  <2>3. QED
    BY <1>1, <2>1, <2>2
<1>4. QED
  BY <1>2, <1>3, LesserKeeps

LEMMA OpenIsOutstanding ==
  ASSUME ITypeOK
  PROVE  Outstanding \subseteq Intent /\ (open \notin {None, Settled} => open \in Outstanding)
BY DEF ITypeOK, Outstanding

LEMMA AdvanceDrains ==
  ASSUME ITypeOK, queue # << >>, queue' = Tail(queue), open' = open
  PROVE  Drains /\ Outstanding' \subseteq Outstanding /\ queue' \in Seq(Intent)
<1>1. /\ queue' \in Seq(Intent)
      /\ \A i \in DOMAIN queue' : i + 1 \in DOMAIN queue /\ queue'[i] = queue[i + 1]
  BY QueueAdvances DEF ITypeOK
<1>2. Outstanding' \subseteq Outstanding
  BY <1>1 DEF Outstanding
<1>3. QED
  BY <1>1, <1>2 DEF Drains

LEMMA DropDrains ==
  ASSUME ITypeOK, queue' = << >>, open' \in {open, None, Settled} \/ (queue # << >> /\ open' = Current)
  PROVE  Drains /\ Outstanding' \subseteq Outstanding /\ queue' \in Seq(Intent)
         /\ open' \in Intent \cup {None, Settled}
<1>1. queue' \in Seq(Intent) /\ DOMAIN queue' = {}
  OBVIOUS
<1>2. queue # << >> => Current \in Intent /\ Current \in Outstanding
  <2>1. SUFFICES ASSUME queue # << >> PROVE Current \in Intent /\ Current \in Outstanding
    OBVIOUS
  <2>2. Current \in Intent /\ Current = queue[1] /\ 1 \in DOMAIN queue
    BY <2>1, QueueAdvances DEF ITypeOK
  <2>3. QED
    BY <2>2 DEF Outstanding
<1>3. Outstanding' \subseteq Outstanding
  BY <1>1, <1>2 DEF Outstanding
<1>4. open' \in Intent \cup {None, Settled}
  BY <1>2 DEF ITypeOK
<1>5. QED
  BY <1>1, <1>3, <1>4 DEF Drains

LEMMA OpenIsTickets == Open \subseteq Ticket /\ Open' \subseteq Ticket
BY DEF Open

LEMMA QuietSteps ==
  ASSUME InventoryInv, Warm \/ Refused \/ Doubtful \/ Missing \/ Crash \/ Start \/ Move
  PROVE  InventoryInv'
<1> USE DEF InventoryInv
<1>1. CASE Warm
  <2>1. ITypeOK' /\ UNCHANGED <<broker, spent, scaled>> /\ queue' = queue /\ open' = open
    BY <1>1 DEF Warm, ITypeOK, broker, store
  <2>2. Drains /\ Outstanding' \subseteq Outstanding
    BY <2>1 DEF Drains, Outstanding
  <2>3. HaltInv'
    BY <1>1 DEF Warm, HaltInv, store
  <2>4. QED
    BY <2>1, <2>2, <2>3, QuietKeeps
<1>2. CASE Refused
  <2>1. /\ queue # << >> /\ UNCHANGED <<broker, adverse, spent, open, halted, up, warm, scaled, crashes>>
        /\ queue' = Tail(queue) /\ snap' \subseteq Ticket /\ blocked' \in BOOLEAN
    BY <1>2, OpenIsTickets DEF Refused, Advance, Observed
  <2>2. Drains /\ Outstanding' \subseteq Outstanding /\ queue' \in Seq(Intent)
    BY <2>1, AdvanceDrains
  <2>3. ITypeOK'
    BY <2>1, <2>2 DEF ITypeOK, broker
  <2>4. HaltInv'
    BY <2>1 DEF HaltInv
  <2>5. QED
    BY <2>1, <2>2, <2>3, <2>4, QuietKeeps
<1>3. CASE Doubtful
  <2>1. /\ queue # << >> /\ UNCHANGED <<broker, adverse, spent, scaled, crashes>>
        /\ open' = Current /\ halted' = TRUE /\ blocked' \in BOOLEAN
        /\ queue' = << >> /\ snap' = {} /\ {up', warm'} \subseteq BOOLEAN
    BY <1>3 DEF Doubtful, HaltLatch, Observed, Down, ITypeOK
  <2>2. /\ Drains /\ Outstanding' \subseteq Outstanding /\ queue' \in Seq(Intent)
        /\ open' \in Intent \cup {None, Settled}
    BY <2>1, DropDrains
  <2>3. ITypeOK'
    BY <2>1, <2>2 DEF ITypeOK, broker
  <2>4. HaltInv'
    BY <2>1 DEF HaltInv
  <2>5. QED
    BY <2>1, <2>2, <2>3, <2>4, QuietKeeps
<1>4. CASE Missing
  <2>1. /\ queue # << >> /\ UNCHANGED <<broker, adverse, spent, blocked, halted, scaled, crashes>>
        /\ open' = Current /\ queue' = << >> /\ snap' = {} /\ up' = FALSE /\ warm' = FALSE
    BY <1>4 DEF Missing, Down
  <2>2. /\ Drains /\ Outstanding' \subseteq Outstanding /\ queue' \in Seq(Intent)
        /\ open' \in Intent \cup {None, Settled}
    BY <2>1, DropDrains
  <2>3. ITypeOK'
    BY <2>1, <2>2 DEF ITypeOK, broker
  <2>4. HaltInv'
    BY <2>1 DEF HaltInv
  <2>5. QED
    BY <2>1, <2>2, <2>3, <2>4, QuietKeeps
<1>5. CASE Crash
  <2>1. /\ UNCHANGED <<broker, adverse, spent, blocked, halted, scaled>> /\ crashes' \in Nat
        /\ open' = open \/ (queue # << >> /\ open' = Current)
        /\ queue' = << >> /\ snap' = {} /\ up' = FALSE /\ warm' = FALSE
    BY <1>5 DEF Crash, Down, ITypeOK
  <2>2. /\ Drains /\ Outstanding' \subseteq Outstanding /\ queue' \in Seq(Intent)
        /\ open' \in Intent \cup {None, Settled}
    BY <2>1, DropDrains
  <2>3. ITypeOK'
    BY <2>1, <2>2 DEF ITypeOK, broker
  <2>4. HaltInv'
    BY <2>1 DEF HaltInv
  <2>5. QED
    BY <2>1, <2>2, <2>3, <2>4, QuietKeeps
<1>6. CASE Start
  <2>1. /\ UNCHANGED <<broker, adverse, spent, blocked, warm, snap, queue, scaled, crashes>>
        /\ up' = TRUE /\ open' \in {open, None} /\ halted' \in BOOLEAN
        /\ open' # None => halted'
    BY <1>6 DEF Start
  <2>2. Drains /\ Outstanding' \subseteq Outstanding
    BY <2>1 DEF Drains, Outstanding
  <2>3. ITypeOK'
    BY <2>1 DEF ITypeOK, broker
  <2>4. HaltInv'
    BY <2>1 DEF HaltInv
  <2>5. QED
    BY <2>1, <2>2, <2>3, <2>4, QuietKeeps
<1>7. CASE Move
  <2>1. /\ UNCHANGED <<broker, spent, open, halted, up, queue, scaled>>
        /\ UNCHANGED <<blocked, warm, snap, crashes>> /\ adverse' \subseteq Ticket
    BY <1>7, OpenIsTickets DEF Move, store, memory, ITypeOK
  <2>2. Drains /\ Outstanding' \subseteq Outstanding
    BY <2>1 DEF Drains, Outstanding
  <2>3. ITypeOK' /\ HaltInv'
    BY <2>1 DEF ITypeOK, broker, HaltInv
  <2>4. QED
    BY <2>1, <2>2, <2>3, QuietKeeps
<1>8. QED
  BY <1>1, <1>2, <1>3, <1>4, <1>5, <1>6, <1>7

\* What a plan spends is written before any of it is executed.
LEMMA PollStep ==
  ASSUME InventoryInv, Poll
  PROVE  InventoryInv'
<1> USE DEF InventoryInv
<1>1. PICK plan \in Plans : /\ ReplacePositions(plan.reduced)
                            /\ queue' = IF halted THEN << >> ELSE plan.intents
                            /\ snap' = IF queue' = << >> THEN {} ELSE Open
  BY DEF Poll
<1>2. /\ up /\ queue = << >>
      /\ UNCHANGED <<broker, adverse, blocked, open, halted, up, warm, scaled, crashes>>
  BY DEF Poll, Idle
<1>3. GoodPlan(plan.intents, plan.reduced)
  BY PlansAreGood
<1> DEFINE r == plan.reduced
<1>4. r \subseteq Open /\ \A p \in r : spent[p] < MaxReductions
  BY <1>3 DEF GoodPlan
<1>5. /\ spent' \in [Ticket -> Nat]
      /\ \A p \in Ticket : spent'[p] = IF p \in r THEN spent[p] + 1 ELSE spent[p]
  BY <1>1 DEF ReplacePositions, Tracked, ITypeOK
<1>6. queue' \in Seq(Intent)
  BY <1>1, <1>3 DEF GoodPlan
<1>7. ITypeOK'
  BY <1>1, <1>2, <1>5, <1>6, OpenIsTickets DEF ITypeOK, broker
<1>8. open # None => halted
  BY <1>2 DEF HaltInv
<1>9. HaltInv'
  BY <1>1, <1>2, <1>8 DEF HaltInv
<1>10. UNCHANGED <<size, side, opened, scaled>>
  BY <1>2 DEF broker
<1>11. \A p \in Ticket : /\ p \in Nat /\ size[p] \in Nat /\ spent[p] \in Nat
                         /\ scaled[p] \in Nat /\ MaxReductions \in Nat
  BY TicketsAreFinite, LimitsAssumption DEF ITypeOK
<1>12. \A p \in Ticket : /\ spent[p] <= MaxReductions
                         /\ size[p] = 0 => scaled[p] = 0
                         /\ size[p] # 0 => scaled[p] + (IF Owed(p) THEN 1 ELSE 0) <= spent[p]
  BY DEF BudgetInv
<1>13. \A p \in Ticket : spent'[p] <= MaxReductions
  BY <1>4, <1>5, <1>11, <1>12
<1>14. Open' = Open /\ \A q : OnSide(q)' = OnSide(q)
  BY <1>10 DEF Open, OnSide
<1>15. \A e : Fits(e)' <=> Fits(e)
  BY <1>10, <1>14 DEF Fits, CanOpen, PositionsAllow, Lots
<1> HIDE DEF r
<1>16. CASE halted
  <2>1. queue' = << >> /\ DOMAIN queue' = {} /\ Outstanding' = Outstanding
    BY <1>1, <1>2, <1>16 DEF Outstanding
  <2>2. KnownInv' /\ EntryInv'
    BY <1>10, <1>15, <2>1 DEF KnownInv, EntryInv
  <2>3. \A p \in Ticket : Owed(p)' <=> Owed(p)
    BY <2>1 DEF Owed, Scales
  <2>4. ASSUME NEW p \in Ticket
        PROVE  IF size'[p] = 0 THEN scaled'[p] = 0
               ELSE scaled'[p] + (IF Owed(p)' THEN 1 ELSE 0) <= spent'[p]
    BY <1>5, <1>10, <1>11, <1>12, <2>3
  <2>5. BudgetInv'
    BY <1>13, <2>1, <2>4 DEF BudgetInv
  <2>6. QED
    BY <1>7, <1>9, <2>2, <2>5
<1>17. CASE ~halted
  <2>1. queue' = plan.intents /\ open' = None
    BY <1>1, <1>2, <1>8, <1>17
  <2>2. Outstanding' = {queue'[i] : i \in DOMAIN queue'}
    BY <2>1 DEF Outstanding
  <2>3. /\ \A i \in DOMAIN queue' : queue'[i].kind # "ENTER" => queue'[i].on \in Open
        /\ \A i \in DOMAIN queue' : queue'[i].kind = "ENTER" => i = Len(queue') /\ Fits(queue'[i])
        /\ \A i \in DOMAIN queue' : \A p \in Ticket : Scales(queue'[i], p) => p \in r
        /\ \A i, j \in DOMAIN queue' : \A p \in Ticket :
             Scales(queue'[i], p) /\ Scales(queue'[j], p) => i = j
    BY <1>3, <2>1 DEF GoodPlan, r
  <2>4. KnownInv'
    <3>1. \A p \in Open : p <= opened
      BY DEF KnownInv, Open
    <3>2. \A i \in Outstanding' : i.kind # "ENTER" => i.on <= opened'
      BY <1>10, <2>2, <2>3, <3>1
    <3>3. \A p \in Ticket : size'[p] > 0 => p <= opened'
      BY <1>10 DEF KnownInv
    <3>4. QED
      BY <3>2, <3>3 DEF KnownInv
  <2>5. EntryInv'
    <3>1. \A i \in Outstanding' : i.kind = "ENTER" => Fits(i)
      BY <2>2, <2>3
    <3>2. \A i \in Outstanding' : i.kind = "ENTER" => Fits(i)'
      BY <1>15, <3>1
    <3>3. QED
      BY <2>3, <3>2 DEF EntryInv
  <2>6. ASSUME NEW p \in Ticket
        PROVE  IF size'[p] = 0 THEN scaled'[p] = 0
               ELSE scaled'[p] + (IF Owed(p)' THEN 1 ELSE 0) <= spent'[p]
    <3>1. Owed(p)' => p \in r
      BY <2>2, <2>3 DEF Owed, Scales
    <3>2. size[p] # 0 => scaled[p] <= spent[p]
      BY <1>11, <1>12
    <3>3. QED
      BY <1>5, <1>10, <1>11, <1>12, <3>1, <3>2
  <2>7. BudgetInv'
    BY <1>13, <2>3, <2>6 DEF BudgetInv, Scales
  <2>8. QED
    BY <1>7, <1>9, <2>4, <2>5, <2>7
<1>18. QED
  BY <1>16, <1>17

\* An entry that is filled leaves nothing outstanding.
LEMMA GrowthKeeps ==
  ASSUME InventoryInv, ITypeOK', NEW e \in Intent, NEW n, Grows(e, n),
         queue' = << >>, open' \in {None, Settled}
  PROVE  KnownInv' /\ BudgetInv' /\ EntryInv'
<1>1. DOMAIN queue' = {} /\ Outstanding' = {}
  BY DEF Outstanding
<1>2. \A p \in Ticket : ~Owed(p)'
  BY <1>1 DEF Owed
<1>3. opened \in Nat /\ opened' = opened + 1 /\ opened + 1 \in Ticket
  BY TicketsAreFinite, LimitsAssumption DEF InventoryInv, ITypeOK, Grows
<1>4. ASSUME NEW p \in Ticket
      PROVE  /\ size'[p] > 0 => p <= opened'
             /\ spent'[p] <= MaxReductions
             /\ IF size'[p] = 0 THEN scaled'[p] = 0
                ELSE scaled'[p] + (IF Owed(p)' THEN 1 ELSE 0) <= spent'[p]
  <2>1. /\ p \in Nat /\ size[p] \in Nat /\ spent[p] \in Nat /\ scaled[p] \in Nat
        /\ size \in [Ticket -> Nat] /\ spent[p] <= MaxReductions
        /\ size[p] > 0 => p <= opened
        /\ size[p] = 0 => scaled[p] = 0
        /\ size[p] # 0 => scaled[p] + (IF Owed(p) THEN 1 ELSE 0) <= spent[p]
    BY TicketsAreFinite DEF InventoryInv, ITypeOK, BudgetInv, KnownInv
  <2>2. spent' = spent /\ scaled' = scaled /\ size' = [size EXCEPT ![opened + 1] = n]
    BY DEF Grows
  <2>3. size[p] # 0 => scaled[p] <= spent[p]
    BY <2>1
  <2>4. scaled[p] <= spent[p]
    BY <2>1, <2>3
  <2>5. CASE p = opened + 1
    <3>1. size[p] = 0
      BY <1>3, <2>1, <2>5
    <3>2. scaled'[p] = 0 /\ spent'[p] = spent[p] /\ p <= opened'
      BY <1>3, <2>1, <2>2, <2>5, <3>1
    <3>3. QED
      BY <1>2, <2>1, <3>2
  <2>6. CASE p # opened + 1
    <3>1. size'[p] = size[p]
      BY <2>1, <2>2, <2>6
    <3>2. QED
      BY <1>2, <1>3, <2>1, <2>2, <2>4, <3>1
  <2>7. QED
    BY <2>5, <2>6
<1>5. KnownInv'
  BY <1>1, <1>4 DEF KnownInv
<1>6. BudgetInv'
  BY <1>1, <1>4 DEF BudgetInv
<1>7. EntryInv'
  BY <1>1 DEF EntryInv
<1>8. QED
  BY <1>5, <1>6, <1>7

\* An intent that is executed was planned; it was the only one to take its
\* part of its position, and an entry was the last.
LEMMA FilledStep ==
  ASSUME InventoryInv, Filled
  PROVE  InventoryInv' /\ (opened' # opened => Within')
<1> USE DEF InventoryInv
<1>1. /\ queue # << >> /\ queue' = Tail(queue) /\ Fills(Current, Asked(Current))
      /\ snap' = IF queue' = << >> THEN {} ELSE Open'
      /\ UNCHANGED <<open, halted, up, warm, crashes>> /\ blocked' \in BOOLEAN
  BY DEF Filled, Advance, Observed, ITypeOK
<1>2. /\ Current \in Intent /\ Current = queue[1] /\ 1 \in DOMAIN queue
      /\ Len(queue) \in Nat \ {0} /\ Len(queue') = Len(queue) - 1
      /\ \A i \in DOMAIN queue' :
           i \in Nat \ {0} /\ i + 1 \in DOMAIN queue /\ queue'[i] = queue[i + 1]
  BY <1>1, QueueAdvances DEF ITypeOK
<1>3. Drains /\ Outstanding' \subseteq Outstanding /\ queue' \in Seq(Intent)
  BY <1>1, AdvanceDrains
<1>4. open = None /\ open' = None
  BY <1>1 DEF HaltInv
<1>5. Current \in Outstanding
  BY <1>2 DEF Outstanding
<1>6. \A p \in Ticket : size[p] = 0 => scaled[p] = 0
  BY DEF BudgetInv
<1>7. /\ BrokerType'
      /\ IF Current.kind = "ENTER" THEN Grows(Current, Asked(Current)) ELSE Lessens /\ Takes(Current)
  BY <1>1, <1>2, <1>6, FillsShape
<1>8. ITypeOK'
  BY <1>1, <1>3, <1>4, <1>7, OpenIsTickets DEF ITypeOK, BrokerType
<1>9. HaltInv'
  BY <1>4 DEF HaltInv
<1>10. CASE Current.kind = "ENTER"
  <2>1. Grows(Current, Asked(Current)) /\ Fits(Current)
    BY <1>5, <1>7, <1>10 DEF EntryInv
  <2>2. Len(queue) = 1
    BY <1>2, <1>10 DEF EntryInv
  <2>3. queue' = << >>
    <3>1. Len(queue') = 0
      BY <1>2, <2>2
    <3>2. QED
      BY <1>3, <3>1
  <2>4. KnownInv' /\ BudgetInv' /\ EntryInv'
    BY <1>2, <1>4, <1>8, <2>1, <2>3, GrowthKeeps
  <2>5. Within'
    BY <1>2, <1>8, <2>1, FilledIsWithin
  <2>6. QED
    BY <1>8, <1>9, <2>4, <2>5
<1>11. CASE Current.kind # "ENTER"
  <2>1. Lessens /\ Takes(Current)
    BY <1>7, <1>11
  <2>2. Accounts
    <3> SUFFICES ASSUME NEW p \in Ticket
                 PROVE  IF size'[p] = 0 THEN scaled'[p] = 0
                        ELSE scaled'[p] + (IF Owed(p)' THEN 1 ELSE 0)
                               <= scaled[p] + (IF Owed(p) THEN 1 ELSE 0)
      BY DEF Accounts
    <3>1. Owed(p)' => Owed(p)
      BY <1>3 DEF Owed, Scales
    <3>2. ASSUME Scales(Current, p) PROVE Owed(p) /\ ~Owed(p)'
      <4>1. Owed(p)
        BY <1>5, <3>2 DEF Owed
      <4>2. ASSUME NEW i \in DOMAIN queue', Scales(queue'[i], p) PROVE FALSE
        <5>1. i + 1 \in DOMAIN queue /\ Scales(queue[i + 1], p) /\ i \in Nat \ {0}
          BY <1>2, <4>2
        <5>2. Scales(queue[1], p)
          BY <1>2, <3>2
        <5>3. i + 1 = 1
          BY <1>2, <5>1, <5>2 DEF BudgetInv
        <5>4. QED
          BY <5>1, <5>3
      <4>3. Outstanding' = {queue'[i] : i \in DOMAIN queue'}
        BY <1>4 DEF Outstanding
      <4>4. ~Owed(p)'
        BY <4>2, <4>3 DEF Owed, Scales
      <4>5. QED
        BY <4>1, <4>4
    <3>3. IF size'[p] = 0 THEN scaled'[p] = 0
          ELSE scaled'[p] = IF Scales(Current, p) THEN scaled[p] + 1 ELSE scaled[p]
      BY <2>1 DEF Takes
    <3>4. scaled[p] \in Nat
      BY DEF ITypeOK
    <3>5. QED
      BY <3>1, <3>2, <3>3, <3>4
  <2>3. KnownInv' /\ BudgetInv' /\ EntryInv'
    BY <1>3, <1>8, <2>1, <2>2, LesserKeeps
  <2>4. opened' = opened
    BY <2>1 DEF Lessens
  <2>5. QED
    BY <1>8, <1>9, <2>3, <2>4
<1>12. QED
  BY <1>10, <1>11

\* An order that fills late was counted as long as it was open.
LEMMA LateFillStep ==
  ASSUME InventoryInv, LateFill
  PROVE  InventoryInv' /\ (opened' # opened => Within')
<1> USE DEF InventoryInv
<1>1. PICK n \in 1..Asked(open) : Fills(open, n)
  BY DEF LateFill
<1>2. /\ open \notin {None, Settled} /\ open' = Settled
      /\ UNCHANGED <<blocked, halted, up, warm, snap, queue, crashes>>
  BY DEF LateFill, memory
<1>3. open \in Intent /\ open \in Outstanding
  BY <1>2, OpenIsOutstanding DEF ITypeOK
<1>4. queue = << >> /\ queue' = << >> /\ DOMAIN queue' = {}
  BY <1>2 DEF HaltInv
<1>5. Drains /\ Outstanding' \subseteq Outstanding
  BY <1>2, <1>4, DropDrains
<1>6. \A p \in Ticket : size[p] = 0 => scaled[p] = 0
  BY DEF BudgetInv
<1>7. /\ BrokerType'
      /\ IF open.kind = "ENTER" THEN Grows(open, n) ELSE Lessens /\ Takes(open)
  BY <1>1, <1>3, <1>6, FillsShape
<1>8. ITypeOK'
  BY <1>2, <1>4, <1>7 DEF ITypeOK, BrokerType
<1>9. HaltInv'
  BY <1>2, <1>4 DEF HaltInv, Settled, None
<1>10. CASE open.kind = "ENTER"
  <2>1. Grows(open, n) /\ Fits(open)
    BY <1>3, <1>7, <1>10 DEF EntryInv
  <2>2. KnownInv' /\ BudgetInv' /\ EntryInv'
    BY <1>2, <1>3, <1>4, <1>8, <2>1, GrowthKeeps
  <2>3. Within'
    BY <1>3, <1>8, <2>1, FilledIsWithin
  <2>4. QED
    BY <1>8, <1>9, <2>2, <2>3
<1>11. CASE open.kind # "ENTER"
  <2>1. Lessens /\ Takes(open)
    BY <1>7, <1>11
  <2>2. Outstanding' = {}
    BY <1>2, <1>4 DEF Outstanding
  <2>3. Accounts
    <3> SUFFICES ASSUME NEW p \in Ticket
                 PROVE  IF size'[p] = 0 THEN scaled'[p] = 0
                        ELSE scaled'[p] + (IF Owed(p)' THEN 1 ELSE 0)
                               <= scaled[p] + (IF Owed(p) THEN 1 ELSE 0)
      BY DEF Accounts
    <3>1. ~Owed(p)' /\ (Scales(open, p) => Owed(p))
      BY <1>3, <2>2 DEF Owed
    <3>2. IF size'[p] = 0 THEN scaled'[p] = 0
          ELSE scaled'[p] = IF Scales(open, p) THEN scaled[p] + 1 ELSE scaled[p]
      BY <2>1 DEF Takes
    <3>3. scaled[p] \in Nat
      BY DEF ITypeOK
    <3>4. QED
      BY <3>1, <3>2, <3>3
  <2>4. KnownInv' /\ BudgetInv' /\ EntryInv'
    BY <1>5, <1>8, <2>1, <2>3, LesserKeeps
  <2>5. opened' = opened
    BY <2>1 DEF Lessens
  <2>6. QED
    BY <1>8, <1>9, <2>4, <2>5
<1>12. QED
  BY <1>10, <1>11

LEMMA ShrinkStep ==
  ASSUME InventoryInv, Shrink
  PROVE  InventoryInv' /\ opened' = opened
<1> USE DEF InventoryInv
<1>a. PICK p \in Open : \E n \in 0..(size[p] - 1) :
        Resize(p, n) /\ scaled' = [scaled EXCEPT ![p] = IF n = 0 THEN 0 ELSE scaled[p]]
  BY DEF Shrink
<1>1. PICK n \in 0..(size[p] - 1) :
        Resize(p, n) /\ scaled' = [scaled EXCEPT ![p] = IF n = 0 THEN 0 ELSE scaled[p]]
  BY <1>a
<1>2. UNCHANGED <<blocked, open, halted, up, warm, snap, queue, crashes>>
  BY DEF Shrink, memory
<1>3. /\ p \in Ticket /\ size[p] \in Nat /\ n \in Nat /\ n <= size[p]
      /\ scaled \in [Ticket -> Nat]
  <2>1. p \in Ticket /\ size[p] \in Nat
    BY OpenIsTickets DEF ITypeOK
  <2>2. QED
    BY <1>1, <2>1 DEF ITypeOK
<1>4. /\ Lessens /\ size' \in [Ticket -> Nat] /\ side' \in [Ticket -> Side]
      /\ opened' \in 0..Cardinality(Ticket)
      /\ adverse' \subseteq Ticket /\ spent' \in [Ticket -> Nat]
      /\ size'[p] = n /\ \A q \in Ticket \ {p} : size'[q] = size[q]
  BY <1>1, <1>3, ResizeLessens
<1>5. scaled' \in [Ticket -> Nat]
  BY <1>1, <1>3
<1>6. ITypeOK' /\ HaltInv'
  BY <1>2, <1>4, <1>5 DEF ITypeOK, HaltInv
<1>7. Drains /\ Outstanding' = Outstanding
  BY <1>2 DEF Drains, Outstanding
<1>8. Accounts
  <2> SUFFICES ASSUME NEW q \in Ticket
               PROVE  IF size'[q] = 0 THEN scaled'[q] = 0
                      ELSE scaled'[q] + (IF Owed(q)' THEN 1 ELSE 0)
                             <= scaled[q] + (IF Owed(q) THEN 1 ELSE 0)
    BY DEF Accounts
  <2>1. Owed(q)' <=> Owed(q)
    BY <1>7 DEF Owed, Scales
  <2>2. /\ q # p => size'[q] = size[q] /\ scaled'[q] = scaled[q]
        /\ scaled'[p] = IF size'[p] = 0 THEN 0 ELSE scaled[p]
    BY <1>1, <1>3, <1>4
  <2>3. scaled[q] \in Nat /\ (size[q] = 0 => scaled[q] = 0)
    BY DEF ITypeOK, BudgetInv
  <2>4. QED
    BY <2>1, <2>2, <2>3
<1>9. KnownInv' /\ BudgetInv' /\ EntryInv'
  BY <1>4, <1>6, <1>7, <1>8, LesserKeeps
<1>10. QED
  BY <1>4, <1>6, <1>9 DEF Lessens

-----------------------------------------------------------------------------
(* The theorems.                                                           *)

LEMMA InitInventory == Init => InventoryInv
<1> SUFFICES ASSUME Init PROVE InventoryInv
  OBVIOUS
<1>1. MaxHeld \in Nat /\ 0 \in Nat /\ MaxReductions \in Nat
  BY LimitsAssumption
<1>2. /\ queue = << >> /\ DOMAIN queue = {} /\ open = None /\ Outstanding = {}
      /\ queue \in Seq(Intent)
  BY DEF Init, Outstanding
<1>3. size \in [Ticket -> Nat]
  BY <1>1 DEF Init
<1>4. ITypeOK /\ HaltInv
  BY <1>2, <1>3 DEF Init, ITypeOK, HaltInv
<1>5. KnownInv
  BY <1>2 DEF Init, KnownInv
<1>6. BudgetInv
  <2>1. \A p \in Ticket : ~Owed(p)
    BY <1>2 DEF Owed
  <2>2. QED
    BY <1>1, <1>2, <2>1 DEF Init, BudgetInv
<1>7. EntryInv
  BY <1>2 DEF EntryInv
<1>8. QED
  BY <1>4, <1>5, <1>6, <1>7 DEF InventoryInv

LEMMA InventoryStep ==
  ASSUME InventoryInv, [Next]_vars
  PROVE  InventoryInv' /\ (opened' # opened => Within')
<1>1. CASE Warm \/ Refused \/ Doubtful \/ Missing \/ Crash \/ Start \/ Move
  <2>1. opened' = opened
    BY <1>1 DEF Warm, Refused, Doubtful, Missing, Crash, Start, Move, broker
  <2>2. QED
    BY <1>1, <2>1, QuietSteps
<1>2. CASE Poll
  <2>1. opened' = opened
    BY <1>2 DEF Poll, broker
  <2>2. QED
    BY <1>2, <2>1, PollStep
<1>3. CASE Filled
  BY <1>3, FilledStep
<1>4. CASE LateFill
  BY <1>4, LateFillStep
<1>5. CASE Shrink
  BY <1>5, ShrinkStep
<1>6. CASE UNCHANGED vars
  <2>1. /\ UNCHANGED <<broker, spent, scaled>> /\ UNCHANGED <<queue, open, opened>>
        /\ UNCHANGED <<adverse, blocked, halted, up, warm, snap, crashes>>
    BY <1>6 DEF vars, broker, store, memory
  <2>2. Drains /\ Outstanding' \subseteq Outstanding
    BY <2>1 DEF Drains, Outstanding
  <2>3. ITypeOK' /\ HaltInv'
    BY <2>1 DEF InventoryInv, ITypeOK, HaltInv, broker
  <2>4. KnownInv' /\ BudgetInv' /\ EntryInv'
    BY <2>1, <2>2, <2>3, QuietKeeps
  <2>5. QED
    BY <2>1, <2>3, <2>4 DEF InventoryInv
<1>7. QED
  BY <1>1, <1>2, <1>3, <1>4, <1>5, <1>6 DEF Next, Process

\* The limits, the budget and the halt hold together in every state.
THEOREM InventoryAgreement == Spec => []InventoryInv
<1>1. InventoryInv /\ [Next]_vars => InventoryInv'
  BY InventoryStep
<1>2. QED
  BY <1>1, InitInventory, PTL DEF Spec

\* ExitSettings.max_reductions: over the life of a position its exits never
\* take more parts of it, whatever restarts, halts and late fills come between.
THEOREM ReductionsStayBudgeted == Spec => []ReductionsBudgeted
<1>1. InventoryInv => ReductionsBudgeted
  <2> SUFFICES ASSUME InventoryInv, NEW p \in Ticket PROVE scaled[p] <= MaxReductions
    BY DEF ReductionsBudgeted
  <2>1. /\ scaled[p] \in Nat /\ spent[p] \in Nat /\ MaxReductions \in Nat
        /\ spent[p] <= MaxReductions
        /\ size[p] = 0 => scaled[p] = 0
        /\ size[p] # 0 => scaled[p] + (IF Owed(p) THEN 1 ELSE 0) <= spent[p]
    BY LimitsAssumption DEF InventoryInv, ITypeOK, BudgetInv
  <2>2. QED
    BY <2>1
<1>2. QED
  BY <1>1, InventoryAgreement, PTL

\* RiskController: whenever an entry fills, at once or late, in part or whole,
\* the positions, their lots and their side are within the limits.
THEOREM GrowthIsWithinLimits == Spec => GrowsWithinLimits
<1>1. InventoryInv /\ [Next]_vars => [opened' # opened => Within']_vars
  BY InventoryStep
<1>2. QED
  BY <1>1, InventoryAgreement, PTL DEF Spec, GrowsWithinLimits
=============================================================================
