--------------------------- MODULE PlacementProofs ---------------------------
(***************************************************************************)
(* Theorems about Placement, for any clients, runners, workers, runs and   *)
(* contents.                                                               *)
(*                                                                         *)
(* A version names a content because whatever holds a revision, a run or   *)
(* the request that will create one, took it from the scenario's row, and  *)
(* every save that saw what it overwrites moves the version on past all of *)
(* them (RevisionsNamed).  Runs spread because a request's counts are off  *)
(* by no more than what it has drifted, taken over the runners together    *)
(* (MeasureOK, SpreadOK).                                                  *)
(***************************************************************************)
EXTENDS Placement, FiniteSetTheorems, TLAPS

(* A request in progress *)
ReqOK(q) == q \in Req \/ \E among \in SUBSET Runners : q \in Measuring(among)

(* Steps of a request that hold a form's row, or a revision of the scenario *)
HoldsRow(q) == q.step \in {"form", "edit", "script"}

HoldsRevision(q) == q.step \in {"place", "count", "load", "commit"}

(* The scenario is never absent, and holds a scenario's content, now and    *)
(* after any save; there is a runner to choose, by requirements that parse, *)
(* when capacity is counted; a run has a runner, or the reason why not,     *)
(* before it is stored.                                                     *)
ReqShape(q) ==
  /\ q.step = "script" => q.x = Scenario
  /\ q.step \in {"edit", "script"} /\ q.x = Scenario => q.to \in Contents
  /\ q.step \in {"count", "load"} => q.among # {} /\ Parses(q.of.spec)
  /\ q.step = "commit" => (q.runner = NoRunner <=> q.reason # "")

Shapes ==
  /\ reqs = [c \in Clients |-> reqs[c]]
  /\ rows[Scenario].state # "absent"
  /\ rows[Scenario].spec \in Contents
  /\ \A c \in Clients : ReqShape(reqs[c])

(* The revisions that runs and requests hold, and the one that is stored *)
Held ==
  {runs[u].of : u \in {v \in Runs : runs[v] # AbsentRun}}
    \cup {reqs[c].of : c \in {d \in Clients : HoldsRevision(reqs[d])}}

Stored == [version |-> rows[Scenario].version, spec |-> rows[Scenario].spec]

(* No two revisions share a version, and none is newer than what is stored. *)
Named(held, stored) ==
  /\ \A h \in held \cup {stored}, g \in held \cup {stored} :
       h.version = g.version => h.spec = g.spec
  /\ \A h \in held : h.version <= stored.version

RevisionsNamed == ~raced => Named(Held, Stored)

(* What a form, an edit or a script has seen of a row that has not moved    *)
(* since is the row.                                                        *)
SeenOK(seen, row) ==
  /\ row.state # "absent"
  /\ seen.version <= row.version
  /\ row.state = "live" /\ seen.version = row.version => row = seen

RowsSeen == ~raced => \A c \in Clients : HoldsRow(reqs[c]) => SeenOK(reqs[c].seen, rows[reqs[c].x])

-----------------------------------------------------------------------------
(* Workers online and room, runner by runner *)

OnlineAt(r) == {w \in Workers : HomeOf[w] = r /\ workers[w] = "online"}

InFlightAt(r) == {u \in Runs : runs[u].state = "in flight" /\ runs[u].runner = r}

OnlineNow == [r \in Runners |-> Cardinality(OnlineAt(r))]

RoomNow == [r \in Runners |-> Cardinality(OnlineAt(r)) - Cardinality(InFlightAt(r))]

(* The workers a request counted, against those online now *)
MeasureOK(q, online) ==
  /\ \A r \in q.among :
       /\ q.found[r].online \in 0 .. Cardinality(Workers)
       /\ q.found[r].online - online[r] <= q.drift
       /\ online[r] - q.found[r].online <= q.drift
  /\ \A r, s \in q.among :
       r # s => (q.found[r].online - online[r]) + (online[s] - q.found[s].online) <= q.drift

(* The runner a request has chosen, against the room there is now *)
SpreadOK(q, room) ==
  /\ q.regime = "spare-capacity" =>
       /\ q.runner \in q.among
       /\ room[q.runner] + q.drift > 0
       /\ \A r \in q.among : room[q.runner] + q.drift >= room[r]
  /\ q.regime = "saturated" => \A r \in q.among : room[r] <= q.drift

Spreads(q, online, room) ==
  /\ q.step = "load" => MeasureOK(q, online)
  /\ q.step = "commit" => SpreadOK(q, room)

AllSpread == \A c \in Clients : Spreads(reqs[c], OnlineNow, RoomNow)

IInv == TypeOK /\ Shapes /\ RevisionsNamed /\ RowsSeen /\ AllSpread

-----------------------------------------------------------------------------
(* Choosing *)

(* The least of a set of numbers *)
LEMMA NatMin ==
  ASSUME NEW S \in SUBSET Nat, S # {}
  PROVE  Min(S) \in S /\ \A y \in S : Min(S) <= y
<1>1. \E x \in S : \A y \in S : ~(<<y, x>> \in OpToRel(<, Nat))
  BY NatLessThanWellFounded, WFMin
<1>2. \E x \in S : \A y \in S : x <= y
  <2>1. PICK x \in S : \A y \in S : ~(<<y, x>> \in OpToRel(<, Nat))
    BY <1>1
  <2>2. ASSUME NEW y \in S PROVE x <= y
    <3>1. x \in Nat /\ y \in Nat
      OBVIOUS
    <3>2. ~(y < x)
      BY <2>1, <3>1 DEF OpToRel
    <3> QED
      BY <3>1, <3>2
  <2> QED
    BY <2>2
<1> QED
  BY <1>2 DEF Min

-----------------------------------------------------------------------------
(* Sums over finite sets.  The fold that computes one is a recursive        *)
(* function on the subsets of the set; that it exists and what it returns   *)
(* are inductions on cardinality, put as: no least counterexample (NatMin). *)

(* The element that the fold takes next *)
Any(s) == CHOOSE x \in s : TRUE

(* The equation of the fold, on the subsets with at most n elements *)
FoldUpTo(n, g, f, S) ==
  g = [s \in SUBSET S |->
         IF s = {} \/ Cardinality(s) > n THEN 0 ELSE f[Any(s)] + g[s \ {Any(s)}]]

IsFold(g, f, S) == g = [s \in SUBSET S |-> IF s = {} THEN 0 ELSE f[Any(s)] + g[s \ {Any(s)}]]

LEMMA TotalIsFold == \A f, S : Total(f, S) = (CHOOSE g : IsFold(g, f, S))[S]
BY DEF Total, MapThenSumSet, MapThenFoldSet, Any, IsFold

(* A number of which no least counterexample can be found is none. *)
LEMMA NatLeast ==
  ASSUME NEW B \in SUBSET Nat, \A n \in B : \E m \in B : m < n
  PROVE  B = {}
<1>1. SUFFICES ASSUME B # {} PROVE FALSE
  OBVIOUS
<1>2. Min(B) \in B /\ \A y \in B : Min(B) <= y
  BY <1>1, NatMin
<1>3. PICK least \in B : least = Min(B) /\ \A y \in B : least <= y
  BY <1>2
<1>4. PICK m \in B : m < least
  OBVIOUS
<1>5. m \in Nat /\ least \in Nat /\ least <= m
  BY <1>3
<1> QED
  BY <1>4, <1>5

LEMMA AnyIn == ASSUME NEW s, s # {} PROVE Any(s) \in s
BY DEF Any

(* Subsets of a finite set, and what is left without one of their elements *)
LEMMA Smaller ==
  ASSUME NEW S, IsFiniteSet(S)
  PROVE  /\ \A s \in SUBSET S : IsFiniteSet(s) /\ Cardinality(s) \in Nat
         /\ \A s \in SUBSET S : Cardinality(s) = 0 <=> s = {}
         /\ \A s \in SUBSET S : \A x \in s :
              /\ s \ {x} \in SUBSET S
              /\ Cardinality(s \ {x}) = Cardinality(s) - 1
<1>1. \A s \in SUBSET S : IsFiniteSet(s) /\ Cardinality(s) \in Nat
  BY FS_Subset, FS_CardinalityType
<1>2. \A s \in SUBSET S : Cardinality(s) = 0 <=> s = {}
  BY <1>1, FS_EmptySet
<1>3. ASSUME NEW s \in SUBSET S, NEW x \in s
      PROVE  s \ {x} \in SUBSET S /\ Cardinality(s \ {x}) = Cardinality(s) - 1
  <2>1. IsFiniteSet(s)
    BY <1>1
  <2>2. Cardinality(s \ {x}) = IF x \in s THEN Cardinality(s) - 1 ELSE Cardinality(s)
    BY <2>1, FS_RemoveElement
  <2> QED
    BY <2>2
<1> QED
  BY <1>1, <1>2, <1>3

LEMMA FoldExists ==
  ASSUME NEW S, IsFiniteSet(S), NEW f
  PROVE  \E g : IsFold(g, f, S)
<1> DEFINE B == {n \in Nat : ~ \E g : FoldUpTo(n, g, f, S)}
<1>1. ASSUME NEW n \in B PROVE \E m \in B : m < n
  <2>1. CASE n = 0
    <3> DEFINE g == [s \in SUBSET S |-> 0]
    <3>1. \A s \in SUBSET S : s = {} \/ Cardinality(s) > 0
      BY Smaller
    <3>2. g = [s \in SUBSET S |->
         IF s = {} \/ Cardinality(s) > 0 THEN 0 ELSE f[Any(s)] + g[s \ {Any(s)}]]
      BY <3>1
    <3> HIDE DEF g
    <3>3. FoldUpTo(n, g, f, S)
      BY <3>2, <2>1 DEF FoldUpTo
    <3> QED
      BY <3>3
  <2>2. CASE n # 0
    <3>1. SUFFICES ASSUME n - 1 \notin B PROVE FALSE
      BY <2>2
    <3>2. n \in Nat /\ n - 1 \in Nat
      BY <2>2
    <3>3. PICK h : FoldUpTo(n - 1, h, f, S)
      BY <3>1, <3>2
    <3> DEFINE g == [s \in SUBSET S |->
                  IF s = {} \/ Cardinality(s) > n THEN 0 ELSE f[Any(s)] + h[s \ {Any(s)}]]
    <3>4. ASSUME NEW s \in SUBSET S, s # {}, ~(Cardinality(s) > n)
          PROVE  g[s \ {Any(s)}] = h[s \ {Any(s)}]
      <4> DEFINE t == s \ {Any(s)}
      <4>1. t \in SUBSET S /\ Cardinality(t) = Cardinality(s) - 1 /\ Cardinality(s) \in Nat
        BY <3>4, AnyIn, Smaller
      <4>2. ~(Cardinality(t) > n - 1) /\ ~(Cardinality(t) > n)
        BY <3>2, <3>4, <4>1
      <4> HIDE DEF t
      <4>3. h[t] = IF t = {} THEN 0 ELSE f[Any(t)] + h[t \ {Any(t)}]
        BY <3>3, <4>1, <4>2 DEF FoldUpTo
      <4>4. g[t] = IF t = {} THEN 0 ELSE f[Any(t)] + h[t \ {Any(t)}]
        BY <4>1, <4>2
      <4> QED
        BY <4>3, <4>4 DEF t
    <3>5. \A s \in SUBSET S :
            (IF s = {} \/ Cardinality(s) > n THEN 0 ELSE f[Any(s)] + h[s \ {Any(s)}])
              = (IF s = {} \/ Cardinality(s) > n THEN 0 ELSE f[Any(s)] + g[s \ {Any(s)}])
      BY <3>4
    <3>6. g = [s \in SUBSET S |->
                  IF s = {} \/ Cardinality(s) > n THEN 0 ELSE f[Any(s)] + g[s \ {Any(s)}]]
      BY <3>5, Zenon
    <3> HIDE DEF g
    <3>7. FoldUpTo(n, g, f, S)
      BY <3>6 DEF FoldUpTo
    <3> QED
      BY <3>7
  <2> QED
    BY <2>1, <2>2
<1>2. B \in SUBSET Nat
  OBVIOUS
<1> HIDE DEF B
<1>3. B = {}
  BY <1>1, <1>2, NatLeast
<1>4. Cardinality(S) \in Nat
  BY FS_CardinalityType
<1>5. PICK g : FoldUpTo(Cardinality(S), g, f, S)
  BY <1>3, <1>4 DEF B
<1>6. \A s \in SUBSET S : ~(Cardinality(s) > Cardinality(S))
  <2>1. \A s \in SUBSET S : Cardinality(s) <= Cardinality(S) /\ Cardinality(s) \in Nat
    BY FS_Subset, Smaller
  <2> QED
    BY <1>4, <2>1
<1>7. g = [s \in SUBSET S |-> IF s = {} THEN 0 ELSE f[Any(s)] + g[s \ {Any(s)}]]
  BY <1>5, <1>6 DEF FoldUpTo
<1> QED
  BY <1>7 DEF IsFold

(* The folds of a set and of one of its subsets agree on the subset. *)
LEMMA FoldsAgree ==
  ASSUME NEW S, IsFiniteSet(S), NEW T \in SUBSET S, NEW f, NEW g, NEW h,
         IsFold(g, f, S), IsFold(h, f, T)
  PROVE  \A t \in SUBSET T : g[t] = h[t]
<1> DEFINE B == {Cardinality(t) : t \in {u \in SUBSET T : g[u] # h[u]}}
<1>1. ASSUME NEW n \in B PROVE \E m \in B : m < n
  <2>1. PICK t \in SUBSET T : g[t] # h[t] /\ n = Cardinality(t)
    OBVIOUS
  <2>2. /\ g[t] = IF t = {} THEN 0 ELSE f[Any(t)] + g[t \ {Any(t)}]
        /\ h[t] = IF t = {} THEN 0 ELSE f[Any(t)] + h[t \ {Any(t)}]
    BY DEF IsFold
  <2>3. t # {} /\ g[t \ {Any(t)}] # h[t \ {Any(t)}]
    BY <2>1, <2>2
  <2> DEFINE u == t \ {Any(t)}
  <2>4. u \in SUBSET T /\ Cardinality(u) = n - 1 /\ n \in Nat
    BY <2>1, <2>3, AnyIn, Smaller
  <2>5. Cardinality(u) \in B
    BY <2>3, <2>4
  <2>6. Cardinality(u) < n
    BY <2>4
  <2> HIDE DEF u, B
  <2> QED
    BY <2>5, <2>6
<1>2. B \in SUBSET Nat
  BY Smaller
<1> HIDE DEF B
<1>3. B = {}
  BY <1>1, <1>2, NatLeast
<1> QED
  BY <1>3 DEF B

(* Elements may be taken in any order. *)
LEMMA FoldRemoves ==
  ASSUME NEW S, IsFiniteSet(S), NEW f, \A x \in S : f[x] \in Nat, NEW g, IsFold(g, f, S)
  PROVE  \A s \in SUBSET S :
           g[s] \in Nat /\ \A x \in s : g[s] = f[x] + g[s \ {x}]
<1> DEFINE OK(s) == g[s] \in Nat /\ \A x \in s : g[s] = f[x] + g[s \ {x}]
           B == {Cardinality(s) : s \in {u \in SUBSET S : ~OK(u)}}
<1>1. ASSUME NEW n \in B PROVE \E m \in B : m < n
  <2>1. PICK s \in SUBSET S : ~OK(s) /\ n = Cardinality(s)
    OBVIOUS
  <2>2. SUFFICES ASSUME \A m \in B : ~(m < n) PROVE OK(s)
    BY <2>1
  <2>3. ASSUME NEW x \in s PROVE OK(s \ {x})
    <3>1. s \ {x} \in SUBSET S /\ Cardinality(s \ {x}) = n - 1 /\ n \in Nat
      BY <2>1, Smaller
    <3>2. Cardinality(s \ {x}) < n
      BY <3>1
    <3> QED
      BY <2>2, <3>1, <3>2
  <2> HIDE DEF B
  <2>4. CASE s = {}
    <3>1. g[s] = 0
      BY <2>4 DEF IsFold
    <3> QED
      BY <2>4, <3>1
  <2>5. CASE s # {}
    <3>1. PICK p : p = Any(s)
      OBVIOUS
    <3>2. p \in s /\ g[s] = f[p] + g[s \ {p}]
      BY <2>5, <3>1, AnyIn DEF IsFold
    <3>3. g[s \ {p}] \in Nat /\ f[p] \in Nat
      BY <2>3, <3>2
    <3>4. ASSUME NEW x \in s, x # p PROVE g[s] = f[x] + g[s \ {x}]
      <4> DEFINE both == s \ {p, x}
      <4>1. (s \ {p}) \ {x} = both /\ (s \ {x}) \ {p} = both /\ x \in s \ {p} /\ p \in s \ {x}
        BY <3>2, <3>4
      <4> HIDE DEF both
      <4>2. g[s \ {p}] = f[x] + g[both]
        BY <2>3, <3>2, <4>1
      <4>3. g[s \ {x}] = f[p] + g[both]
        BY <2>3, <4>1
      <4>4. g[both] \in Nat
        <5>2. both \in SUBSET S
          BY DEF both
        <5>3. PICK t : t = s \ {p}
          OBVIOUS
        <5>4. t \in SUBSET S /\ Cardinality(t) = Cardinality(s) - 1 /\ Cardinality(s) \in Nat
          BY <3>2, <5>3, Smaller
        <5>5. both = t \ {x} /\ x \in t
          BY <4>1, <5>3
        <5>6. Cardinality(both) = Cardinality(t) - 1
          BY <5>4, <5>5, Smaller
        <5>7. Cardinality(both) < n
          BY <2>1, <5>4, <5>6
        <5> QED
          BY <2>2, <5>2, <5>7 DEF B
      <4>5. f[x] \in Nat
        OBVIOUS
      <4> QED
        BY <3>2, <3>3, <4>2, <4>3, <4>4, <4>5
    <3>5. g[s] \in Nat
      BY <3>2, <3>3
    <3>6. \A x \in s : g[s] = f[x] + g[s \ {x}]
      BY <3>2, <3>4, Zenon
    <3> QED
      BY <3>5, <3>6
  <2> QED
    BY <2>4, <2>5
<1>2. B \in SUBSET Nat
  BY Smaller
<1> HIDE DEF B
<1>3. B = {}
  BY <1>1, <1>2, NatLeast
<1> QED
  BY <1>3 DEF B

LEMMA TotalOfFold ==
  ASSUME NEW S, IsFiniteSet(S), NEW f
  PROVE  \E g : IsFold(g, f, S) /\ \A t \in SUBSET S : Total(f, t) = g[t]
<1>1. PICK g : IsFold(g, f, S)
  BY FoldExists
<1>2. ASSUME NEW t \in SUBSET S PROVE Total(f, t) = g[t]
  <2>1. IsFiniteSet(t)
    BY FS_Subset
  <2>2. PICK h : h = CHOOSE k : IsFold(k, f, t)
    OBVIOUS
  <2>3. \E k : IsFold(k, f, t)
    BY <2>1, FoldExists
  <2>4. IsFold(h, f, t)
    BY <2>2, <2>3
  <2>5. g[t] = h[t]
    BY <1>1, <2>4, FoldsAgree
  <2>6. Total(f, t) = h[t]
    BY <2>2, TotalIsFold
  <2> QED
    BY <2>5, <2>6
<1> QED
  BY <1>1, <1>2

LEMMA TotalOfNone == ASSUME NEW f PROVE Total(f, {}) = 0
<1>1. PICK g : IsFold(g, f, {}) /\ \A t \in SUBSET {} : Total(f, t) = g[t]
  BY TotalOfFold, FS_EmptySet
<1>2. {} \in SUBSET {}
  OBVIOUS
<1>3. g[{}] = 0
  BY <1>1, <1>2 DEF IsFold
<1> QED
  BY <1>1, <1>2, <1>3

LEMMA TotalRemoves ==
  ASSUME NEW S, IsFiniteSet(S), NEW f, \A x \in S : f[x] \in Nat
  PROVE  Total(f, S) \in Nat /\ \A x \in S : Total(f, S) = f[x] + Total(f, S \ {x})
<1>1. PICK g : IsFold(g, f, S) /\ \A t \in SUBSET S : Total(f, t) = g[t]
  BY TotalOfFold
<1>2. S \in SUBSET S /\ \A x \in S : S \ {x} \in SUBSET S
  OBVIOUS
<1>3. g[S] \in Nat /\ \A x \in S : g[S] = f[x] + g[S \ {x}]
  BY <1>1, <1>2, FoldRemoves
<1> QED
  BY <1>1, <1>2, <1>3

(* A part sums to no more than the whole. *)
LEMMA TotalOfPart ==
  ASSUME NEW S, IsFiniteSet(S), NEW f, \A x \in S : f[x] \in Nat, NEW T \in SUBSET S
  PROVE  Total(f, T) <= Total(f, S)
<1> DEFINE B == {Cardinality(u) : u \in {v \in SUBSET S : T \subseteq v /\ ~(Total(f, T) <= Total(f, v))}}
<1>0. ASSUME NEW v \in SUBSET S
      PROVE  Total(f, v) \in Nat /\ \A x \in v : Total(f, v) = f[x] + Total(f, v \ {x})
  <2>1. IsFiniteSet(v) /\ \A x \in v : f[x] \in Nat
    BY FS_Subset
  <2> QED
    BY <2>1, TotalRemoves
<1>1. ASSUME NEW n \in B PROVE \E m \in B : m < n
  <2>1. PICK v \in SUBSET S : T \subseteq v /\ ~(Total(f, T) <= Total(f, v)) /\ n = Cardinality(v)
    OBVIOUS
  <2>2. T # v
    BY <1>0, <2>1
  <2>3. PICK x \in v : x \notin T
    BY <2>1, <2>2
  <2>4. PICK u : u = v \ {x}
    OBVIOUS
  <2>5. u \in SUBSET S /\ T \subseteq u /\ Cardinality(u) = n - 1 /\ n \in Nat
    BY <2>1, <2>3, <2>4, Smaller
  <2>6. Total(f, v) = f[x] + Total(f, u) /\ Total(f, u) \in Nat /\ Total(f, T) \in Nat /\ f[x] \in Nat
    BY <1>0, <2>4, <2>5
  <2>7. ~(Total(f, T) <= Total(f, u))
    BY <2>1, <2>6
  <2>8. Cardinality(u) \in B
    BY <2>5, <2>7
  <2>9. Cardinality(u) < n
    BY <2>5
  <2> HIDE DEF B
  <2> QED
    BY <2>8, <2>9
<1>2. B \in SUBSET Nat
  BY Smaller
<1>3. B = {}
  <2> HIDE DEF B
  <2> QED
    BY <1>1, <1>2, NatLeast
<1>4. Cardinality(S) \notin B
  BY <1>3
<1> QED
  BY <1>4

(* A finite set of numbers has a greatest. *)
LEMMA NatMax ==
  ASSUME NEW S \in SUBSET Nat, IsFiniteSet(S), S # {}
  PROVE  \E x \in S : \A y \in S : y <= x
<1> DEFINE B == {Cardinality(u) : u \in {v \in SUBSET S : v # {} /\ ~ \E x \in v : \A y \in v : y <= x}}
<1>1. ASSUME NEW n \in B PROVE \E m \in B : m < n
  <2>1. PICK v \in SUBSET S : v # {} /\ (~ \E x \in v : \A y \in v : y <= x) /\ n = Cardinality(v)
    OBVIOUS
  <2>2. PICK x \in v : TRUE
    BY <2>1
  <2>3. PICK u : u = v \ {x}
    OBVIOUS
  <2>4. u \in SUBSET S /\ Cardinality(u) = n - 1 /\ n \in Nat
    BY <2>1, <2>3, Smaller
  <2>5. u # {}
    BY <2>1, <2>3
  <2>6. ~ \E z \in u : \A y \in u : y <= z
    <3>1. SUFFICES ASSUME NEW z \in u, \A y \in u : y <= z PROVE FALSE
      OBVIOUS
    <3>2. x \in Nat /\ z \in Nat /\ z \in v /\ \A y \in v : y \in Nat
      BY <2>3
    <3>3. CASE x <= z
      <4>1. \A y \in v : y <= z
        BY <2>3, <3>1, <3>3
      <4> QED
        BY <2>1, <3>2, <4>1
    <3>4. CASE z <= x
      <4>1. \A y \in v : y <= x
        BY <2>3, <3>1, <3>2, <3>4
      <4> QED
        BY <2>1, <3>2, <4>1
    <3> QED
      BY <3>2, <3>3, <3>4
  <2>7. Cardinality(u) \in B
    BY <2>4, <2>5, <2>6
  <2>8. Cardinality(u) < n
    BY <2>4
  <2> HIDE DEF B
  <2> QED
    BY <2>7, <2>8
<1>2. B \in SUBSET Nat
  <2>1. \A v \in SUBSET S : Cardinality(v) \in Nat
    BY Smaller
  <2> QED
    BY <2>1
<1>3. B = {}
  <2> HIDE DEF B
  <2> QED
    BY <1>1, <1>2, NatLeast
<1>4. Cardinality(S) \notin B
  BY <1>3
<1> QED
  BY <1>4

-----------------------------------------------------------------------------
(* Draws *)

(* A draw falls on one of the runners that have a weight. *)
LEMMA DrawnAmong ==
  ASSUME NEW weights, NEW target, DOMAIN weights \subseteq Nat, DOMAIN weights # {}
  PROVE  Drawn(weights, target) \in DOMAIN weights
<1> DEFINE upTo(r) == Total(weights, {s \in DOMAIN weights : s <= r})
           within == {r \in DOMAIN weights : target < upTo(r)}
<1>1. Drawn(weights, target) = IF within = {} THEN Min(DOMAIN weights) ELSE Min(within)
  BY DEF Drawn
<1>2. within \subseteq DOMAIN weights
  OBVIOUS
<1> HIDE DEF within
<1>3. CASE within = {}
  BY <1>1, <1>3, NatMin
<1>4. CASE within # {}
  <2>1. Min(within) \in within
    BY <1>2, <1>4, NatMin
  <2> QED
    BY <1>1, <1>2, <1>4, <2>1
<1> QED
  BY <1>3, <1>4

LEMMA WeightsDomain ==
  ASSUME NEW among, NEW cap
  PROVE  DOMAIN Weights(among, cap) = among
BY DEF Weights

(* The shares of the runners, in UID order, lie side by side in the draws:  *)
(* a runner's begins where those before it end, and is as long as its       *)
(* weight.                                                                  *)
LEMMA Shares ==
  ASSUME NEW weights, DOMAIN weights \subseteq Nat, IsFiniteSet(DOMAIN weights),
         \A s \in DOMAIN weights : weights[s] \in Nat,
         NEW r \in DOMAIN weights
  PROVE  LET before == Total(weights, {s \in DOMAIN weights : s < r})
             upTo   == Total(weights, {s \in DOMAIN weights : s <= r})
         IN  /\ before \in Nat
             /\ upTo = before + weights[r]
             /\ upTo <= TotalWeight(weights)
<1> DEFINE D == DOMAIN weights
           Lower == {s \in D : s < r}
           Upto == {s \in D : s <= r}
<1>1. Lower \in SUBSET D /\ Upto \in SUBSET D /\ D \in SUBSET D /\ r \in Upto /\ r \in Nat
  OBVIOUS
<1>2. Upto \ {r} = Lower
  BY <1>1
<1>3. IsFiniteSet(Lower) /\ IsFiniteSet(Upto)
  BY <1>1, FS_Subset
<1>4. /\ \A s \in Lower : weights[s] \in Nat
      /\ \A s \in Upto : weights[s] \in Nat
      /\ weights[r] \in Nat
  BY <1>1
<1>5. Total(weights, Upto) <= Total(weights, D)
  BY <1>1, TotalOfPart
<1> HIDE DEF Lower, Upto, D
<1>6. Total(weights, Lower) \in Nat
  BY <1>3, <1>4, TotalRemoves
<1>7. Total(weights, Upto) = weights[r] + Total(weights, Upto \ {r})
  BY <1>1, <1>3, <1>4, TotalRemoves
<1>8. Total(weights, Upto) = Total(weights, Lower) + weights[r]
  <2>1. Total(weights, Upto) = weights[r] + Total(weights, Lower)
    BY <1>2, <1>7, Zenon
  <2> QED
    BY <1>4, <1>6, <2>1
<1> QED
  BY <1>5, <1>6, <1>8 DEF TotalWeight, D, Lower, Upto

(* A draw is for the runner whose share it falls in. *)
LEMMA DrawnByShare ==
  ASSUME NEW weights, DOMAIN weights \subseteq Nat, IsFiniteSet(DOMAIN weights),
         \A s \in DOMAIN weights : weights[s] \in Nat,
         NEW r \in DOMAIN weights, NEW target \in Nat, target < TotalWeight(weights)
  PROVE  LET before == Total(weights, {s \in DOMAIN weights : s < r})
         IN  Drawn(weights, target) = r <=> before <= target /\ target < before + weights[r]
<1> DEFINE D == DOMAIN weights
           Before(q) == Total(weights, {s \in D : s < q})
           UpTo(q) == Total(weights, {s \in D : s <= q})
           within == {q \in D : target < UpTo(q)}
<1>1. Drawn(weights, target) = IF within = {} THEN Min(D) ELSE Min(within)
  BY DEF Drawn
<1>2. ASSUME NEW q \in D
      PROVE  /\ Before(q) \in Nat /\ weights[q] \in Nat /\ q \in Nat
             /\ UpTo(q) = Before(q) + weights[q]
  BY Shares
<1>3. ASSUME NEW q \in D, NEW s \in D, s < q PROVE UpTo(s) <= Before(q)
  <2>1. PICK S : S = {d \in D : d < q}
    OBVIOUS
  <2>2. PICK T : T = {d \in D : d <= s}
    OBVIOUS
  <2>3. \A d \in D : d \in Nat
    OBVIOUS
  <2>4. T \in SUBSET S
    BY <1>3, <2>1, <2>2, <2>3
  <2>5. IsFiniteSet(S) /\ \A d \in S : weights[d] \in Nat
    BY <2>1, FS_Subset
  <2>6. Total(weights, T) <= Total(weights, S)
    BY <2>4, <2>5, TotalOfPart
  <2> QED
    BY <2>1, <2>2, <2>6
<1>4. ASSUME NEW S \in SUBSET D, S # {}, \A q \in S, s \in D : s < q => s \in S
      PROVE  \E q \in S : Total(weights, S) = UpTo(q)
  <2>1. S \in SUBSET Nat /\ IsFiniteSet(S)
    BY FS_Subset
  <2>2. PICK q \in S : \A s \in S : s <= q
    BY <1>4, <2>1, NatMax
  <2>3. \A s \in D : s \in Nat /\ q \in Nat
    BY <2>1
  <2>4. \A s \in D : s <= q => s \in S
    BY <1>4, <2>3
  <2>5. S = {s \in D : s <= q}
    BY <2>2, <2>4
  <2> QED
    BY <2>5
<1>5. PICK m \in D : TotalWeight(weights) = UpTo(m)
  BY <1>4 DEF TotalWeight
<1>6. within # {} /\ within \in SUBSET Nat /\ within \subseteq D
  BY <1>5
<1>7. Min(within) \in within /\ \A q \in within : Min(within) <= q
  <2> HIDE DEF within
  <2> QED
    BY <1>6, NatMin
<1>8. PICK d \in within : Drawn(weights, target) = d /\ \A q \in within : d <= q
  <2> HIDE DEF within
  <2> QED
    BY <1>1, <1>6, <1>7
<1>9. ASSUME d = r PROVE Before(r) <= target /\ target < Before(r) + weights[r]
  <2>1. target < UpTo(r)
    BY <1>9
  <2>2. \A s \in D : s < r => ~(target < UpTo(s))
    <3>1. SUFFICES ASSUME NEW s \in D, s < r, target < UpTo(s) PROVE FALSE
      OBVIOUS
    <3>2. s \in within /\ s \in Nat /\ r \in Nat
      BY <3>1
    <3>3. r <= s
      BY <1>8, <1>9, <3>2
    <3> QED
      BY <3>1, <3>2, <3>3
  <2>3. PICK S : S = {s \in D : s < r}
    OBVIOUS
  <2>4. CASE S = {}
    <3>1. Before(r) = 0
      BY <2>3, <2>4, TotalOfNone
    <3> QED
      BY <1>2, <2>1, <3>1
  <2>5. CASE S # {}
    <3>1. \A q \in S, s \in D : s < q => s \in S
      BY <2>3
    <3>2. PICK q \in S : Total(weights, S) = UpTo(q)
      BY <1>4, <2>3, <2>5, <3>1
    <3>3. q \in D /\ q < r /\ Before(r) = UpTo(q)
      BY <2>3, <3>2
    <3>4. ~(target < UpTo(q)) /\ UpTo(q) \in Nat
      BY <1>2, <2>2, <3>3
    <3> HIDE DEF Before, UpTo
    <3> QED
      BY <1>2, <2>1, <3>3, <3>4
  <2> QED
    BY <2>4, <2>5
<1>10. ASSUME Before(r) <= target, target < Before(r) + weights[r] PROVE d = r
  <2>1. r \in within
    BY <1>2, <1>10
  <2>2. d \in D /\ target < UpTo(d) /\ d <= r /\ d \in Nat /\ r \in Nat
    BY <1>8, <2>1
  <2>3. ~(d < r)
    <3>1. SUFFICES ASSUME d < r PROVE FALSE
      OBVIOUS
    <3> HIDE DEF UpTo, Before, D
    <3>2. UpTo(d) <= Before(r)
      BY <1>3, <2>2, <3>1 DEF D
    <3>3. Before(r) \in Nat /\ Before(d) \in Nat /\ weights[d] \in Nat
      BY <1>2, <2>2 DEF D
    <3>4. UpTo(d) = Before(d) + weights[d]
      BY <1>2, <2>2
    <3> QED
      BY <1>10, <2>2, <3>2, <3>3, <3>4
  <2> QED
    BY <2>2, <2>3
<1> HIDE DEF within
<1> QED
  BY <1>8, <1>9, <1>10

(* The weights of any set of runners are numbers. *)
LEMMA WeightsAreNumbers ==
  ASSUME NEW among, NEW cap,
         \A r \in among : cap[r].online \in Nat /\ cap[r].registered \in Nat
  PROVE  \A r \in among : Weights(among, cap)[r] \in Nat
BY DEF Weights

(* Every runner is drawn for exactly as often as its weight. *)
LEMMA DrawsInProportion ==
  ASSUME NEW weights, DOMAIN weights \subseteq Nat, IsFiniteSet(DOMAIN weights),
         \A s \in DOMAIN weights : weights[s] \in Nat,
         NEW r \in DOMAIN weights
  PROVE  Cardinality({target \in 0 .. TotalWeight(weights) - 1 : Drawn(weights, target) = r})
           = weights[r]
<1>1. PICK before : before = Total(weights, {s \in DOMAIN weights : s < r})
  OBVIOUS
<1>2. PICK total : total = TotalWeight(weights)
  OBVIOUS
<1>3. /\ before \in Nat /\ weights[r] \in Nat /\ before + weights[r] <= total
  BY <1>1, <1>2, Shares
<1>4. total \in Nat
  BY <1>2, TotalRemoves DEF TotalWeight
<1>5. ASSUME NEW target \in 0 .. total - 1
      PROVE  Drawn(weights, target) = r <=> target \in before .. before + weights[r] - 1
  <2>1. target \in Nat /\ target < total
    BY <1>4
  <2>2. Drawn(weights, target) = r <=> before <= target /\ target < before + weights[r]
    BY <1>1, <1>2, <2>1, DrawnByShare
  <2> QED
    BY <1>3, <2>1, <2>2
<1>6. before .. before + weights[r] - 1 \subseteq 0 .. total - 1
  BY <1>3, <1>4
<1>7. {target \in 0 .. total - 1 : Drawn(weights, target) = r} = before .. before + weights[r] - 1
  BY <1>5, <1>6
<1>8. Cardinality(before .. before + weights[r] - 1) = weights[r]
  <2>1. PICK b \in Int : b = before + weights[r] - 1
    BY <1>3
  <2>2. Cardinality(before .. b) = IF before > b THEN 0 ELSE b - before + 1
    BY <1>3, FS_Interval
  <2> QED
    BY <1>3, <2>1, <2>2
<1> QED
  BY <1>2, <1>7, <1>8

(* selectRunner chooses one of the runners it was given. *)
LEMMA SelectedAmong ==
  ASSUME NEW among \in SUBSET Runners, NEW cap, among # {}
  PROVE  \A r \in Selected(among, cap) : r \in among
<1>1. CASE BySpare(among, cap) # {}
  BY <1>1 DEF Selected, BySpare
<1>2. CASE BySpare(among, cap) = {}
  <2> DEFINE weights == Weights(among, cap)
  <2>1. \A target : Drawn(weights, target) \in among
    BY DrawnAmong, WeightsDomain, PlacementAssumption
  <2>2. Selected(among, cap) = {Drawn(weights, target) : target \in 0 .. TotalWeight(weights) - 1}
    BY <1>2 DEF Selected
  <2> HIDE DEF weights
  <2> QED
    BY <2>1, <2>2
<1> QED
  BY <1>1, <1>2

(* Of two runners with the same room, the one with fewer workers is under   *)
(* less pressure.                                                           *)
LEMMA PressureByOnline ==
  ASSUME NEW a \in Nat, NEW b \in Nat, NEW s \in Int, s > 0
  PROVE  (a - s) * b < (b - s) * a <=> a < b
<1>1. (a - s) * b = a * b - s * b /\ (b - s) * a = a * b - s * a
  OBVIOUS
<1>2. s * a < s * b <=> a < b
  OBVIOUS
<1>3. a * b \in Int /\ s * a \in Int /\ s * b \in Int
  OBVIOUS
<1> QED
  BY <1>1, <1>2, <1>3

(* The ranking by room, pressure and UID has a first: if any runner has     *)
(* room, one is chosen by room.                                             *)
LEMMA BestExists ==
  ASSUME NEW among \in SUBSET Runners, NEW cap, NEW n \in Nat,
         \A r \in among : cap[r].online \in 0 .. n /\ cap[r].committed \in Nat,
         NEW some \in among, Spare(cap[some]) > 0
  PROVE  BySpare(among, cap) # {}
<1> DEFINE T == {r \in among : Spare(cap[r]) > 0}
           S1 == {n - Spare(cap[r]) : r \in T}
           T1 == {r \in T : n - Spare(cap[r]) = Min(S1)}
           S2 == {cap[r].online : r \in T1}
           T2 == {r \in T1 : cap[r].online = Min(S2)}
<1>0. \A r \in among :
        /\ Spare(cap[r]) \in Int /\ Spare(cap[r]) = cap[r].online - cap[r].committed
        /\ cap[r].online \in Nat /\ cap[r].committed \in Nat /\ r \in Nat
        /\ n - Spare(cap[r]) \in Nat
  BY PlacementAssumption DEF Spare
<1>1. S1 \in SUBSET Nat /\ S1 # {}
  BY <1>0
<1>2. Min(S1) \in S1 /\ \A y \in S1 : Min(S1) <= y
  BY <1>1, NatMin
<1>3. T1 # {}
  BY <1>2
<1>4. ASSUME NEW r \in T1, NEW s \in T PROVE Spare(cap[s]) <= Spare(cap[r])
  <2>1. n - Spare(cap[r]) = Min(S1) /\ n - Spare(cap[s]) \in S1
    OBVIOUS
  <2>2. n - Spare(cap[r]) <= n - Spare(cap[s])
    BY <2>1, <1>2
  <2>3. Spare(cap[r]) \in Int /\ Spare(cap[s]) \in Int
    BY <1>0
  <2> HIDE DEF S1
  <2> QED
    BY <2>2, <2>3
<1> HIDE DEF S1
<1>5. S2 \in SUBSET Nat /\ S2 # {}
  BY <1>0, <1>3
<1>6. Min(S2) \in S2 /\ \A y \in S2 : Min(S2) <= y
  BY <1>5, NatMin
<1>7. T2 # {}
  BY <1>6
<1>8. \A r \in T2, s \in T1 : cap[r].online <= cap[s].online
  BY <1>6
<1> HIDE DEF S2
<1>9. T2 \in SUBSET Nat
  BY <1>0
<1>10. Min(T2) \in T2 /\ \A y \in T2 : Min(T2) <= y
  BY <1>7, <1>9, NatMin
<1>11. PICK best \in T2 : \A y \in T2 : best <= y
  BY <1>10
<1>12. best \in T1 /\ best \in T /\ best \in among /\ Spare(cap[best]) > 0
  OBVIOUS
<1>13. ASSUME NEW s \in among, Spare(cap[s]) > 0, s # best
       PROVE  Better(best, s, cap)
  <2>1. Spare(cap[s]) <= Spare(cap[best]) /\ s \in T
    BY <1>4, <1>12, <1>13
  <2>2. CASE Spare(cap[s]) # Spare(cap[best])
    <3>1. Spare(cap[s]) \in Int /\ Spare(cap[best]) \in Int
      BY <1>0, <1>12
    <3>2. Spare(cap[best]) > Spare(cap[s])
      BY <2>1, <2>2, <3>1
    <3> QED
      BY <3>2 DEF Better
  <2>3. CASE Spare(cap[s]) = Spare(cap[best])
    <3>1. s \in T1
      BY <2>1, <2>3, <1>12
    <3>2. cap[best].online <= cap[s].online
      BY <3>1, <1>8
    <3> DEFINE a == cap[best].online
               b == cap[s].online
               room == Spare(cap[best])
    <3>3. a \in Nat /\ b \in Nat /\ room \in Int /\ room > 0
      BY <1>0, <1>12
    <3>4. cap[best].committed = a - room /\ cap[s].committed = b - room
      BY <1>0, <1>12, <2>3
    <3>5. LowerPressure(cap[best], cap[s]) <=> (a - room) * b < (b - room) * a
      BY <3>4 DEF LowerPressure
    <3>6. LowerPressure(cap[s], cap[best]) <=> (b - room) * a < (a - room) * b
      BY <3>4 DEF LowerPressure
    <3> HIDE DEF a, b, room
    <3>7. LowerPressure(cap[best], cap[s]) <=> a < b
      BY <3>3, <3>5, PressureByOnline
    <3>8. LowerPressure(cap[s], cap[best]) <=> b < a
      BY <3>3, <3>6, PressureByOnline
    <3>9. CASE a < b
      BY <3>9, <3>7, <2>3 DEF Better
    <3>10. CASE a = b
      <4>1. s \in T2
        BY <3>10, <3>1, <1>12 DEF a, b
      <4>2. best < s
        BY <4>1, <1>11, <1>9, <1>13
      <4> QED
        BY <4>2, <3>10, <3>3, <3>8, <2>3 DEF Better
    <3> QED
      BY <3>2, <3>3, <3>9, <3>10 DEF a, b
  <2> QED
    BY <2>2, <2>3
<1> QED
  BY <1>12, <1>13 DEF BySpare

-----------------------------------------------------------------------------
(* Requests *)

(* A run that is about to be stored *)
Committing ==
  [step : {"commit"}, of : Revision, runner : Runners \cup {NoRunner}, reason : Reasons,
   regime : {"", "sole-candidate", "unmeasured", "spare-capacity", "saturated"},
   among : SUBSET Runners, drift : Nat]

(* What a request holds at each of its steps *)
LEMMA ReqFields ==
  ASSUME NEW q, ReqOK(q)
  PROVE  /\ HoldsRow(q) => q.x \in Resources /\ q.seen \in Row
         /\ q.step \in {"edit", "script"} => q.to \in Contents \cup RunnerSpecs
         /\ HoldsRevision(q) => q.of \in Revision
         /\ q.step \in {"count", "load", "commit"} => q.among \in SUBSET Runners
         /\ q.step \in {"load", "commit"} => q.drift \in Nat
         /\ q.step = "load" => q.found \in [q.among -> [registered : Nat, online : Nat]]
         /\ q.step = "load" => \E among \in SUBSET Runners : q \in Measuring(among)
         /\ q.step = "commit" => q.runner \in Runners \cup {NoRunner} /\ q.reason \in Reasons
         /\ q.step = "commit" => q \in Committing
<1>1. CASE q = Idle
  BY <1>1 DEF Idle, HoldsRow, HoldsRevision
<1>2. CASE q \in [step : {"form"}, x : Resources, seen : Row]
  BY <1>2 DEF HoldsRow, HoldsRevision
<1>3. CASE q \in [step : {"edit", "script"}, x : Resources, seen : Row, to : Contents \cup RunnerSpecs]
  BY <1>3 DEF HoldsRow, HoldsRevision
<1>4. CASE q \in [step : {"place"}, of : Revision]
  BY <1>4 DEF HoldsRow, HoldsRevision
<1>5. CASE q \in [step : {"count"}, of : Revision, among : SUBSET Runners]
  BY <1>5 DEF HoldsRow, HoldsRevision
<1>6. CASE q \in [step : {"commit"}, of : Revision, runner : Runners \cup {NoRunner}, reason : Reasons,
                  regime : {"", "sole-candidate", "unmeasured", "spare-capacity", "saturated"},
                  among : SUBSET Runners, drift : Nat]
  BY <1>6 DEF HoldsRow, HoldsRevision, Committing
<1>7. CASE \E among \in SUBSET Runners : q \in Measuring(among)
  BY <1>7 DEF Measuring, HoldsRow, HoldsRevision
<1> QED
  BY <1>1, <1>2, <1>3, <1>4, <1>5, <1>6, <1>7 DEF ReqOK, Req

LEMMA CommitMakes ==
  ASSUME NEW of \in Revision, NEW runner \in Runners \cup {NoRunner}, NEW reason \in Reasons,
         NEW regime \in {"", "sole-candidate", "unmeasured", "spare-capacity", "saturated"},
         NEW among \in SUBSET Runners, NEW drift \in Nat
  PROVE  ReqOK([step |-> "commit", of |-> of, runner |-> runner, reason |-> reason,
                regime |-> regime, among |-> among, drift |-> drift])
<1> DEFINE q == [step |-> "commit", of |-> of, runner |-> runner, reason |-> reason,
                 regime |-> regime, among |-> among, drift |-> drift]
<1>1. q \in Committing
  BY DEF Committing
<1> HIDE DEF q
<1> QED
  BY <1>1 DEF ReqOK, Req, Committing

(* Drift changes nothing but the count of what has changed. *)
LEMMA DriftKeeps ==
  ASSUME NEW q, ReqOK(q)
  PROVE  /\ ReqOK(Drift(q))
         /\ ReqShape(q) => ReqShape(Drift(q))
         /\ q.step \notin {"load", "commit"} => Drift(q) = q
         /\ Drift(q).step = q.step
         /\ HoldsRevision(q) => Drift(q).of = q.of
         /\ q.step \in {"load", "commit"} => Drift(q).drift = q.drift + 1 /\ Drift(q).among = q.among
         /\ q.step = "load" => Drift(q).found = q.found
         /\ q.step = "commit" =>
              /\ Drift(q).runner = q.runner
              /\ Drift(q).reason = q.reason
              /\ Drift(q).regime = q.regime
<1>1. CASE q.step \notin {"load", "commit"}
  BY <1>1 DEF Drift
<1>2. CASE q.step = "commit"
  <2>1. q \in Committing
    BY <1>2, ReqFields
  <2>2. Drift(q) = [q EXCEPT !.drift = @ + 1]
    BY <1>2 DEF Drift
  <2>3. Drift(q) = [step |-> "commit", of |-> q.of, runner |-> q.runner, reason |-> q.reason,
                    regime |-> q.regime, among |-> q.among, drift |-> q.drift + 1]
    BY <2>1, <2>2 DEF Committing
  <2>4. ReqOK(Drift(q))
    <3>0. /\ q.of \in Revision /\ q.runner \in Runners \cup {NoRunner} /\ q.reason \in Reasons
          /\ q.regime \in {"", "sole-candidate", "unmeasured", "spare-capacity", "saturated"}
          /\ q.among \in SUBSET Runners /\ q.drift \in Nat
      BY <2>1 DEF Committing
    <3>2. q.drift + 1 \in Nat
      BY <1>2, ReqFields
    <3>3. ReqOK([step |-> "commit", of |-> q.of, runner |-> q.runner, reason |-> q.reason,
                 regime |-> q.regime, among |-> q.among, drift |-> q.drift + 1])
      BY <3>0, <3>2, CommitMakes, Zenon
    <3> QED
      BY <2>3, <3>3, Zenon
  <2>5. /\ Drift(q).step = q.step /\ Drift(q).of = q.of /\ Drift(q).drift = q.drift + 1
        /\ Drift(q).among = q.among /\ Drift(q).runner = q.runner
        /\ Drift(q).reason = q.reason /\ Drift(q).regime = q.regime
    BY <1>2, <2>3
  <2> QED
    BY <1>2, <2>4, <2>5 DEF ReqShape
<1>3. CASE q.step = "load"
  <2>1. PICK among \in SUBSET Runners : q \in Measuring(among)
    BY <1>3, ReqFields
  <2>2. Drift(q) = [q EXCEPT !.drift = @ + 1]
    BY <1>3 DEF Drift
  <2>3. Drift(q) \in Measuring(among)
    BY <2>1, <2>2 DEF Measuring
  <2>4. ReqOK(Drift(q))
    BY <2>3 DEF ReqOK
  <2>5. /\ Drift(q).step = q.step /\ Drift(q).of = q.of /\ Drift(q).drift = q.drift + 1
        /\ Drift(q).among = q.among /\ Drift(q).found = q.found
    BY <2>1, <2>2 DEF Measuring
  <2> QED
    BY <1>3, <2>4, <2>5 DEF ReqShape
<1> QED
  BY <1>1, <1>2, <1>3

-----------------------------------------------------------------------------
(* What any step may do to rows, requests and runs *)

(* As long as no save has overwritten a write it had not seen, a row is     *)
(* created, moved on or deleted, and is live for the last two.              *)
RowMoves(x) ==
  \/ rows'[x] = rows[x]
  \/ rows[x].state = "absent" /\ rows'[x].state = "live"
  \/ /\ rows[x].state = "live"
     /\ rows'[x].state = "live"
     /\ rows'[x].version = rows[x].version + 1
  \/ /\ rows[x].state = "live"
     /\ rows'[x].state = "deleted"
     /\ rows'[x].version = rows[x].version
     /\ rows'[x].spec = rows[x].spec

RowFacts ==
  /\ rows' \in [Resources -> Row]
  /\ raced' \in BOOLEAN
  /\ rows'[Scenario].state # "absent"
  /\ rows'[Scenario].spec \in Contents
  /\ ~raced' => ~raced /\ \A x \in Resources : RowMoves(x)

(* A row or a revision that a request holds it held before, or reads now. *)
ReqFact(q, p) ==
  /\ ReqOK(p)
  /\ ReqShape(p)
  /\ HoldsRow(p) =>
       \/ HoldsRow(q) /\ p.x = q.x /\ p.seen = q.seen
       \/ rows[p.x].state = "live" /\ p.seen = rows[p.x] /\ rows' = rows
  /\ HoldsRevision(p) => (HoldsRevision(q) /\ p.of = q.of) \/ p.of = Stored

ReqFacts ==
  /\ reqs' = [c \in Clients |-> reqs'[c]]
  /\ \A c \in Clients : ReqFact(reqs[c], reqs'[c])

RunFacts ==
  /\ runs' \in [Runs -> Run]
  /\ \A u \in Runs : runs'[u] # AbsentRun => runs'[u].of \in Held

RestFacts == workers' \in [Workers -> Presence] /\ events' \in 0 .. MaxEvents

(* The facts give the new state its types, *)
LEMMA TypesStep ==
  ASSUME RowFacts, ReqFacts, RunFacts, RestFacts
  PROVE  TypeOK' /\ Shapes'
BY DEF RowFacts, ReqFacts, ReqFact, RunFacts, RestFacts, TypeOK, Shapes, ReqOK

(* keep a version from naming two contents, *)
LEMMA NamedStep ==
  ASSUME IInv, RowFacts, ReqFacts, RunFacts
  PROVE  RevisionsNamed'
<1> SUFFICES ASSUME ~raced' PROVE Named(Held', Stored')
  BY DEF RevisionsNamed
<1>1. Named(Held, Stored)
  BY DEF IInv, RevisionsNamed, RowFacts
<1>2. RowMoves(Scenario) /\ rows[Scenario].state # "absent"
  BY DEF RowFacts, Resources, IInv, Shapes
<1>3. rows[Scenario].version \in Nat /\ rows'[Scenario].version \in Nat
  BY DEF RowFacts, IInv, TypeOK, Resources, Row
<1>4. ASSUME NEW h \in Held' PROVE h \in Held \cup {Stored}
  <2>1. CASE \E u \in Runs : runs'[u] # AbsentRun /\ h = runs'[u].of
    BY <2>1 DEF RunFacts
  <2>2. CASE \E c \in Clients : HoldsRevision(reqs'[c]) /\ h = reqs'[c].of
    BY <2>2 DEF ReqFacts, ReqFact, Held
  <2> QED
    BY <2>1, <2>2, <1>4 DEF Held, HoldsRevision
<1>5. ASSUME NEW h \in Held \cup {Stored} PROVE h.version \in Nat
  <2>1. CASE \E u \in Runs : runs[u] # AbsentRun /\ h = runs[u].of
    BY <2>1 DEF IInv, TypeOK, Run, Revision
  <2>2. CASE \E c \in Clients : HoldsRevision(reqs[c]) /\ h = reqs[c].of
    BY <2>2, ReqFields DEF IInv, TypeOK, ReqOK, Revision
  <2>3. CASE h = Stored
    BY <2>3, <1>3 DEF Stored
  <2> QED
    BY <2>1, <2>2, <2>3 DEF Held
<1>6. Stored.version = rows[Scenario].version /\ Stored.spec = rows[Scenario].spec
  BY DEF Stored
<1>7. Stored'.version = rows'[Scenario].version /\ Stored'.spec = rows'[Scenario].spec
  BY DEF Stored
<1> HIDE DEF Held, Stored
<1>8. CASE Stored'.version = Stored.version /\ Stored'.spec = Stored.spec
  BY <1>1, <1>3, <1>4, <1>5, <1>6, <1>7, <1>8 DEF Named
<1>9. CASE Stored'.version = Stored.version + 1
  BY <1>1, <1>3, <1>4, <1>5, <1>6, <1>7, <1>9 DEF Named
<1> QED
  BY <1>2, <1>6, <1>7, <1>8, <1>9 DEF RowMoves

(* and keep forms true to rows that have not moved. *)
LEMMA SeenStep ==
  ASSUME IInv, RowFacts, ReqFacts
  PROVE  RowsSeen'
<1> SUFFICES ASSUME ~raced', NEW c \in Clients, HoldsRow(reqs'[c])
             PROVE  SeenOK(reqs'[c].seen, rows'[reqs'[c].x])
  BY DEF RowsSeen, HoldsRow
<1>1. PICK x : x = reqs'[c].x
  OBVIOUS
<1>2. PICK seen : seen = reqs'[c].seen
  OBVIOUS
<1>3. x \in Resources /\ seen \in Row
  BY <1>1, <1>2, ReqFields DEF ReqFacts, ReqFact
<1>4. rows[x] \in Row /\ rows'[x] \in Row
  BY <1>3 DEF RowFacts, IInv, TypeOK
<1>5. SeenOK(seen, rows[x])
  <2>1. CASE HoldsRow(reqs[c]) /\ x = reqs[c].x /\ seen = reqs[c].seen
    BY <2>1 DEF IInv, RowsSeen, RowFacts
  <2>2. CASE rows[x].state = "live" /\ seen = rows[x]
    BY <2>2, <1>4 DEF SeenOK, Row
  <2> QED
    BY <1>1, <1>2, <2>1, <2>2 DEF ReqFacts, ReqFact
<1>6. RowMoves(x)
  BY <1>3 DEF RowFacts
<1>7. seen.version \in Nat /\ rows[x].version \in Nat /\ rows'[x].version \in Nat
  BY <1>3, <1>4 DEF Row
<1> QED
  BY <1>1, <1>2, <1>5, <1>6, <1>7 DEF SeenOK, RowMoves

-----------------------------------------------------------------------------
(* The facts of a step that leaves a part alone *)

LEMMA SameRows ==
  ASSUME IInv, UNCHANGED <<rows, raced>>
  PROVE  RowFacts
BY DEF IInv, TypeOK, Shapes, RowFacts, RowMoves

LEMMA SameRuns ==
  ASSUME IInv, UNCHANGED runs
  PROVE  RunFacts
<1>1. \A u \in Runs : runs[u] # AbsentRun => runs[u].of \in Held
  BY DEF Held
<1> QED
  BY <1>1 DEF IInv, TypeOK, RunFacts

LEMMA SameRest ==
  ASSUME IInv, UNCHANGED workers, Counted \/ UNCHANGED events
  PROVE  RestFacts
BY PlacementAssumption DEF IInv, TypeOK, RestFacts, Counted

LEMMA SameReq ==
  ASSUME IInv, NEW c \in Clients, NEW p \in {reqs[c], Drift(reqs[c])}
  PROVE  ReqFact(reqs[c], p)
<1>1. ReqOK(reqs[c]) /\ ReqShape(reqs[c])
  BY DEF IInv, TypeOK, Shapes, ReqOK
<1>2. CASE p = reqs[c]
  BY <1>1, <1>2 DEF ReqFact
<1>3. CASE p = Drift(reqs[c])
  <2>1. ReqOK(p) /\ ReqShape(p) /\ p.step = reqs[c].step
    BY <1>1, <1>3, DriftKeeps
  <2>2. HoldsRow(p) => p = reqs[c]
    BY <1>1, <1>3, <2>1, DriftKeeps DEF HoldsRow
  <2>3. HoldsRevision(p) => HoldsRevision(reqs[c]) /\ p.of = reqs[c].of
    BY <1>1, <1>3, <2>1, DriftKeeps DEF HoldsRevision
  <2> QED
    BY <2>1, <2>2, <2>3 DEF ReqFact
<1> QED
  BY <1>2, <1>3

(* One client moves, and the others drift or stay. *)
LEMMA NowFacts ==
  ASSUME IInv, NEW c \in Clients, NEW q, Now(c, q) \/ NowDrifting(c, q), ReqFact(reqs[c], q)
  PROVE  ReqFacts /\ reqs'[c] = q /\ \A d \in Clients \ {c} : reqs'[d] \in {reqs[d], Drift(reqs[d])}
<1>1. reqs = [d \in Clients |-> reqs[d]]
  BY DEF IInv, Shapes
<1>2. reqs' = [d \in Clients |-> reqs'[d]] /\ reqs'[c] = q
  BY <1>1 DEF Now, NowDrifting
<1>3. ASSUME NEW d \in Clients, d # c PROVE reqs'[d] \in {reqs[d], Drift(reqs[d])}
  BY <1>1, <1>3 DEF Now, NowDrifting
<1>4. \A d \in Clients : ReqFact(reqs[d], reqs'[d])
  BY <1>2, <1>3, SameReq
<1> QED
  BY <1>2, <1>3, <1>4 DEF ReqFacts

LEMMA DriftFacts ==
  ASSUME IInv, reqs' = [c \in Clients |-> Drift(reqs[c])]
  PROVE  ReqFacts
<1>1. \A c \in Clients : reqs'[c] = Drift(reqs[c])
  OBVIOUS
<1> QED
  BY <1>1, SameReq DEF ReqFacts

LEMMA SameReqs ==
  ASSUME IInv, UNCHANGED reqs
  PROVE  ReqFacts
BY SameReq DEF ReqFacts, IInv, Shapes

LEMMA IdleFact ==
  ASSUME NEW q
  PROVE  ReqFact(q, Idle)
BY DEF ReqFact, ReqOK, Req, ReqShape, Idle, HoldsRow, HoldsRevision

(* A request that goes on, with the revision it holds *)
LEMMA GoesOn ==
  ASSUME IInv, NEW c \in Clients, NEW q, HoldsRevision(reqs[c]), HoldsRevision(q),
         q.of = reqs[c].of, ReqOK(q), ReqShape(q)
  PROVE  ReqFact(reqs[c], q)
BY DEF ReqFact, HoldsRow, HoldsRevision

(* and one whose run is decided *)
LEMMA DecidedFact ==
  ASSUME IInv, NEW c \in Clients, HoldsRevision(reqs[c]),
         NEW runner \in Runners \cup {NoRunner}, NEW reason \in Reasons,
         runner = NoRunner <=> reason # "",
         NEW regime \in {"", "sole-candidate", "unmeasured", "spare-capacity", "saturated"},
         NEW among \in SUBSET Runners, NEW drift \in Nat
  PROVE  ReqFact(reqs[c], [step |-> "commit", of |-> reqs[c].of, runner |-> runner, reason |-> reason,
                           regime |-> regime, among |-> among, drift |-> drift])
<1>1. reqs[c].of \in Revision
  BY ReqFields DEF IInv, TypeOK, ReqOK
<1>2. PICK of \in Revision : of = reqs[c].of
  BY <1>1
<1> DEFINE q == [step |-> "commit", of |-> of, runner |-> runner, reason |-> reason,
                 regime |-> regime, among |-> among, drift |-> drift]
<1>3. ReqOK(q)
  BY CommitMakes
<1>4. HoldsRevision(q) /\ q.of = of /\ ReqShape(q)
  BY DEF HoldsRevision, ReqShape
<1> HIDE DEF q
<1>5. ReqFact(reqs[c], q)
  BY <1>2, <1>3, <1>4, GoesOn
<1> QED
  BY <1>2, <1>5 DEF q

-----------------------------------------------------------------------------
(* Steps of one client that change nothing stored *)

(* The room there is stays as it is. *)
LEMMA RoomStays ==
  ASSUME IInv, NEW c \in Clients, NEW q, Now(c, q), Spreads(q, OnlineNow, RoomNow),
         UNCHANGED <<workers, runs>>
  PROVE  AllSpread'
<1>1. OnlineNow' = OnlineNow /\ RoomNow' = RoomNow
  BY DEF OnlineNow, RoomNow, OnlineAt, InFlightAt
<1>2. \A d \in Clients : reqs'[d] = IF d = c THEN q ELSE reqs[d]
  BY DEF Now, IInv, Shapes
<1>3. \A d \in Clients : Spreads(reqs[d], OnlineNow, RoomNow)
  BY DEF IInv, AllSpread
<1>4. \A d \in Clients : Spreads(reqs'[d], OnlineNow, RoomNow)
  BY <1>2, <1>3
<1> QED
  BY <1>1, <1>4 DEF AllSpread

LEMMA FactsKeep ==
  ASSUME IInv, RowFacts, ReqFacts, RunFacts, RestFacts, AllSpread'
  PROVE  IInv'
BY TypesStep, NamedStep, SeenStep DEF IInv

LEMMA StillStep ==
  ASSUME IInv, NEW c \in Clients, NEW q, Now(c, q), ReqFact(reqs[c], q),
         Spreads(q, OnlineNow, RoomNow),
         UNCHANGED <<rows, workers, runs, raced>>, Counted \/ UNCHANGED events
  PROVE  IInv'
<1>1. RowFacts /\ RunFacts /\ RestFacts
  BY SameRows, SameRuns, SameRest
<1>2. ReqFacts
  BY NowFacts
<1>3. AllSpread'
  BY RoomStays
<1> QED
  BY <1>1, <1>2, <1>3, FactsKeep

LEMMA ReadScenarioKeeps ==
  ASSUME IInv, NEW c \in Clients, ReadScenario(c)
  PROVE  IInv'
<1> DEFINE q == [step |-> "place",
                 of |-> [version |-> rows[Scenario].version, spec |-> rows[Scenario].spec]]
<1>1. q.of = Stored /\ q.step = "place"
  BY DEF Stored
<1>2. Stored \in Revision
  BY DEF IInv, TypeOK, Shapes, Row, Resources, Stored, Revision
<1>3. ReqOK(q)
  BY <1>2 DEF ReqOK, Req, Stored
<1>4. Now(c, q) /\ UNCHANGED <<rows, workers, runs, raced, events>>
  BY DEF ReadScenario
<1> HIDE DEF q
<1>5. ReqFact(reqs[c], q)
  BY <1>1, <1>3 DEF ReqFact, ReqShape, HoldsRow
<1>6. Spreads(q, OnlineNow, RoomNow)
  BY <1>1 DEF Spreads
<1> QED
  BY <1>4, <1>5, <1>6, StillStep

(* A decision that names no room promises none. *)
LEMMA DecidedStep ==
  ASSUME IInv, NEW c \in Clients, HoldsRevision(reqs[c]),
         NEW runner \in Runners \cup {NoRunner}, NEW reason \in Reasons,
         runner = NoRunner <=> reason # "",
         NEW regime \in {"", "sole-candidate", "unmeasured"},
         NEW among \in SUBSET Runners,
         Now(c, [step |-> "commit", of |-> reqs[c].of, runner |-> runner, reason |-> reason,
                 regime |-> regime, among |-> among, drift |-> 0]),
         UNCHANGED <<rows, workers, runs, raced>>, Counted \/ UNCHANGED events
  PROVE  IInv'
<1> DEFINE q == [step |-> "commit", of |-> reqs[c].of, runner |-> runner, reason |-> reason,
                 regime |-> regime, among |-> among, drift |-> 0]
<1>1. ReqFact(reqs[c], q)
  BY DecidedFact
<1>2. Spreads(q, OnlineNow, RoomNow)
  BY DEF Spreads, SpreadOK
<1>3. Now(c, q)
  OBVIOUS
<1> HIDE DEF q
<1> QED
  BY <1>1, <1>2, <1>3, StillStep

LEMMA ListRunnersKeeps ==
  ASSUME IInv, NEW c \in Clients, ListRunners(c)
  PROVE  IInv'
<1> DEFINE of == reqs[c].of
           eligible == Eligible(of.spec.requires)
<1>1. HoldsRevision(reqs[c]) /\ reqs[c].step = "place" /\ of \in Revision
  BY ReqFields DEF ListRunners, HoldsRevision, IInv, TypeOK, ReqOK
<1>2. eligible \in SUBSET Runners /\ eligible \in SUBSET Nat /\ IsFiniteSet(eligible)
  <2>1. eligible \in SUBSET Runners
    BY DEF Eligible, Matching
  <2> QED
    BY <2>1, PlacementAssumption, FS_Subset
<1>3. UNCHANGED <<rows, workers, runs, raced>>
  BY DEF ListRunners
<1>4. ASSUME NEW reason \in {"invalid-requirements", "no-eligible-runner"},
             Now(c, Unplaced(of, reason)), Counted \/ UNCHANGED events
      PROVE  IInv'
  <2>1. Now(c, [step |-> "commit", of |-> reqs[c].of, runner |-> NoRunner, reason |-> reason,
                regime |-> "", among |-> {}, drift |-> 0])
    BY <1>4 DEF Unplaced
  <2>2. reason \in Reasons /\ reason # "" /\ {} \in SUBSET Runners
    BY DEF Reasons
  <2> QED
    BY <1>1, <1>3, <1>4, <2>1, <2>2, DecidedStep
<1>5. ASSUME eligible # {}, Now(c, PlacedOn(of, eligible, Min(eligible), "sole-candidate", 0)),
             UNCHANGED events
      PROVE  IInv'
  <2>1. Min(eligible) \in Runners
    BY <1>2, <1>5, NatMin
  <2>2. PICK r \in Runners : r = Min(eligible)
    BY <2>1
  <2>3. Now(c, [step |-> "commit", of |-> reqs[c].of, runner |-> r, reason |-> "",
                regime |-> "sole-candidate", among |-> eligible, drift |-> 0])
    BY <1>5, <2>2 DEF PlacedOn
  <2>4. "" \in Reasons /\ r # NoRunner
    BY PlacementAssumption DEF Reasons
  <2> HIDE DEF eligible
  <2> QED
    BY <1>1, <1>2, <1>3, <1>5, <2>3, <2>4, DecidedStep
<1>6. ASSUME eligible # {}, Parses(of.spec), Now(c, [step |-> "count", of |-> of, among |-> eligible]),
             UNCHANGED events
      PROVE  IInv'
  <2> DEFINE q == [step |-> "count", of |-> of, among |-> eligible]
  <2> HIDE DEF eligible
  <2>1. ReqOK(q)
    BY <1>1, <1>2 DEF ReqOK, Req
  <2>2. HoldsRevision(q) /\ q.of = reqs[c].of /\ ReqShape(q) /\ Spreads(q, OnlineNow, RoomNow)
    BY <1>6 DEF HoldsRevision, ReqShape, Spreads
  <2>3. Now(c, q)
    BY <1>6
  <2> HIDE DEF q
  <2>4. ReqFact(reqs[c], q)
    BY <1>1, <2>1, <2>2, GoesOn
  <2> QED
    BY <1>3, <1>6, <2>2, <2>3, <2>4, StillStep
<1>7. CASE Counted /\ Now(c, Unplaced(of, "invalid-requirements"))
  BY <1>4, <1>7
<1>8. CASE Now(c, Unplaced(of, "invalid-requirements")) /\ UNCHANGED events
  BY <1>4, <1>8
<1>9. CASE /\ Parses(of.spec)
           /\ Now(c, CASE eligible = {} -> Unplaced(of, "no-eligible-runner")
                       [] Cardinality(eligible) = 1 ->
                            PlacedOn(of, eligible, Min(eligible), "sole-candidate", 0)
                       [] OTHER -> [step |-> "count", of |-> of, among |-> eligible])
           /\ UNCHANGED events
  <2>1. eligible = {} => Cardinality(eligible) # 1
    BY FS_EmptySet
  <2> HIDE DEF eligible
  <2>2. CASE eligible = {}
    BY <1>4, <1>9, <2>1, <2>2
  <2>3. CASE eligible # {} /\ Cardinality(eligible) = 1
    BY <1>5, <1>9, <2>3
  <2>4. CASE eligible # {} /\ Cardinality(eligible) # 1
    BY <1>6, <1>9, <2>4
  <2> QED
    BY <2>2, <2>3, <2>4
<1> QED
  BY <1>7, <1>8, <1>9 DEF ListRunners

(* Workers and runs can be counted. *)
LEMMA Counts ==
  ASSUME NEW r
  PROVE  /\ IsFiniteSet(OnlineAt(r)) /\ IsFiniteSet(InFlightAt(r))
         /\ Cardinality(OnlineAt(r)) \in 0 .. Cardinality(Workers)
         /\ Cardinality(OnlineAt(r)) \in Nat
         /\ Cardinality(InFlightAt(r)) \in Nat
<1>1. OnlineAt(r) \in SUBSET Workers /\ InFlightAt(r) \in SUBSET Runs
  BY DEF OnlineAt, InFlightAt
<1>2. IsFiniteSet(Workers) /\ IsFiniteSet(Runs)
  BY PlacementAssumption
<1>3. Cardinality(Workers) \in Nat
  BY <1>2, FS_CardinalityType
<1> QED
  BY <1>1, <1>2, <1>3, FS_Subset, FS_CardinalityType

(* What the count of workers returns, for one runner *)
LEMMA CapacityCounts ==
  ASSUME NEW r
  PROVE  /\ WorkerCapacity(r) \in [registered : Nat, online : Nat]
         /\ WorkerCapacity(r).online = Cardinality(OnlineAt(r))
<1> DEFINE mine == {w \in Workers : HomeOf[w] = r /\ workers[w] # "gone"}
<1>1. {w \in mine : workers[w] = "online"} = OnlineAt(r)
  BY DEF OnlineAt
<1>2. mine \in SUBSET Workers
  OBVIOUS
<1>3. Cardinality(mine) \in Nat
  BY <1>2, PlacementAssumption, FS_Subset, FS_CardinalityType
<1>4. WorkerCapacity(r) = [registered |-> Cardinality(mine), online |-> Cardinality(OnlineAt(r))]
  BY <1>1 DEF WorkerCapacity
<1> HIDE DEF mine
<1> QED
  BY <1>3, <1>4, Counts

LEMMA CountWorkersKeeps ==
  ASSUME IInv, NEW c \in Clients, CountWorkers(c)
  PROVE  IInv'
<1>1. /\ reqs[c].step = "count" /\ HoldsRevision(reqs[c]) /\ reqs[c].of \in Revision
      /\ reqs[c].among \in SUBSET Runners /\ reqs[c].among # {} /\ Parses(reqs[c].of.spec)
  BY ReqFields DEF CountWorkers, HoldsRevision, IInv, TypeOK, ReqOK, Shapes, ReqShape
<1>2. PICK among \in SUBSET Runners : among = reqs[c].among
  BY <1>1
<1>3. PICK of \in Revision : of = reqs[c].of
  BY <1>1
<1> DEFINE found == [r \in among |-> WorkerCapacity(r)]
           q == [step |-> "load", of |-> of, among |-> among, drift |-> 0, found |-> found]
<1>4. Now(c, q) /\ UNCHANGED <<rows, workers, runs, raced, events>>
  BY <1>2, <1>3 DEF CountWorkers
<1>5. found \in [among -> [registered : Nat, online : Nat]]
  BY CapacityCounts
<1>6. \A r \in among : found[r].online = OnlineNow[r] /\ found[r].online \in 0 .. Cardinality(Workers)
  BY CapacityCounts, Counts DEF OnlineNow
<1>7. \A r \in among : OnlineNow[r] \in Nat
  BY Counts DEF OnlineNow
<1> HIDE DEF found
<1>8. q \in Measuring(among)
  BY <1>5 DEF Measuring
<1>9. ReqOK(q)
  BY <1>8 DEF ReqOK
<1>10. HoldsRevision(q) /\ q.of = reqs[c].of /\ ReqShape(q)
  BY <1>1, <1>2, <1>3 DEF HoldsRevision, ReqShape
<1>11. Spreads(q, OnlineNow, RoomNow)
  BY <1>6, <1>7 DEF Spreads, MeasureOK
<1> HIDE DEF q
<1>12. ReqFact(reqs[c], q)
  BY <1>1, <1>9, <1>10, GoesOn
<1> QED
  BY <1>4, <1>11, <1>12, StillStep

LEMMA CountFailsKeeps ==
  ASSUME IInv, NEW c \in Clients, CountFails(c)
  PROVE  IInv'
<1>1. /\ HoldsRevision(reqs[c]) /\ reqs[c].of \in Revision
      /\ reqs[c].among \in SUBSET Runners /\ reqs[c].among # {}
  BY ReqFields DEF CountFails, HoldsRevision, IInv, TypeOK, ReqOK, Shapes, ReqShape
<1>2. PICK among \in SUBSET Runners : among = reqs[c].among
  BY <1>1
<1>3. PICK r \in Runners : r = Min(among)
  BY <1>1, <1>2, NatMin, PlacementAssumption
<1>4. Now(c, [step |-> "commit", of |-> reqs[c].of, runner |-> r, reason |-> "",
              regime |-> "unmeasured", among |-> among, drift |-> 0])
  BY <1>2, <1>3 DEF CountFails, PlacedOn
<1>5. "" \in Reasons /\ r # NoRunner
  BY PlacementAssumption DEF Reasons
<1>6. UNCHANGED <<rows, workers, runs, raced>> /\ Counted
  BY DEF CountFails
<1> QED
  BY <1>1, <1>4, <1>5, <1>6, DecidedStep

LEMMA CommitFailsKeeps ==
  ASSUME IInv, NEW c \in Clients, CommitFails(c)
  PROVE  IInv'
<1>1. Spreads(Idle, OnlineNow, RoomNow)
  BY DEF Spreads, Idle
<1> QED
  BY <1>1, IdleFact, StillStep DEF CommitFails

(* What a request measured, cap, against the workers online and the room    *)
(* there are                                                                *)
Measures(among, cap, online, room, drift) ==
  /\ \A r \in among :
       /\ cap[r].online \in 0 .. Cardinality(Workers) /\ cap[r].committed \in Nat
       /\ online[r] \in Nat
       /\ room[r] = online[r] - cap[r].committed
       /\ cap[r].online - online[r] <= drift
       /\ online[r] - cap[r].online <= drift
  /\ \A r, s \in among :
       r # s => (cap[r].online - online[r]) + (online[s] - cap[s].online) <= drift

(* The runner chosen has room, and most room, up to what the counts are     *)
(* off by; and where a draw decides, no runner has more room than that.     *)
LEMMA ChoiceSpreads ==
  ASSUME NEW among \in SUBSET Runners, NEW cap, NEW online, NEW room, NEW drift \in Nat,
         Measures(among, cap, online, room, drift)
  PROVE  /\ \A r \in BySpare(among, cap) :
              r \in among /\ room[r] + drift > 0 /\ \A s \in among : room[r] + drift >= room[s]
         /\ BySpare(among, cap) = {} => \A r \in among : room[r] <= drift
<1>0. Cardinality(Workers) \in Nat
  BY PlacementAssumption, FS_CardinalityType
<1>a. PICK n \in Nat : n = Cardinality(Workers)
  BY <1>0
<1>b. \A r \in among :
        /\ cap[r].online \in 0 .. n /\ cap[r].committed \in Nat
        /\ online[r] \in Nat
        /\ room[r] = online[r] - cap[r].committed
        /\ cap[r].online - online[r] <= drift
        /\ online[r] - cap[r].online <= drift
  BY <1>a DEF Measures
<1>c. \A r, s \in among :
        r # s => (cap[r].online - online[r]) + (online[s] - cap[s].online) <= drift
  BY DEF Measures
<1>1. \A r \in among : /\ Spare(cap[r]) = cap[r].online - cap[r].committed
                       /\ cap[r].online \in Nat
  BY <1>b DEF Spare
<1>2. ASSUME NEW r \in BySpare(among, cap)
      PROVE  r \in among /\ room[r] + drift > 0 /\ \A s \in among : room[r] + drift >= room[s]
  <2>1. r \in among /\ Spare(cap[r]) > 0
    BY DEF BySpare
  <2>2. room[r] + drift > 0
    BY <1>1, <1>b, <2>1
  <2>3. ASSUME NEW s \in among PROVE room[r] + drift >= room[s]
    <3>1. CASE s = r
      BY <3>1, <1>b
    <3>2. CASE s # r
      <4>1. Spare(cap[s]) > 0 => Better(r, s, cap)
        BY <3>2 DEF BySpare
      <4>2. Spare(cap[r]) >= Spare(cap[s])
        <5>1. Spare(cap[r]) \in Int /\ Spare(cap[s]) \in Int
          BY <1>1, <1>b, <2>1
        <5>2. CASE Spare(cap[s]) > 0
          BY <5>1, <5>2, <4>1 DEF Better
        <5>3. CASE ~(Spare(cap[s]) > 0)
          BY <5>1, <5>3, <2>1
        <5> QED
          BY <5>2, <5>3
      <4>3. (cap[r].online - online[r]) + (online[s] - cap[s].online) <= drift
        BY <2>1, <3>2, <1>c
      <4> QED
        BY <1>1, <1>b, <2>1, <4>2, <4>3
    <3> QED
      BY <3>1, <3>2
  <2> QED
    BY <2>1, <2>2, <2>3
<1>3. ASSUME BySpare(among, cap) = {}, NEW r \in among PROVE room[r] <= drift
  <2>1. ~(Spare(cap[r]) > 0)
    BY <1>3, <1>b, BestExists
  <2> QED
    BY <1>1, <1>b, <2>1
<1> QED
  BY <1>2, <1>3

LEMMA CountRunsKeeps ==
  ASSUME IInv, NEW c \in Clients, CountRuns(c)
  PROVE  IInv'
<1> DEFINE q == reqs[c]
           cap == Measured(q)
<1>1. q.step = "load" /\ UNCHANGED <<rows, workers, runs, raced, events>>
  BY DEF CountRuns
<1>2. /\ HoldsRevision(q) /\ q.of \in Revision /\ q.among \in SUBSET Runners /\ q.among # {}
      /\ q.drift \in Nat /\ q.found \in [q.among -> [registered : Nat, online : Nat]]
  BY <1>1, ReqFields DEF HoldsRevision, IInv, TypeOK, ReqOK, Shapes, ReqShape
<1>3. MeasureOK(q, OnlineNow)
  BY <1>1 DEF IInv, AllSpread, Spreads
<1>4. PICK among \in SUBSET Runners : among = q.among /\ among # {}
  BY <1>2
<1>5. PICK drift \in Nat : drift = q.drift
  BY <1>2
<1>6. PICK n \in Nat : n = Cardinality(Workers)
  BY PlacementAssumption, FS_CardinalityType
<1>7. PICK r \in Selected(among, cap) :
        Now(c, PlacedOn(q.of, among, r,
                        IF BySpare(among, cap) # {} THEN "spare-capacity" ELSE "saturated", drift))
  BY <1>4, <1>5 DEF CountRuns
<1>8. r \in among
  BY <1>4, SelectedAmong
<1>9. \A s \in among :
        /\ cap[s].online = q.found[s].online
        /\ cap[s].committed = Cardinality(InFlightAt(s))
  BY <1>4 DEF Measured, Committed, InFlightAt
<1>10. \A s \in among :
        /\ OnlineNow[s] \in Nat /\ Cardinality(InFlightAt(s)) \in Nat
        /\ RoomNow[s] = OnlineNow[s] - Cardinality(InFlightAt(s))
  BY Counts DEF OnlineNow, RoomNow
<1>11. \A s \in among :
         /\ cap[s].online \in 0 .. n /\ cap[s].committed \in Nat
         /\ OnlineNow[s] \in Nat
         /\ RoomNow[s] = OnlineNow[s] - cap[s].committed
         /\ cap[s].online - OnlineNow[s] <= drift
         /\ OnlineNow[s] - cap[s].online <= drift
  BY <1>3, <1>4, <1>5, <1>6, <1>9, <1>10 DEF MeasureOK
<1>12. \A s, t \in among :
         s # t => (cap[s].online - OnlineNow[s]) + (OnlineNow[t] - cap[t].online) <= drift
  BY <1>3, <1>4, <1>5, <1>9 DEF MeasureOK
<1>13. PICK seen : seen = cap
  OBVIOUS
<1> HIDE DEF cap
<1>14. /\ \A s \in BySpare(among, seen) :
            s \in among /\ RoomNow[s] + drift > 0 /\ \A t \in among : RoomNow[s] + drift >= RoomNow[t]
       /\ BySpare(among, seen) = {} => \A s \in among : RoomNow[s] <= drift
  <2>1. Measures(among, seen, OnlineNow, RoomNow, drift)
    BY <1>6, <1>11, <1>12, <1>13 DEF Measures
  <2> QED
    BY <2>1, ChoiceSpreads
<1>15. PICK regime \in {"spare-capacity", "saturated"} :
         /\ regime = "spare-capacity" <=> BySpare(among, seen) # {}
         /\ Now(c, PlacedOn(q.of, among, r, regime, drift))
  BY <1>7, <1>13
<1> DEFINE p == [step |-> "commit", of |-> q.of, runner |-> r, reason |-> "", regime |-> regime,
                 among |-> among, drift |-> drift]
<1>16. Now(c, p)
  BY <1>15 DEF PlacedOn
<1>17. ReqFact(q, p)
  <2>1. "" \in Reasons /\ r # NoRunner /\ r \in Runners
    BY <1>8, PlacementAssumption DEF Reasons
  <2> QED
    BY <1>2, <2>1, DecidedFact
<1>18. Spreads(p, OnlineNow, RoomNow)
  <2>1. regime = "spare-capacity" => r \in BySpare(among, seen)
    BY <1>7, <1>13, <1>15 DEF Selected
  <2> QED
    BY <1>14, <1>15, <2>1 DEF Spreads, SpreadOK
<1> HIDE DEF p
<1> QED
  BY <1>1, <1>16, <1>17, <1>18, StillStep

-----------------------------------------------------------------------------
(* Edits *)

LEMMA ContentsHas ==
  ASSUME NEW s \in ScenarioSpecs, NEW o \in ScenarioSpecs
  PROVE  WithProb(s, o.prob) \in Contents
BY DEF Contents

(* What a client sends, and what a script alone can change, are contents. *)
LEMMA SpecContents ==
  /\ ScenarioSpecs \subseteq Contents
  /\ \A spec \in Contents, other \in ScenarioSpecs : WithProb(spec, other.prob) \in Contents
<1>1. ASSUME NEW spec \in ScenarioSpecs PROVE spec \in Contents
  <2>1. spec = [active |-> spec.active, requires |-> spec.requires, prob |-> spec.prob]
    BY PlacementAssumption
  <2>2. WithProb(spec, spec.prob) = spec
    BY <2>1 DEF WithProb
  <2> QED
    BY <2>2, ContentsHas
<1>2. ASSUME NEW spec \in Contents, NEW other \in ScenarioSpecs
      PROVE  WithProb(spec, other.prob) \in Contents
  <2>1. PICK first \in ScenarioSpecs, second \in ScenarioSpecs : spec = WithProb(first, second.prob)
    BY DEF Contents
  <2>2. first = [active |-> first.active, requires |-> first.requires, prob |-> first.prob]
    BY PlacementAssumption
  <2>3. WithProb(spec, other.prob) = WithProb(first, other.prob)
    BY <2>1, <2>2 DEF WithProb
  <2> QED
    BY <2>3, ContentsHas
<1> QED
  BY <1>1, <1>2

LEMMA FormStep ==
  ASSUME IInv, NEW c \in Clients, NEW q, Now(c, q), HoldsRow(q), ReqFact(reqs[c], q),
         UNCHANGED <<rows, workers, runs, raced>>, Counted \/ UNCHANGED events
  PROVE  IInv'
<1>1. Spreads(q, OnlineNow, RoomNow)
  BY DEF Spreads, HoldsRow
<1> QED
  BY <1>1, StillStep

LEMMA OpenFormKeeps ==
  ASSUME IInv, NEW c \in Clients, NEW x \in Resources, OpenForm(c, x)
  PROVE  IInv'
<1> DEFINE q == [step |-> "form", x |-> x, seen |-> rows[x]]
<1>1. Now(c, q) /\ UNCHANGED <<rows, workers, runs, raced, events>> /\ rows[x].state = "live"
  BY DEF OpenForm, Live
<1>2. rows[x] \in Row
  BY DEF IInv, TypeOK
<1>3. ReqOK(q)
  BY <1>2 DEF ReqOK, Req
<1>4. q.step = "form" /\ q.x = x /\ q.seen = rows[x]
  OBVIOUS
<1> HIDE DEF q
<1>5. ReqFact(reqs[c], q) /\ HoldsRow(q)
  BY <1>1, <1>3, <1>4 DEF ReqFact, ReqShape, HoldsRow, HoldsRevision
<1> QED
  BY <1>1, <1>5, FormStep

(* A form that becomes an edit *)
LEMMA SentStep ==
  ASSUME IInv, NEW c \in Clients, reqs[c].step = "form", NEW step \in {"edit", "script"},
         NEW to \in Contents \cup RunnerSpecs,
         step = "script" => reqs[c].x = Scenario,
         reqs[c].x = Scenario => to \in Contents,
         Now(c, [step |-> step, x |-> reqs[c].x, seen |-> reqs[c].seen, to |-> to]),
         UNCHANGED <<rows, workers, runs, raced>>, Counted
  PROVE  IInv'
<1>1. reqs[c].x \in Resources /\ reqs[c].seen \in Row /\ HoldsRow(reqs[c])
  BY ReqFields DEF IInv, TypeOK, ReqOK, HoldsRow
<1>2. PICK x \in Resources : x = reqs[c].x
  BY <1>1
<1>3. PICK seen \in Row : seen = reqs[c].seen
  BY <1>1
<1> DEFINE q == [step |-> step, x |-> x, seen |-> seen, to |-> to]
<1>4. ReqOK(q)
  BY DEF ReqOK, Req
<1>5. q.step = step /\ q.x = x /\ q.seen = seen /\ q.to = to /\ Now(c, q)
  BY <1>2, <1>3
<1> HIDE DEF q
<1>6. ReqFact(reqs[c], q) /\ HoldsRow(q)
  BY <1>1, <1>2, <1>3, <1>4, <1>5 DEF ReqFact, ReqShape, HoldsRow, HoldsRevision
<1> QED
  BY <1>5, <1>6, FormStep

LEMMA EditReadKeeps ==
  ASSUME IInv, NEW c \in Clients, reqs[c].step = "form",
         NEW spec \in SpecsOf(reqs[c].x), EditRead(c, spec)
  PROVE  IInv'
<1>1. spec \in Contents \cup RunnerSpecs /\ (reqs[c].x = Scenario => spec \in Contents)
  BY SpecContents DEF SpecsOf
<1>2. [step |-> "edit", x |-> reqs[c].x, to |-> spec, seen |-> reqs[c].seen]
        = [step |-> "edit", x |-> reqs[c].x, seen |-> reqs[c].seen, to |-> spec]
  OBVIOUS
<1>3. /\ Now(c, [step |-> "edit", x |-> reqs[c].x, seen |-> reqs[c].seen, to |-> spec])
      /\ UNCHANGED <<rows, workers, runs, raced>> /\ Counted
  BY <1>2 DEF EditRead
<1> QED
  BY <1>1, <1>3, SentStep

LEMMA ScriptReadKeeps ==
  ASSUME IInv, NEW c \in Clients, NEW spec \in ScenarioSpecs, ScriptRead(c, spec.prob)
  PROVE  IInv'
<1> DEFINE to == WithProb(rows[Scenario].spec, spec.prob)
<1>1. to \in Contents
  BY SpecContents DEF IInv, Shapes
<1>2. /\ Now(c, [step |-> "script", x |-> reqs[c].x, seen |-> reqs[c].seen, to |-> to])
      /\ reqs[c].x = Scenario /\ reqs[c].step = "form"
      /\ UNCHANGED <<rows, workers, runs, raced>> /\ Counted
  BY DEF ScriptRead
<1> HIDE DEF to
<1> QED
  BY <1>1, <1>2, SentStep

LEMMA CloseFormKeeps ==
  ASSUME IInv, NEW c \in Clients, CloseForm(c)
  PROVE  IInv'
<1>1. Spreads(Idle, OnlineNow, RoomNow)
  BY DEF Spreads, Idle
<1> QED
  BY <1>1, IdleFact, StillStep DEF CloseForm

(* One row is written. *)
LEMMA RowStep ==
  ASSUME IInv, NEW x \in Resources, NEW row \in Row, rows' = [rows EXCEPT ![x] = row],
         row.state # "absent", x = Scenario => row.spec \in Contents,
         raced' \in BOOLEAN, ~raced' => ~raced /\ RowMoves(x)
  PROVE  RowFacts
<1>1. rows \in [Resources -> Row] /\ Scenario \in Resources
  BY DEF IInv, TypeOK, Resources
<1>2. rows' \in [Resources -> Row] /\ rows'[x] = row /\ \A y \in Resources \ {x} : rows'[y] = rows[y]
  BY <1>1
<1>3. \A y \in Resources : y # x => RowMoves(y)
  BY <1>2 DEF RowMoves
<1>4. rows'[Scenario].state # "absent" /\ rows'[Scenario].spec \in Contents
  BY <1>1, <1>2 DEF IInv, Shapes
<1> QED
  BY <1>2, <1>3, <1>4 DEF RowFacts

(* A request ends, with or without a write. *)
LEMMA EndStep ==
  ASSUME IInv, NEW c \in Clients, Now(c, Idle), RowFacts,
         UNCHANGED <<workers, runs>>, Counted \/ UNCHANGED events
  PROVE  IInv'
<1>1. Spreads(Idle, OnlineNow, RoomNow)
  BY DEF Spreads, Idle
<1>2. ReqFacts
  BY NowFacts, IdleFact
<1>3. RunFacts /\ RestFacts
  BY SameRuns, SameRest
<1>4. AllSpread'
  BY <1>1, RoomStays
<1> QED
  BY <1>2, <1>3, <1>4, FactsKeep

LEMMA CreateRowKeeps ==
  ASSUME IInv, NEW c \in Clients, NEW x \in Resources, NEW spec \in SpecsOf(x), CreateRow(c, x, spec)
  PROVE  IInv' /\ RowFacts
<1> DEFINE row == [state |-> "live", version |-> 1, spec |-> spec]
<1>1. row \in Row /\ row.state = "live" /\ row.spec = spec
  BY SpecContents DEF SpecsOf, Row
<1>2. x = Scenario => spec \in Contents
  BY SpecContents DEF SpecsOf
<1>3. /\ rows' = [rows EXCEPT ![x] = row] /\ UNCHANGED <<workers, runs, reqs, raced>> /\ Counted
      /\ rows[x].state = "absent"
  BY DEF CreateRow
<1> HIDE DEF row
<1>4. rows'[x] = row
  BY <1>3 DEF IInv, TypeOK
<1>5. RowMoves(x)
  BY <1>1, <1>3, <1>4 DEF RowMoves
<1>6. raced' \in BOOLEAN /\ (~raced' => ~raced)
  BY <1>3 DEF IInv, TypeOK
<1>7. RowFacts
  BY <1>1, <1>2, <1>3, <1>5, <1>6, RowStep
<1>8. ReqFacts /\ RunFacts /\ RestFacts
  BY <1>3, SameReqs, SameRuns, SameRest
<1>9. AllSpread'
  <2>1. OnlineNow' = OnlineNow /\ RoomNow' = RoomNow
    BY <1>3 DEF OnlineNow, RoomNow, OnlineAt, InFlightAt
  <2> QED
    BY <1>3, <2>1 DEF AllSpread, IInv
<1> QED
  BY <1>7, <1>8, <1>9, FactsKeep

LEMMA EditSaveKeeps ==
  ASSUME IInv, NEW c \in Clients, EditSave(c)
  PROVE  IInv' /\ RowFacts
<1> DEFINE q == reqs[c]
<1>1. q.step = "edit" /\ q.x \in Resources /\ q.seen \in Row /\ q.to \in Contents \cup RunnerSpecs
  BY ReqFields DEF EditSave, IInv, TypeOK, ReqOK, HoldsRow
<1>2. q.x = Scenario => q.to \in Contents
  BY <1>1 DEF IInv, Shapes, ReqShape
<1>3. PICK x \in Resources : x = q.x
  BY <1>1
<1>4. PICK to \in Contents \cup RunnerSpecs : to = q.to
  BY <1>1
<1>5. PICK seen \in Nat : seen = q.seen.version
  BY <1>1 DEF Row
<1> DEFINE row == [state |-> "live", version |-> seen + 1, spec |-> to]
<1>6. row \in Row /\ row.state = "live" /\ row.spec = to /\ row.version = seen + 1
  BY DEF Row
<1>7. /\ rows' = [rows EXCEPT ![x] = row] /\ raced' = (raced \/ ~Found(x, seen))
      /\ Now(c, Idle) /\ UNCHANGED <<workers, runs, events>>
  BY <1>3, <1>4, <1>5 DEF EditSave
<1> HIDE DEF row, q
<1>8. rows'[x] = row
  BY <1>7 DEF IInv, TypeOK
<1>9. raced' \in BOOLEAN
  BY <1>7
<1>10. ~raced' => ~raced /\ RowMoves(x)
  BY <1>6, <1>7, <1>8 DEF RowMoves, Found
<1>11. RowFacts
  BY <1>2, <1>3, <1>4, <1>6, <1>7, <1>9, <1>10, RowStep
<1> QED
  BY <1>7, <1>11, EndStep

LEMMA ScriptWriteKeeps ==
  ASSUME IInv, NEW c \in Clients, ScriptWrite(c)
  PROVE  IInv' /\ RowFacts
<1> DEFINE q == reqs[c]
<1>1. q.step = "script" /\ q.seen \in Row /\ q.to \in Contents
  BY ReqFields DEF ScriptWrite, IInv, TypeOK, ReqOK, HoldsRow, Shapes, ReqShape
<1>2. Now(c, Idle) /\ UNCHANGED <<workers, runs, raced, events>>
  BY DEF ScriptWrite
<1>3. CASE ~Found(Scenario, q.seen.version)
  <2>1. rows' = rows
    BY <1>3 DEF ScriptWrite
  <2> QED
    BY <1>2, <2>1, SameRows, EndStep
<1>4. CASE Found(Scenario, q.seen.version)
  <2>1. PICK to \in Contents : to = q.to
    BY <1>1
  <2>2. rows[Scenario] \in Row /\ Scenario \in Resources /\ rows[Scenario].state = "live"
    BY <1>4 DEF IInv, TypeOK, Resources, Found
  <2>3. PICK version \in Nat : version = rows[Scenario].version
    BY <2>2 DEF Row
  <2> DEFINE row == [state |-> "live", version |-> version + 1, spec |-> to]
  <2>4. row \in Row /\ row.state = "live" /\ row.spec = to /\ row.version = version + 1
    BY DEF Row
  <2>5. rows' = [rows EXCEPT ![Scenario] = row]
    <3>1. rows' = [rows EXCEPT ![Scenario].version = @ + 1, ![Scenario].spec = to]
      BY <1>4, <2>1 DEF ScriptWrite
    <3>2. rows \in [Resources -> Row]
      BY DEF IInv, TypeOK
    <3>3. rows'[Scenario] = row
      BY <3>1, <3>2, <2>2, <2>3 DEF Row
    <3>4. \A y \in Resources \ {Scenario} : rows'[y] = rows[y]
      BY <3>1, <3>2, <2>2
    <3>5. rows' = [y \in Resources |-> rows'[y]]
      BY <3>1, <3>2
    <3> HIDE DEF row
    <3> QED
      BY <3>2, <3>3, <3>4, <3>5, <2>2
  <2> HIDE DEF row
  <2>6. rows'[Scenario] = row
    BY <2>2, <2>5 DEF IInv, TypeOK
  <2>7. RowMoves(Scenario)
    BY <2>2, <2>3, <2>4, <2>6 DEF RowMoves
  <2>8. raced' \in BOOLEAN /\ (~raced' => ~raced)
    BY <1>2 DEF IInv, TypeOK
  <2>9. RowFacts
    BY <2>2, <2>4, <2>5, <2>7, <2>8, RowStep
  <2> QED
    BY <1>2, <2>9, EndStep
<1> QED
  BY <1>3, <1>4

LEMMA DeleteKeeps ==
  ASSUME IInv, NEW c \in Clients, Delete(c)
  PROVE  IInv' /\ RowFacts
<1>1. reqs[c].step = "form" /\ reqs[c].x \in Resources
  BY ReqFields DEF Delete, IInv, TypeOK, ReqOK, HoldsRow
<1>2. PICK x \in Resources : x = reqs[c].x
  BY <1>1
<1>3. /\ Now(c, Idle) /\ UNCHANGED <<workers, runs, raced>> /\ Counted
      /\ rows[x].state = "live" /\ rows' = [rows EXCEPT ![x].state = "deleted"]
  BY <1>2 DEF Delete, Found
<1>4. rows[x] \in Row /\ rows \in [Resources -> Row]
  BY DEF IInv, TypeOK
<1>5. PICK row : row = [rows[x] EXCEPT !.state = "deleted"]
  OBVIOUS
<1>6. row \in Row /\ row.state = "deleted" /\ row.version = rows[x].version /\ row.spec = rows[x].spec
  BY <1>4, <1>5 DEF Row
<1>7. rows' = [rows EXCEPT ![x] = row] /\ rows'[x] = row
  BY <1>3, <1>4, <1>5
<1>8. RowMoves(x)
  BY <1>3, <1>6, <1>7 DEF RowMoves
<1>9. x = Scenario => row.spec \in Contents
  BY <1>6 DEF IInv, Shapes
<1>10. raced' \in BOOLEAN /\ (~raced' => ~raced)
  BY <1>3 DEF IInv, TypeOK
<1>11. RowFacts
  BY <1>6, <1>7, <1>8, <1>9, <1>10, RowStep
<1> QED
  BY <1>3, <1>11, EndStep

-----------------------------------------------------------------------------
(* Steps that change capacity *)

(* A number per runner, before and after, that moves by at most one, and    *)
(* at one runner.                                                           *)
Shift(f, g, at) ==
  \A r \in Runners : /\ f[r] \in Int /\ g[r] \in Int
                     /\ r # at => g[r] = f[r]
                     /\ g[r] <= f[r] + 1 /\ f[r] <= g[r] + 1

(* One such change takes a request no further off than its drift counts. *)
LEMMA DriftSpreads ==
  ASSUME NEW q, ReqOK(q), NEW on, NEW on2, NEW room, NEW room2, NEW at,
         Spreads(q, on, room), Shift(on, on2, at), Shift(room, room2, at)
  PROVE  Spreads(Drift(q), on2, room2)
<1>1. CASE q.step \notin {"load", "commit"}
  BY <1>1, DriftKeeps DEF Spreads
<1>2. CASE q.step = "load"
  <2>1. PICK p : p = Drift(q)
    OBVIOUS
  <2>2. /\ p.step = "load" /\ p.drift = q.drift + 1 /\ p.among = q.among /\ p.found = q.found
        /\ q.among \in SUBSET Runners /\ q.drift \in Nat
    BY <1>2, <2>1, DriftKeeps, ReqFields
  <2>3. MeasureOK(q, on)
    BY <1>2 DEF Spreads
  <2>4. Cardinality(Workers) \in Nat
    BY PlacementAssumption, FS_CardinalityType
  <2>5. \A r \in q.among : q.found[r].online \in Int
    BY <2>3, <2>4 DEF MeasureOK
  <2>6. ASSUME NEW r \in q.among
        PROVE  /\ q.found[r].online \in 0 .. Cardinality(Workers)
               /\ q.found[r].online - on2[r] <= q.drift + 1
               /\ on2[r] - q.found[r].online <= q.drift + 1
    <3>1. /\ q.found[r].online \in 0 .. Cardinality(Workers)
          /\ q.found[r].online - on[r] <= q.drift
          /\ on[r] - q.found[r].online <= q.drift
      BY <2>3 DEF MeasureOK
    <3>2. on[r] \in Int /\ on2[r] \in Int /\ on2[r] <= on[r] + 1 /\ on[r] <= on2[r] + 1
      BY <2>2 DEF Shift
    <3> QED
      BY <2>2, <2>5, <3>1, <3>2
  <2>7. ASSUME NEW r \in q.among, NEW s \in q.among, r # s
        PROVE  (q.found[r].online - on2[r]) + (on2[s] - q.found[s].online) <= q.drift + 1
    <3>1. (q.found[r].online - on[r]) + (on[s] - q.found[s].online) <= q.drift
      BY <2>3, <2>7 DEF MeasureOK
    <3>2. /\ on[r] \in Int /\ on2[r] \in Int /\ on[s] \in Int /\ on2[s] \in Int
          /\ on[r] <= on2[r] + 1 /\ on2[s] <= on[s] + 1
          /\ on2[r] = on[r] \/ on2[s] = on[s]
      BY <2>2, <2>7 DEF Shift
    <3> QED
      BY <2>2, <2>5, <3>1, <3>2
  <2>8. MeasureOK(p, on2)
    BY <2>2, <2>6, <2>7 DEF MeasureOK
  <2> QED
    BY <2>1, <2>2, <2>8 DEF Spreads
<1>3. CASE q.step = "commit"
  <2>1. PICK p : p = Drift(q)
    OBVIOUS
  <2>2. /\ p.step = "commit" /\ p.drift = q.drift + 1 /\ p.among = q.among
        /\ p.runner = q.runner /\ p.regime = q.regime
        /\ q.among \in SUBSET Runners /\ q.drift \in Nat
    BY <1>3, <2>1, DriftKeeps, ReqFields
  <2>3. SpreadOK(q, room)
    BY <1>3 DEF Spreads
  <2>4. ASSUME q.regime = "spare-capacity"
        PROVE  /\ q.runner \in q.among
               /\ room2[q.runner] + (q.drift + 1) > 0
               /\ \A r \in q.among : room2[q.runner] + (q.drift + 1) >= room2[r]
    <3>1. /\ q.runner \in q.among /\ room[q.runner] + q.drift > 0
          /\ \A r \in q.among : room[q.runner] + q.drift >= room[r]
      BY <2>3, <2>4 DEF SpreadOK
    <3>2. /\ room[q.runner] \in Int /\ room2[q.runner] \in Int
          /\ room[q.runner] <= room2[q.runner] + 1
      BY <2>2, <3>1 DEF Shift
    <3>3. ASSUME NEW r \in q.among PROVE room2[q.runner] + (q.drift + 1) >= room2[r]
      <4>1. CASE r = q.runner
        BY <4>1, <2>2, <3>2
      <4>2. CASE r # q.runner
        <5>1. /\ room[r] \in Int /\ room2[r] \in Int /\ room2[r] <= room[r] + 1
              /\ room2[r] = room[r] \/ room2[q.runner] = room[q.runner]
          BY <4>2, <2>2, <3>1 DEF Shift
        <5> QED
          BY <5>1, <3>1, <3>2, <2>2
      <4> QED
        BY <4>1, <4>2
    <3> QED
      BY <3>1, <3>2, <3>3, <2>2
  <2>5. ASSUME q.regime = "saturated", NEW r \in q.among PROVE room2[r] <= q.drift + 1
    <3>1. room[r] <= q.drift
      BY <2>3, <2>5 DEF SpreadOK
    <3>2. room[r] \in Int /\ room2[r] \in Int /\ room2[r] <= room[r] + 1
      BY <2>2 DEF Shift
    <3> QED
      BY <2>2, <3>1, <3>2
  <2>6. SpreadOK(p, room2)
    BY <2>2, <2>4, <2>5 DEF SpreadOK
  <2> QED
    BY <2>1, <2>2, <2>6 DEF Spreads
<1> QED
  BY <1>1, <1>2, <1>3

(* Of two sets, one has at most one element that the other does not. *)
LEMMA OneApart ==
  ASSUME NEW S, NEW T, NEW e, IsFiniteSet(S), IsFiniteSet(T), S \cup {e} = T \cup {e}
  PROVE  /\ Cardinality(S) \in Nat /\ Cardinality(T) \in Nat
         /\ Cardinality(T) <= Cardinality(S) + 1 /\ Cardinality(S) <= Cardinality(T) + 1
<1>1. /\ Cardinality(S \cup {e}) = IF e \in S THEN Cardinality(S) ELSE Cardinality(S) + 1
      /\ Cardinality(T \cup {e}) = IF e \in T THEN Cardinality(T) ELSE Cardinality(T) + 1
  BY FS_AddElement
<1>2. Cardinality(S) \in Nat /\ Cardinality(T) \in Nat
  BY FS_CardinalityType
<1> QED
  BY <1>1, <1>2

(* Capacity changes at one runner, by one worker or one run. *)
LEMMA CapacityShifts ==
  ASSUME NEW at, NEW w, NEW u,
         \/ /\ \A r \in Runners : InFlightAt(r)' = InFlightAt(r)
            /\ \A r \in Runners \ {at} : OnlineAt(r)' = OnlineAt(r)
            /\ OnlineAt(at)' \cup {w} = OnlineAt(at) \cup {w}
         \/ /\ \A r \in Runners : OnlineAt(r)' = OnlineAt(r)
            /\ \A r \in Runners \ {at} : InFlightAt(r)' = InFlightAt(r)
            /\ InFlightAt(at)' \cup {u} = InFlightAt(at) \cup {u}
  PROVE  Shift(OnlineNow, OnlineNow', at) /\ Shift(RoomNow, RoomNow', at)
<1>1. ASSUME NEW r
      PROVE  /\ IsFiniteSet(OnlineAt(r)) /\ IsFiniteSet(InFlightAt(r))
             /\ IsFiniteSet(OnlineAt(r)') /\ IsFiniteSet(InFlightAt(r)')
    <2>1. /\ OnlineAt(r)' \in SUBSET Workers /\ InFlightAt(r)' \in SUBSET Runs
      BY DEF OnlineAt, InFlightAt
    <2> QED
      BY <2>1, Counts, PlacementAssumption, FS_Subset
<1>2. ASSUME NEW r \in Runners
      PROVE  /\ OnlineNow[r] = Cardinality(OnlineAt(r))
             /\ OnlineNow'[r] = Cardinality(OnlineAt(r)')
             /\ RoomNow[r] = Cardinality(OnlineAt(r)) - Cardinality(InFlightAt(r))
             /\ RoomNow'[r] = Cardinality(OnlineAt(r)') - Cardinality(InFlightAt(r)')
  BY DEF OnlineNow, RoomNow
<1>3. ASSUME NEW r \in Runners
      PROVE  /\ Cardinality(OnlineAt(r)) \in Nat /\ Cardinality(OnlineAt(r)') \in Nat
             /\ Cardinality(InFlightAt(r)) \in Nat /\ Cardinality(InFlightAt(r)') \in Nat
  BY <1>1, FS_CardinalityType
<1> DEFINE On(r) == /\ Cardinality(OnlineAt(r)') <= Cardinality(OnlineAt(r)) + 1
                    /\ Cardinality(OnlineAt(r)) <= Cardinality(OnlineAt(r)') + 1
                    /\ Cardinality(InFlightAt(r)') = Cardinality(InFlightAt(r))
           Fl(r) == /\ Cardinality(InFlightAt(r)') <= Cardinality(InFlightAt(r)) + 1
                    /\ Cardinality(InFlightAt(r)) <= Cardinality(InFlightAt(r)') + 1
                    /\ Cardinality(OnlineAt(r)') = Cardinality(OnlineAt(r))
<1>4. ASSUME NEW r \in Runners
      PROVE  /\ On(r) \/ Fl(r)
             /\ r # at => /\ Cardinality(OnlineAt(r)') = Cardinality(OnlineAt(r))
                          /\ Cardinality(InFlightAt(r)') = Cardinality(InFlightAt(r))
  <2>1. CASE r # at
    BY <2>1, <1>3
  <2>2. CASE r = at
    <3>1. CASE InFlightAt(r)' = InFlightAt(r) /\ OnlineAt(r)' \cup {w} = OnlineAt(r) \cup {w}
      BY <2>2, <3>1, <1>1, OneApart
    <3>2. CASE OnlineAt(r)' = OnlineAt(r) /\ InFlightAt(r)' \cup {u} = InFlightAt(r) \cup {u}
      BY <2>2, <3>2, <1>1, OneApart
    <3> QED
      BY <2>2, <3>1, <3>2
  <2> QED
    BY <2>1, <2>2
<1> QED
  BY <1>2, <1>3, <1>4 DEF Shift

LEMMA AbsentState == AbsentRun.state = "absent"
BY DEF AbsentRun

LEMMA WorkerChangesKeeps ==
  ASSUME IInv, NEW w \in Workers, NEW presence \in Presence, WorkerChanges(w, presence)
  PROVE  IInv'
<1>1. /\ workers' = [workers EXCEPT ![w] = presence] /\ Counted
      /\ reqs' = [c \in Clients |-> Drift(reqs[c])] /\ UNCHANGED <<rows, runs, raced>>
  BY DEF WorkerChanges
<1>2. workers \in [Workers -> Presence] /\ \A c \in Clients : ReqOK(reqs[c])
  BY DEF IInv, TypeOK, ReqOK
<1>3. RowFacts /\ ReqFacts /\ RunFacts
  BY <1>1, SameRows, SameRuns, DriftFacts
<1>4. RestFacts
  <2>1. events' \in 0 .. MaxEvents
    BY <1>1, PlacementAssumption DEF Counted, IInv, TypeOK
  <2> QED
    BY <1>1, <1>2, <2>1 DEF RestFacts
<1>5. AllSpread'
  <2> DEFINE at == HomeOf[w]
  <2>1. \A r \in Runners : InFlightAt(r)' = InFlightAt(r)
    BY <1>1 DEF InFlightAt
  <2>2. \A r \in Runners \ {at} : OnlineAt(r)' = OnlineAt(r)
    BY <1>1, <1>2 DEF OnlineAt
  <2>3. OnlineAt(at)' \cup {w} = OnlineAt(at) \cup {w}
    BY <1>1, <1>2 DEF OnlineAt
  <2> HIDE DEF at
  <2>4. Shift(OnlineNow, OnlineNow', at) /\ Shift(RoomNow, RoomNow', at)
    BY <2>1, <2>2, <2>3, CapacityShifts
  <2>5. \A c \in Clients : Spreads(Drift(reqs[c]), OnlineNow', RoomNow')
    BY <1>2, <2>4, DriftSpreads DEF IInv, AllSpread
  <2> QED
    BY <1>1, <2>5 DEF AllSpread
<1> QED
  BY <1>3, <1>4, <1>5, FactsKeep

LEMMA RunEndsKeeps ==
  ASSUME IInv, NEW u \in Runs, RunEnds(u)
  PROVE  IInv'
<1>1. /\ runs' = [runs EXCEPT ![u].state = "ended"] /\ Counted /\ runs[u].state = "in flight"
      /\ reqs' = [c \in Clients |-> Drift(reqs[c])] /\ UNCHANGED <<rows, workers, raced>>
  BY DEF RunEnds
<1>2. runs \in [Runs -> Run] /\ \A c \in Clients : ReqOK(reqs[c])
  BY DEF IInv, TypeOK, ReqOK
<1>3. runs[u] \in [state : {"in flight", "ended"}, runner : Runners, reason : {""}, of : Revision]
  BY <1>1, <1>2, AbsentState DEF Run
<1>4. PICK row : row = [runs[u] EXCEPT !.state = "ended"]
  OBVIOUS
<1>5. /\ row \in [state : {"in flight", "ended"}, runner : Runners, reason : {""}, of : Revision]
      /\ row.state = "ended" /\ row.runner = runs[u].runner /\ row.of = runs[u].of
  BY <1>3, <1>4
<1>6. runs' = [runs EXCEPT ![u] = row]
  BY <1>1, <1>2, <1>4
<1>7. RunFacts
  <2>1. row \in Run
    BY <1>5 DEF Run
  <2>2. runs' \in [Runs -> Run]
    BY <1>2, <1>6, <2>1
  <2>3. runs[u] # AbsentRun
    BY <1>1, AbsentState
  <2>4. \A v \in Runs : runs[v] # AbsentRun => runs[v].of \in Held
    BY DEF Held
  <2>5. \A v \in Runs : runs'[v] # AbsentRun => runs'[v].of \in Held
    BY <1>2, <1>5, <1>6, <2>3, <2>4
  <2> QED
    BY <2>2, <2>5 DEF RunFacts
<1>8. RowFacts /\ ReqFacts /\ RestFacts
  BY <1>1, SameRows, DriftFacts, SameRest
<1>9. AllSpread'
  <2>0. PICK at : at = runs[u].runner
    OBVIOUS
  <2>1. \A r \in Runners : OnlineAt(r)' = OnlineAt(r)
    BY <1>1 DEF OnlineAt
  <2>2. \A r \in Runners \ {at} : InFlightAt(r)' = InFlightAt(r)
    BY <1>2, <1>5, <1>6, <2>0 DEF InFlightAt
  <2>3. InFlightAt(at)' \cup {u} = InFlightAt(at) \cup {u}
    BY <1>2, <1>5, <1>6, <2>0 DEF InFlightAt
  <2>4. Shift(OnlineNow, OnlineNow', at) /\ Shift(RoomNow, RoomNow', at)
    BY <2>1, <2>2, <2>3, CapacityShifts
  <2>5. \A c \in Clients : Spreads(Drift(reqs[c]), OnlineNow', RoomNow')
    BY <1>2, <2>4, DriftSpreads DEF IInv, AllSpread
  <2> QED
    BY <1>1, <2>5 DEF AllSpread
<1> QED
  BY <1>7, <1>8, <1>9, FactsKeep

LEMMA CommitKeeps ==
  ASSUME IInv, NEW c \in Clients, NEW u \in Runs, Commit(c, u)
  PROVE  IInv'
<1> DEFINE q == reqs[c]
<1>1. /\ q.step = "commit" /\ HoldsRevision(q) /\ q.of \in Revision
      /\ q.runner \in Runners \cup {NoRunner} /\ q.reason \in Reasons
      /\ q.runner = NoRunner <=> q.reason # ""
  BY ReqFields DEF Commit, HoldsRevision, IInv, TypeOK, ReqOK, Shapes, ReqShape
<1>2. PICK row : row = [state |-> IF q.runner = NoRunner THEN "errored" ELSE "in flight",
                        runner |-> q.runner, reason |-> q.reason, of |-> q.of]
  OBVIOUS
<1>3. /\ runs[u] = AbsentRun /\ runs' = [runs EXCEPT ![u] = row]
      /\ IF q.runner = NoRunner THEN Now(c, Idle) ELSE NowDrifting(c, Idle)
      /\ UNCHANGED <<rows, workers, raced, events>>
  BY <1>2 DEF Commit
<1>4. runs \in [Runs -> Run] /\ \A d \in Clients : ReqOK(reqs[d])
  BY DEF IInv, TypeOK, ReqOK
<1>5. /\ row.of = q.of /\ row.runner = q.runner
      /\ row.state = (IF q.runner = NoRunner THEN "errored" ELSE "in flight")
  BY <1>2
<1>6. RunFacts
  <2>1. row \in Run
    <3>1. CASE q.runner = NoRunner
      BY <1>1, <1>2, <3>1 DEF Run
    <3>2. CASE q.runner # NoRunner
      BY <1>1, <1>2, <3>2 DEF Run
    <3> QED
      BY <3>1, <3>2
  <2>2. runs' \in [Runs -> Run]
    BY <1>3, <1>4, <2>1
  <2>3. \A v \in Runs : runs[v] # AbsentRun => runs[v].of \in Held
    BY DEF Held
  <2>4. q.of \in Held
    BY <1>1 DEF Held
  <2>5. \A v \in Runs : runs'[v] # AbsentRun => runs'[v].of \in Held
    BY <1>3, <1>4, <1>5, <2>3, <2>4
  <2> QED
    BY <2>2, <2>5 DEF RunFacts
<1>7. RowFacts /\ RestFacts
  BY <1>3, SameRows, SameRest
<1>8. ReqFacts /\ reqs'[c] = Idle
  BY <1>3, NowFacts, IdleFact
<1>9. \A r \in Runners : OnlineAt(r)' = OnlineAt(r)
  BY <1>3 DEF OnlineAt
<1>10. AllSpread'
  <2>1. CASE q.runner = NoRunner
    <3>1. \A r \in Runners : InFlightAt(r)' = InFlightAt(r)
      BY <1>3, <1>4, <1>5, <2>1, AbsentState DEF InFlightAt
    <3>2. OnlineNow' = OnlineNow /\ RoomNow' = RoomNow
      BY <1>9, <3>1 DEF OnlineNow, RoomNow
    <3>3. \A d \in Clients : reqs'[d] = IF d = c THEN Idle ELSE reqs[d]
      BY <1>3, <2>1 DEF Now, IInv, Shapes
    <3>4. \A d \in Clients : Spreads(reqs'[d], OnlineNow, RoomNow)
      BY <3>3 DEF IInv, AllSpread, Spreads, Idle
    <3> QED
      BY <3>2, <3>4 DEF AllSpread
  <2>2. CASE q.runner # NoRunner
    <3>1. PICK at : at = q.runner
      OBVIOUS
    <3>2. \A r \in Runners \ {at} : InFlightAt(r)' = InFlightAt(r)
      BY <1>3, <1>4, <1>5, <3>1, AbsentState DEF InFlightAt
    <3>3. InFlightAt(at)' \cup {u} = InFlightAt(at) \cup {u}
      BY <1>3, <1>4, <1>5, <3>1 DEF InFlightAt
    <3>4. Shift(OnlineNow, OnlineNow', at) /\ Shift(RoomNow, RoomNow', at)
      BY <1>9, <3>2, <3>3, CapacityShifts
    <3>5. \A d \in Clients : Spreads(Drift(reqs[d]), OnlineNow', RoomNow')
      BY <1>4, <3>4, DriftSpreads DEF IInv, AllSpread
    <3>6. \A d \in Clients : reqs'[d] = IF d = c THEN Idle ELSE Drift(reqs[d])
      BY <1>3, <2>2 DEF NowDrifting
    <3>7. Spreads(Idle, OnlineNow', RoomNow')
      BY DEF Spreads, Idle
    <3>8. \A d \in Clients : Spreads(reqs'[d], OnlineNow', RoomNow')
      BY <3>5, <3>6, <3>7
    <3> QED
      BY <3>8 DEF AllSpread
  <2> QED
    BY <2>1, <2>2
<1> QED
  BY <1>6, <1>7, <1>8, <1>10, FactsKeep

-----------------------------------------------------------------------------
LEMMA InitHolds == Init => IInv
<1> SUFFICES ASSUME Init PROVE IInv
  OBVIOUS
<1>1. PICK fleet \in Fleets, first \in ScenarioSpecs :
        /\ rows = [x \in Resources |->
                     [state |-> IF x \in fleet.runners \cup {Scenario} THEN "live" ELSE "absent",
                      version |-> 1, spec |-> IF x = Scenario THEN first ELSE fleet.specs[x]]]
        /\ workers = [w \in Workers |-> IF w \in fleet.online THEN "online"
                                       ELSE IF w \in fleet.out THEN "out" ELSE "gone"]
  BY DEF Init
<1>2. /\ runs = [u \in Runs |-> AbsentRun] /\ reqs = [c \in Clients |-> Idle]
      /\ raced = FALSE /\ events = 0
  BY DEF Init
<1>3. /\ first \in Contents /\ Scenario \in Resources
      /\ \A x \in Resources : x # Scenario => fleet.specs[x] \in RunnerSpecs
  BY SpecContents, PlacementAssumption DEF Resources
<1>4. ASSUME NEW x \in Resources PROVE rows[x] \in Row
  BY <1>1, <1>3 DEF Row
<1>5. rows[Scenario].state = "live" /\ rows[Scenario].spec = first
  BY <1>1, <1>3
<1>6. \A c \in Clients : reqs[c].step = "idle" /\ reqs[c] \in Req
  BY <1>2 DEF Idle, Req
<1>7. TypeOK
  <2>1. rows \in [Resources -> Row]
    BY <1>1, <1>4
  <2>2. workers \in [Workers -> Presence]
    BY <1>1 DEF Presence
  <2>3. runs \in [Runs -> Run]
    BY <1>2 DEF Run
  <2>4. raced \in BOOLEAN
    BY <1>2
  <2>5. MaxEvents \in Nat
    BY PlacementAssumption
  <2>6. events \in 0 .. MaxEvents
    BY <1>2, <2>5
  <2> QED
    BY <1>6, <2>1, <2>2, <2>3, <2>4, <2>6 DEF TypeOK
<1>8. Shapes
  BY <1>2, <1>3, <1>5, <1>6 DEF Shapes, ReqShape
<1>9. RevisionsNamed
  <2>1. Held = {}
    BY <1>2, <1>6 DEF Held, HoldsRevision
  <2> QED
    BY <2>1 DEF RevisionsNamed, Named
<1>10. RowsSeen /\ AllSpread
  BY <1>6 DEF RowsSeen, HoldsRow, AllSpread, Spreads
<1> QED
  BY <1>7, <1>8, <1>9, <1>10 DEF IInv

LEMMA NextKeeps ==
  ASSUME IInv, [Next]_vars
  PROVE  IInv'
<1>1. CASE UNCHANGED vars
  <2>1. UNCHANGED <<rows, raced>> /\ UNCHANGED runs /\ UNCHANGED reqs /\ UNCHANGED <<workers, events>>
    BY <1>1 DEF vars
  <2>2. RowFacts /\ ReqFacts /\ RunFacts /\ RestFacts
    BY <2>1, SameRows, SameReqs, SameRuns, SameRest
  <2>3. OnlineNow' = OnlineNow /\ RoomNow' = RoomNow
    BY <2>1 DEF OnlineNow, RoomNow, OnlineAt, InFlightAt
  <2>4. AllSpread'
    BY <2>1, <2>3 DEF AllSpread, IInv
  <2> QED
    BY <2>2, <2>4, FactsKeep
<1>2. ASSUME NEW c \in Clients, Create(c) PROVE IInv'
  BY <1>2, ReadScenarioKeeps, ListRunnersKeeps, CountWorkersKeeps, CountRunsKeeps, CountFailsKeeps,
     CommitKeeps, CommitFailsKeeps DEF Create
<1>3. ASSUME NEW c \in Clients, Edit(c) PROVE IInv'
  <2>1. CASE \E x \in Resources : OpenForm(c, x) \/ \E spec \in SpecsOf(x) : CreateRow(c, x, spec)
    BY <2>1, OpenFormKeeps, CreateRowKeeps
  <2>2. CASE reqs[c].step = "form" /\ \E spec \in SpecsOf(reqs[c].x) : EditRead(c, spec)
    BY <2>2, EditReadKeeps
  <2>3. CASE \E spec \in ScenarioSpecs : ScriptRead(c, spec.prob)
    BY <2>3, ScriptReadKeeps
  <2>4. CASE EditSave(c) \/ ScriptWrite(c) \/ Delete(c) \/ CloseForm(c)
    BY <2>4, EditSaveKeeps, ScriptWriteKeeps, DeleteKeeps, CloseFormKeeps
  <2> QED
    BY <1>3, <2>1, <2>2, <2>3, <2>4 DEF Edit
<1> QED
  BY <1>1, <1>2, <1>3, WorkerChangesKeeps, RunEndsKeeps DEF Next

LEMMA IInvHolds == Spec => []IInv
<1>1. IInv /\ [Next]_vars => IInv'
  BY NextKeeps
<1> QED
  BY <1>1, InitHolds, PTL DEF Spec

(* Rows, workers, runs and requests have their types; in particular a run   *)
(* that Create stores has a runner of the fleet to wait for, or was failed  *)
(* with the reason why not.                                                 *)
THEOREM TypeCorrect == Spec => []TypeOK
<1>1. IInv => TypeOK
  BY DEF IInv
<1> QED
  BY <1>1, IInvHolds, PTL

(* Runs that carry the same urth/scenario.version executed the same         *)
(* content, until saveResource has overwritten a write that its edit had    *)
(* not seen.                                                                *)
THEOREM VersionsNameContent == Spec => []VersionNamesContent
<1>1. ASSUME IInv PROVE VersionNamesContent
  <2> SUFFICES ASSUME ~raced, NEW u \in Runs, NEW v \in Runs,
                      runs[u] # AbsentRun, runs[v] # AbsentRun,
                      runs[u].of.version = runs[v].of.version
               PROVE  runs[u].of.spec = runs[v].of.spec
    BY DEF VersionNamesContent
  <2>1. runs[u].of \in Held /\ runs[v].of \in Held
    BY DEF Held
  <2>2. Named(Held, Stored)
    BY <1>1 DEF IInv, RevisionsNamed
  <2> QED
    BY <2>1, <2>2 DEF Named
<1> QED
  BY <1>1, IInvHolds, PTL

(* Rows change only where an edit, a script, a delete or a creation writes. *)
LEMMA WhoWrites ==
  ASSUME IInv, [Next]_vars
  PROVE  \/ rows' = rows /\ raced' = raced
         \/ \E c \in Clients, x \in Resources : \E spec \in SpecsOf(x) : CreateRow(c, x, spec)
         \/ \E c \in Clients : EditSave(c) \/ ScriptWrite(c) \/ Delete(c)
<1>1. ASSUME NEW c \in Clients, Create(c) PROVE rows' = rows /\ raced' = raced
  BY <1>1 DEF Create, ReadScenario, ListRunners, CountWorkers, CountRuns, CountFails, Commit, CommitFails
<1>2. ASSUME NEW c \in Clients, Edit(c)
      PROVE  \/ rows' = rows /\ raced' = raced
             \/ \E x \in Resources : \E spec \in SpecsOf(x) : CreateRow(c, x, spec)
             \/ EditSave(c) \/ ScriptWrite(c) \/ Delete(c)
  BY <1>2 DEF Edit, OpenForm, EditRead, ScriptRead, CloseForm
<1>3. CASE (\E w \in Workers, presence \in Presence : WorkerChanges(w, presence))
             \/ \E u \in Runs : RunEnds(u)
  BY <1>3 DEF WorkerChanges, RunEnds
<1>4. CASE UNCHANGED vars
  BY <1>4 DEF vars
<1> QED
  BY <1>1, <1>2, <1>3, <1>4 DEF Next

(* update and UpdateScript replace what their client saw and nothing else,  *)
(* and no save brings a deleted resource back, as long as no other write    *)
(* came between the read and the save of an edit.                           *)
THEOREM NoUpdateIsLost == Spec => NoLostUpdate
<1>1. ASSUME IInv, [Next]_vars, ~raced'
      PROVE  \A x \in Resources : rows[x].state = "deleted" => rows'[x].state = "deleted"
  <2>1. RowFacts
    BY <1>1, WhoWrites, SameRows, CreateRowKeeps, EditSaveKeeps, ScriptWriteKeeps, DeleteKeeps
  <2> QED
    BY <1>1, <2>1 DEF RowFacts, RowMoves
<1>2. ASSUME IInv, [Next]_vars, ~raced', NEW c \in Clients,
             reqs[c].step \in {"edit", "script"}, reqs'[c] = Idle
      PROVE  rows[reqs[c].x] \in {reqs[c].seen, rows'[reqs[c].x]}
  <2>1. reqs'[c] # reqs[c] /\ reqs = [d \in Clients |-> reqs[d]]
    BY <1>2 DEF Idle, IInv, Shapes
  <2>2. ASSUME ~raced, Found(reqs[c].x, reqs[c].seen.version) PROVE rows[reqs[c].x] = reqs[c].seen
    BY <1>2, <2>2 DEF IInv, RowsSeen, HoldsRow, SeenOK, Found
  <2>3. CASE rows' = rows
    BY <2>3
  <2>4. ASSUME NEW d \in Clients, NEW x \in Resources, NEW spec \in SpecsOf(x), CreateRow(d, x, spec)
        PROVE  FALSE
    BY <2>1, <2>4 DEF CreateRow
  <2>5. ASSUME NEW d \in Clients, Now(d, Idle) PROVE d = c
    BY <2>1, <2>5 DEF Now
  <2>6. CASE EditSave(c)
    BY <1>2, <2>2, <2>6 DEF EditSave
  <2>7. CASE ScriptWrite(c)
    <3>1. ~raced /\ reqs[c].x = Scenario
      BY <1>2, <2>7 DEF ScriptWrite, IInv, Shapes, ReqShape
    <3> QED
      BY <2>2, <2>3, <2>7, <3>1 DEF ScriptWrite
  <2>8. ASSUME NEW d \in Clients, Delete(d) PROVE FALSE
    BY <1>2, <2>5, <2>8 DEF Delete
  <2> QED
    BY <1>2, <2>3, <2>4, <2>5, <2>6, <2>7, <2>8, WhoWrites DEF EditSave, ScriptWrite
<1>3. IInv /\ [Next]_vars =>
        [~raced' =>
           /\ \A c \in Clients :
                reqs[c].step \in {"edit", "script"} /\ reqs'[c] = Idle
                  => rows[reqs[c].x] \in {reqs[c].seen, rows'[reqs[c].x]}
           /\ \A x \in Resources : rows[x].state = "deleted" => rows'[x].state = "deleted"]_vars
  BY <1>1, <1>2
<1> QED
  BY <1>3, IInvHolds, PTL DEF Spec, NoLostUpdate

(* A burst of Creates spreads although each chose from counts that are old  *)
(* when it commits: selectRunner's choice has room, and most room, up to    *)
(* what has come or gone since; and the draw decides only when none had.    *)
THEOREM RunsSpread == Spec => SpreadsWithinDrift
<1>1. ASSUME IInv, NEW c \in Clients, NEW u \in Runs, Commit(c, u)
      PROVE  /\ reqs[c].regime = "spare-capacity" =>
                  /\ Room(reqs[c].runner) + reqs[c].drift > 0
                  /\ \A r \in reqs[c].among : Room(reqs[c].runner) + reqs[c].drift >= Room(r)
             /\ reqs[c].regime = "saturated" => \A r \in reqs[c].among : Room(r) <= reqs[c].drift
  <2>1. SpreadOK(reqs[c], RoomNow)
    BY <1>1 DEF Commit, IInv, AllSpread, Spreads
  <2>2. reqs[c].among \in SUBSET Runners
    BY <1>1, ReqFields DEF Commit, IInv, TypeOK, ReqOK
  <2>3. \A r \in Runners : RoomNow[r] = Room(r)
    BY DEF RoomNow, Room, OnlineAt, InFlightAt
  <2> QED
    BY <2>1, <2>2, <2>3 DEF SpreadOK
<1>2. IInv /\ [Next]_vars =>
        [\A c \in Clients, u \in Runs : Commit(c, u) =>
           LET q == reqs[c]
           IN  /\ q.regime = "spare-capacity" =>
                    /\ Room(q.runner) + q.drift > 0
                    /\ \A r \in q.among : Room(q.runner) + q.drift >= Room(r)
               /\ q.regime = "saturated" => \A r \in q.among : Room(r) <= q.drift]_vars
  BY <1>1
<1> QED
  BY <1>2, IInvHolds, PTL DEF Spec, SpreadsWithinDrift

-----------------------------------------------------------------------------
(* The draw is fair: whatever fleet is stored, a runner is drawn for as     *)
(* often as its weight says and some runner is drawn for every target.      *)
THEOREM DrawsAreProportional == Spec => []DrawIsProportional
<1>1. DrawIsProportional
  <2>1. SUFFICES ASSUME NEW among \in SUBSET Runners \ {{}}, NEW r \in among,
                        NEW weights, weights = Weights(among, CapacityOf(among)),
                        DOMAIN weights = among
                 PROVE  Cardinality({target \in 0 .. TotalWeight(weights) - 1 :
                                       Drawn(weights, target) = r}) = weights[r]
    BY WeightsDomain DEF DrawIsProportional
  <2>2. PICK cap : cap = CapacityOf(among)
    OBVIOUS
  <2>3. ASSUME NEW s \in among PROVE cap[s].online \in Nat /\ cap[s].registered \in Nat
    <3>1. WorkerCapacity(s) \in [registered : Nat, online : Nat]
      BY CapacityCounts
    <3>2. cap[s].online = WorkerCapacity(s).online /\ cap[s].registered = WorkerCapacity(s).registered
      BY <2>2 DEF CapacityOf
    <3> QED
      BY <3>1, <3>2
  <2>4. weights = Weights(among, cap)
    BY <2>1, <2>2
  <2>5. DOMAIN weights = among /\ \A s \in among : weights[s] \in Nat
    BY <2>3, <2>4, WeightsDomain, WeightsAreNumbers
  <2>6. among \subseteq Nat /\ IsFiniteSet(among)
    BY PlacementAssumption, FS_Subset
  <2>7. Cardinality({target \in 0 .. TotalWeight(weights) - 1 : Drawn(weights, target) = r}) = weights[r]
    BY <2>5, <2>6, DrawsInProportion
  <2> QED
    BY <2>7
<1> QED
  BY <1>1, PTL

-----------------------------------------------------------------------------
(* Previews *)

(* A step of another leaves a request where it is, but for its drift. *)
LEMMA OthersStay ==
  ASSUME IInv, NEW c \in Clients, NEW d \in Clients, d # c, Create(d) \/ Edit(d)
  PROVE  reqs'[c] \in {reqs[c], Drift(reqs[c])}
<1>1. ASSUME NEW q, Now(d, q) \/ NowDrifting(d, q) PROVE reqs'[c] \in {reqs[c], Drift(reqs[c])}
  BY <1>1 DEF Now, NowDrifting, IInv, Shapes
<1>2. CASE ReadScenario(d)
  BY <1>1, <1>2 DEF ReadScenario
<1>3. CASE ListRunners(d)
  BY <1>1, <1>3 DEF ListRunners
<1>4. CASE CountWorkers(d)
  BY <1>1, <1>4 DEF CountWorkers
<1>5. CASE CountRuns(d)
  BY <1>1, <1>5 DEF CountRuns
<1>6. CASE CountFails(d)
  BY <1>1, <1>6 DEF CountFails
<1>7. CASE (\E u \in Runs : Commit(d, u)) \/ CommitFails(d)
  BY <1>1, <1>7 DEF Commit, CommitFails
<1>8. CASE Edit(d)
  <2>1. CASE \E x \in Resources : OpenForm(d, x)
    BY <1>1, <2>1 DEF OpenForm
  <2>2. CASE \E x \in Resources : \E spec \in SpecsOf(x) : CreateRow(d, x, spec)
    BY <2>2 DEF CreateRow
  <2>3. CASE \E spec \in SpecsOf(reqs[d].x) : EditRead(d, spec)
    BY <1>1, <2>3 DEF EditRead
  <2>4. CASE \E spec \in ScenarioSpecs : ScriptRead(d, spec.prob)
    BY <1>1, <2>4 DEF ScriptRead
  <2>5. CASE EditSave(d) \/ ScriptWrite(d) \/ Delete(d) \/ CloseForm(d)
    BY <1>1, <2>5 DEF EditSave, ScriptWrite, Delete, CloseForm
  <2> QED
    BY <1>8, <2>1, <2>2, <2>3, <2>4, <2>5 DEF Edit
<1> QED
  BY <1>2, <1>3, <1>4, <1>5, <1>6, <1>7, <1>8 DEF Create

(* Placement is decided by Place, with the eligible runners, or by choose,  *)
(* with the counts.                                                         *)
LEMMA WhoDecides ==
  ASSUME IInv, [Next]_vars, NEW c \in Clients, reqs[c].step \in {"place", "load"},
         reqs'[c].step = "commit", events' = events
  PROVE  \/ reqs[c].step = "place" /\ ListRunners(c) /\ ~Counted
         \/ reqs[c].step = "load" /\ CountRuns(c)
<1>1. ~Counted
  <2>1. events \in Int
    BY DEF IInv, TypeOK
  <2> QED
    BY <2>1 DEF Counted
<1>2. ReqOK(reqs[c])
  BY DEF IInv, TypeOK, ReqOK
<1>3. reqs'[c] \notin {reqs[c], Drift(reqs[c])}
  BY <1>2, DriftKeeps
<1>4. ~UNCHANGED vars
  BY <1>3 DEF vars
<1>5. \A w \in Workers, presence \in Presence : ~WorkerChanges(w, presence)
  BY <1>1 DEF WorkerChanges
<1>6. \A u \in Runs : ~RunEnds(u)
  BY <1>1 DEF RunEnds
<1>7. Create(c) \/ Edit(c)
  BY <1>3, <1>4, <1>5, <1>6, OthersStay DEF Next
<1>8. reqs[c] # Idle /\ reqs[c].step \notin {"form", "edit", "script", "commit"}
  BY DEF Idle
<1>9. ~Edit(c)
  BY <1>8 DEF Edit, OpenForm, CreateRow, EditRead, EditSave, ScriptRead, ScriptWrite, Delete, CloseForm
<1> QED
  BY <1>1, <1>7, <1>8, <1>9 DEF Create, ReadScenario, ListRunners, CountWorkers, CountRuns, CountFails,
                                Commit, CommitFails

(* What a preview shows of requirements, apart from its sum *)
LEMMA PreviewShows ==
  ASSUME NEW requires
  PROVE  /\ requires = Malformed =>
              /\ Preview(requires).schedulable = FALSE
              /\ Preview(requires).reason = "invalid-requirements"
         /\ requires # Malformed =>
              /\ Preview(requires).schedulable = (Eligible(requires) # {})
              /\ Preview(requires).reason = (IF Eligible(requires) = {} THEN "no-eligible-runner" ELSE "")
<1>1. PICK eligible : eligible = IF requires = Malformed THEN {} ELSE Eligible(requires)
  OBVIOUS
<1>2. PICK spare : spare = SpareSum(eligible, CapacityOf(eligible))
  OBVIOUS
<1>a. PICK schedulable : schedulable = (eligible # {})
  OBVIOUS
<1>b. PICK reason : reason = IF requires = Malformed THEN "invalid-requirements"
                             ELSE IF eligible = {} THEN "no-eligible-runner" ELSE ""
  OBVIOUS
<1>3. Preview(requires) = [schedulable |-> schedulable, reason |-> reason, spare |-> spare]
  BY <1>1, <1>2, <1>a, <1>b, Zenon DEF Preview
<1>c. Preview(requires).schedulable = schedulable /\ Preview(requires).reason = reason
  BY <1>3
<1>4. Preview(requires).schedulable = (eligible # {})
  BY <1>a, <1>c, Zenon
<1>5. Preview(requires).reason =
        IF requires = Malformed THEN "invalid-requirements"
        ELSE IF eligible = {} THEN "no-eligible-runner" ELSE ""
  BY <1>b, <1>c
<1>6. CASE requires = Malformed
  <2>1. eligible = {}
    BY <1>1, <1>6
  <2>2. Preview(requires).schedulable = FALSE
    BY <1>4, <2>1, Zenon
  <2> QED
    BY <1>5, <1>6, <2>2
<1>7. CASE requires # Malformed
  <2>1. eligible = Eligible(requires)
    BY <1>1, <1>7
  <2> QED
    BY <1>4, <1>5, <1>7, <2>1, Zenon
<1> QED
  BY <1>6, <1>7

(* Preview and Place decide alike whether a run is placed, and why not. *)
LEMMA DecisionsAgree ==
  ASSUME IInv, [Next]_vars, NEW c \in Clients, DecidesFromNow(c),
         reqs'[c].step = "commit", events' = events
  PROVE  /\ Preview(reqs[c].of.spec.requires).schedulable = (reqs'[c].runner # NoRunner)
         /\ Preview(reqs[c].of.spec.requires).reason = reqs'[c].reason
<1>1. PICK requires : requires = reqs[c].of.spec.requires
  OBVIOUS
<1>2. PICK of : of = reqs[c].of
  OBVIOUS
<1>3. PICK eligible : eligible = Eligible(requires)
  OBVIOUS
<1>4. eligible \in SUBSET Runners
  BY <1>3 DEF Eligible, Matching
<1>5. \A q : Now(c, q) => reqs'[c] = q
  BY DEF Now, IInv, Shapes
<1>6. Parses(of.spec) <=> requires # Malformed
  BY <1>1, <1>2 DEF Parses
<1>7. CASE reqs[c].step = "place" /\ ListRunners(c) /\ ~Counted
  <2>1. CASE ~Parses(of.spec) /\ Now(c, Unplaced(of, "invalid-requirements"))
    <3>1. reqs'[c].runner = NoRunner /\ reqs'[c].reason = "invalid-requirements"
      <4>1. reqs'[c] = Unplaced(of, "invalid-requirements")
        BY <1>5, <2>1
      <4>2. /\ Unplaced(of, "invalid-requirements").runner = NoRunner
            /\ Unplaced(of, "invalid-requirements").reason = "invalid-requirements"
        BY DEF Unplaced
      <4> QED
        BY <4>1, <4>2, Zenon
    <3>2. requires = Malformed
      BY <1>6, <2>1
    <3> QED
      BY <1>1, <3>1, <3>2, PreviewShows, Zenon
  <2>2. CASE /\ Parses(of.spec)
             /\ Now(c, CASE eligible = {} -> Unplaced(of, "no-eligible-runner")
                         [] Cardinality(eligible) = 1 ->
                              PlacedOn(of, eligible, Min(eligible), "sole-candidate", 0)
                         [] OTHER -> [step |-> "count", of |-> of, among |-> eligible])
    <3>1. eligible = {} => Cardinality(eligible) # 1
      BY FS_EmptySet
    <3>2. CASE eligible = {}
      <4>1. reqs'[c] = Unplaced(of, "no-eligible-runner")
        BY <1>5, <2>2, <3>1, <3>2
      <4>2. reqs'[c].runner = NoRunner /\ reqs'[c].reason = "no-eligible-runner"
        <5>1. /\ Unplaced(of, "no-eligible-runner").runner = NoRunner
              /\ Unplaced(of, "no-eligible-runner").reason = "no-eligible-runner"
          BY DEF Unplaced
        <5> QED
          BY <4>1, <5>1, Zenon
      <4>3. requires # Malformed
        BY <1>6, <2>2
      <4> QED
        BY <1>1, <1>3, <3>2, <4>2, <4>3, PreviewShows, Zenon
    <3>3. CASE eligible # {} /\ Cardinality(eligible) = 1
      <4>1. reqs'[c] = PlacedOn(of, eligible, Min(eligible), "sole-candidate", 0)
        BY <1>5, <2>2, <3>3
      <4>2. Min(eligible) \in Runners /\ Min(eligible) # NoRunner
        BY <1>4, <3>3, NatMin, PlacementAssumption
      <4>3. reqs'[c].runner # NoRunner /\ reqs'[c].reason = ""
        <5>1. /\ PlacedOn(of, eligible, Min(eligible), "sole-candidate", 0).runner = Min(eligible)
              /\ PlacedOn(of, eligible, Min(eligible), "sole-candidate", 0).reason = ""
          BY DEF PlacedOn
        <5> QED
          BY <4>1, <4>2, <5>1, Zenon
      <4>4. requires # Malformed
        BY <1>6, <2>2
      <4> QED
        BY <1>1, <1>3, <3>3, <4>3, <4>4, PreviewShows, Zenon
    <3>4. CASE eligible # {} /\ Cardinality(eligible) # 1
      <4>1. reqs'[c] = [step |-> "count", of |-> of, among |-> eligible]
        BY <1>5, <2>2, <3>4
      <4> QED
        BY <4>1
    <3> QED
      BY <3>2, <3>3, <3>4
  <2> QED
    BY <1>1, <1>2, <1>3, <1>7, <2>1, <2>2 DEF ListRunners
<1>8. CASE reqs[c].step = "load" /\ CountRuns(c)
  <2>1. reqs[c].among = eligible /\ eligible # {} /\ requires # Malformed
    BY <1>1, <1>2, <1>3, <1>6, <1>8 DEF DecidesFromNow, IInv, Shapes, ReqShape
  <2>2. PICK r, regime :
          /\ r \in Selected(eligible, Measured(reqs[c]))
          /\ Now(c, PlacedOn(reqs[c].of, eligible, r, regime, reqs[c].drift))
    BY <1>8, <2>1 DEF CountRuns
  <2>3. r \in eligible
    BY <1>4, <2>1, <2>2, SelectedAmong
  <2>4. reqs'[c].runner # NoRunner /\ reqs'[c].reason = ""
    <3>1. reqs'[c].runner = r /\ reqs'[c].reason = ""
      <4>1. reqs'[c] = PlacedOn(reqs[c].of, eligible, r, regime, reqs[c].drift)
        BY <1>5, <2>2
      <4>2. /\ PlacedOn(reqs[c].of, eligible, r, regime, reqs[c].drift).runner = r
            /\ PlacedOn(reqs[c].of, eligible, r, regime, reqs[c].drift).reason = ""
        BY DEF PlacedOn
      <4> QED
        BY <4>1, <4>2, Zenon
    <3> QED
      BY <3>1, <1>4, <2>3, PlacementAssumption
  <2> QED
    BY <1>1, <1>3, <2>1, <2>4, PreviewShows, Zenon
<1>9. reqs[c].step \in {"place", "load"}
  BY DEF DecidesFromNow
<1> QED
  BY <1>7, <1>8, <1>9, WhoDecides

(* A preview's sum is positive if and only if some runner has room. *)
LEMMA SpareSumOf ==
  ASSUME NEW among \in SUBSET Runners, NEW cap,
         \A r \in among : cap[r].online \in Nat /\ cap[r].committed \in Nat
  PROVE  /\ (\E r \in among : Spare(cap[r]) > 0) => SpareSum(among, cap) > 0
         /\ (\A r \in among : ~(Spare(cap[r]) > 0)) => SpareSum(among, cap) = 0
<1>1. PICK f : f = [r \in among |-> Spare(cap[r])]
  OBVIOUS
<1>2. PICK T : T = {r \in among : Spare(cap[r]) > 0}
  OBVIOUS
<1>3. SpareSum(among, cap) = Total(f, T)
  BY <1>1, <1>2 DEF SpareSum
<1>4. \A r \in T : f[r] \in Nat /\ f[r] > 0
  <2>1. \A r \in among : Spare(cap[r]) \in Int
    BY DEF Spare
  <2> QED
    BY <1>1, <1>2, <2>1
<1>5. IsFiniteSet(T)
  BY <1>2, PlacementAssumption, FS_Subset
<1>6. ASSUME NEW r \in T PROVE Total(f, T) > 0
  <2>1. PICK S : S = T \ {r}
    OBVIOUS
  <2>2. IsFiniteSet(S) /\ \A s \in S : f[s] \in Nat
    BY <1>4, <1>5, <2>1, FS_Subset
  <2>3. Total(f, S) \in Nat
    BY <2>2, TotalRemoves
  <2>4. Total(f, T) = f[r] + Total(f, S)
    BY <1>4, <1>5, <2>1, TotalRemoves
  <2> QED
    BY <1>4, <2>3, <2>4
<1>7. ASSUME T = {} PROVE Total(f, T) = 0
  BY <1>7, TotalOfNone
<1> QED
  BY <1>2, <1>3, <1>6, <1>7

LEMMA PreviewSpare ==
  ASSUME NEW requires, requires # Malformed
  PROVE  Preview(requires).spare = SpareSum(Eligible(requires), CapacityOf(Eligible(requires)))
<1>1. PICK eligible : eligible = Eligible(requires)
  OBVIOUS
<1>2. PICK spare : spare = SpareSum(eligible, CapacityOf(eligible))
  OBVIOUS
<1>3. (IF requires = Malformed THEN {} ELSE Eligible(requires)) = eligible
  BY <1>1
<1>4. PICK schedulable, reason :
        Preview(requires) = [schedulable |-> schedulable, reason |-> reason, spare |-> spare]
  BY <1>2, <1>3 DEF Preview
<1> QED
  BY <1>1, <1>2, <1>4

(* A run is placed by room if and only if a preview finds room. *)
LEMMA SparesAgree ==
  ASSUME IInv, [Next]_vars, NEW c \in Clients, DecidesFromNow(c),
         reqs'[c].step = "commit", events' = events
  PROVE  LET shown == Preview(reqs[c].of.spec.requires)
         IN  /\ reqs'[c].regime = "spare-capacity" => shown.spare > 0
             /\ reqs'[c].regime = "saturated" => shown.spare = 0
<1>1. \A q : Now(c, q) => reqs'[c] = q
  BY DEF Now, IInv, Shapes
<1>2. CASE reqs[c].step = "place" /\ ListRunners(c) /\ ~Counted
  <2>1. PICK of : of = reqs[c].of
    OBVIOUS
  <2>2. PICK eligible : eligible = Eligible(of.spec.requires)
    OBVIOUS
  <2>3. \/ reqs'[c] = Unplaced(of, "invalid-requirements")
        \/ reqs'[c] = Unplaced(of, "no-eligible-runner")
        \/ reqs'[c] = PlacedOn(of, eligible, Min(eligible), "sole-candidate", 0)
        \/ reqs'[c] = [step |-> "count", of |-> of, among |-> eligible]
    BY <1>1, <1>2, <2>1, <2>2, FS_EmptySet DEF ListRunners
  <2>4. \A reason : Unplaced(of, reason).regime = ""
    BY DEF Unplaced
  <2>5. PlacedOn(of, eligible, Min(eligible), "sole-candidate", 0).regime = "sole-candidate"
    BY DEF PlacedOn
  <2>6. reqs'[c] # [step |-> "count", of |-> of, among |-> eligible]
    OBVIOUS
  <2>7. reqs'[c].regime \in {"", "sole-candidate"}
    BY <2>3, <2>4, <2>5, <2>6, Zenon
  <2> QED
    BY <2>7
<1>3. CASE reqs[c].step = "load" /\ CountRuns(c)
  <2>1. PICK requires : requires = reqs[c].of.spec.requires
    OBVIOUS
  <2>2. PICK eligible : eligible = Eligible(requires)
    OBVIOUS
  <2>3. /\ reqs[c].among = eligible /\ eligible \in SUBSET Runners /\ requires # Malformed
        /\ reqs[c].drift = 0
    BY <1>3, <2>1, <2>2 DEF DecidesFromNow, IInv, Shapes, ReqShape, Parses, Eligible, Matching
  <2>4. PICK cap : cap = Measured(reqs[c])
    OBVIOUS
  <2>5. PICK now : now = CapacityOf(eligible)
    OBVIOUS
  <2>6. MeasureOK(reqs[c], OnlineNow)
    BY <1>3 DEF IInv, AllSpread, Spreads
  <2>7. PICK n \in Nat : n = Cardinality(Workers)
    BY PlacementAssumption, FS_CardinalityType
  <2>8. ASSUME NEW r \in eligible
        PROVE  /\ cap[r].online = now[r].online /\ cap[r].committed = now[r].committed
               /\ cap[r].online \in 0 .. n /\ cap[r].committed \in Nat
    <3>1. /\ cap[r].online = reqs[c].found[r].online /\ cap[r].committed = Committed(r)
          /\ now[r].online = WorkerCapacity(r).online /\ now[r].committed = Committed(r)
      BY <2>3, <2>4, <2>5 DEF Measured, CapacityOf
    <3>2. Committed(r) \in Nat
      BY Counts DEF Committed, InFlightAt
    <3>3. WorkerCapacity(r).online = OnlineNow[r] /\ OnlineNow[r] \in Nat
      BY <2>3, Counts, CapacityCounts DEF OnlineNow
    <3>4. /\ reqs[c].found[r].online \in 0 .. n
          /\ reqs[c].found[r].online - OnlineNow[r] <= 0
          /\ OnlineNow[r] - reqs[c].found[r].online <= 0
      BY <2>3, <2>6, <2>7 DEF MeasureOK
    <3>5. reqs[c].found[r].online = OnlineNow[r]
      BY <2>7, <3>3, <3>4
    <3> QED
      BY <3>1, <3>2, <3>3, <3>4, <3>5
  <2>9. \A r \in eligible : /\ Spare(cap[r]) = Spare(now[r])
                            /\ now[r].online \in Nat /\ now[r].committed \in Nat
    BY <2>7, <2>8 DEF Spare
  <2>10. Preview(requires).spare = SpareSum(eligible, now)
    BY <2>2, <2>3, <2>5, PreviewSpare
  <2>11. PICK r : reqs'[c] = PlacedOn(reqs[c].of, eligible, r,
                      IF BySpare(eligible, cap) # {} THEN "spare-capacity" ELSE "saturated", 0)
    BY <1>1, <1>3, <2>3, <2>4 DEF CountRuns
  <2>12. reqs'[c].regime = IF BySpare(eligible, cap) # {} THEN "spare-capacity" ELSE "saturated"
    <3>1. \A regime : PlacedOn(reqs[c].of, eligible, r, regime, 0).regime = regime
      BY DEF PlacedOn
    <3> QED
      BY <2>11, <3>1, Zenon
  <2>13. CASE BySpare(eligible, cap) # {}
    <3>1. \E s \in eligible : Spare(now[s]) > 0
      BY <2>9, <2>13 DEF BySpare
    <3>2. SpareSum(eligible, now) > 0
      BY <2>3, <2>9, <3>1, SpareSumOf
    <3> QED
      BY <2>1, <2>10, <2>12, <2>13, <3>2
  <2>14. CASE BySpare(eligible, cap) = {}
    <3>1. \A s \in eligible : ~(Spare(cap[s]) > 0)
      BY <2>3, <2>8, <2>14, BestExists
    <3>2. SpareSum(eligible, now) = 0
      BY <2>3, <2>9, <3>1, SpareSumOf
    <3> QED
      BY <2>1, <2>10, <2>12, <2>14, <3>2
  <2> QED
    BY <2>13, <2>14
<1>4. reqs[c].step \in {"place", "load"}
  BY DEF DecidesFromNow
<1> QED
  BY <1>2, <1>3, <1>4, WhoDecides

(* Preview and Place repeat one decision in two places: they cannot         *)
(* disagree on whether a run is placed, on the reason if it is not, nor on  *)
(* whether there is room for it, for any fleet and requirements.            *)
THEOREM PreviewsAgree == Spec => PreviewAgrees
<1>1. IInv /\ [Next]_vars =>
        [\A c \in Clients :
           DecidesFromNow(c) /\ reqs'[c].step = "commit" /\ events' = events
             => LET shown == Preview(reqs[c].of.spec.requires)
                    q == reqs'[c]
                IN  /\ shown.schedulable = (q.runner # NoRunner)
                    /\ shown.reason = q.reason
                    /\ q.regime = "spare-capacity" => shown.spare > 0
                    /\ q.regime = "saturated" => shown.spare = 0]_vars
  BY DecisionsAgree, SparesAgree
<1> QED
  BY <1>1, IInvHolds, PTL DEF Spec, PreviewAgrees
=============================================================================
