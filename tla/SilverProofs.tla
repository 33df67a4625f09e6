---------------------------- MODULE SilverProofs ----------------------------
(***************************************************************************)
(* Theorems about Silver for any documents, entities and number of         *)
(* observations.                                                           *)
(*                                                                         *)
(* First the fold: what Staged makes of any set of objects that were       *)
(* observed one after the other is keyed, has one current row for each     *)
(* entity, and as of any moment one version of it.  Then the types of the  *)
(* specification, which hold for any number of builders.                   *)
(*                                                                         *)
(* The rest is for one builder (OneBuilder): each table is then the fold   *)
(* of some of what was ever observed (Fold), a build in progress has       *)
(* listed no less than that, or will, and only objects (Underway), and     *)
(* merging the fold of more into the fold of less gives the former.        *)
(***************************************************************************)
EXTENDS Silver, FiniteSetTheorems, WellFoundedInduction, TLAPS

Observation == [entity : Entities, record : Records, rest : Rests, at : 1..MaxObjects]

\* Observations of one entity are made one after the other.
InOrder(V) == \A v, w \in V : v.entity = w.entity /\ v.at = w.at => v = w

Seen(V) == V \in SUBSET Observation /\ InOrder(V)

\* No two objects were stored at once.
Apart(O) == O \in SUBSET Object /\ \A o, p \in O : o.at = p.at => o = p

-----------------------------------------------------------------------------
(* The earliest and the latest of a set of moments. *)

\* A set of naturals has a least element.
LEMMA LeastOf ==
    ASSUME NEW S \in SUBSET Nat, S # {}
    PROVE  \E m \in S : \A n \in S : m <= n
<1> DEFINE R == OpToRel(<, Nat)
<1>1. IsWellFoundedOn(R, Nat)
  BY NatLessThanWellFounded
<1>2. \A x, y \in Nat : y < x => <<y, x>> \in R
  BY DEF OpToRel
<1> HIDE DEF R
<1>3. PICK m \in S : \A n \in S : ~ (<<n, m>> \in R)
  BY <1>1, WFMin
<1>4. \A n \in S : ~ (n < m)
  BY <1>2, <1>3
<1> QED BY <1>4

\* A bounded set of naturals has a greatest element.
LEMMA GreatestOf ==
    ASSUME NEW S \in SUBSET Nat, S # {}, NEW top \in Nat, \A n \in S : n <= top
    PROVE  \E m \in S : \A n \in S : n <= m
<1> DEFINE U == {u \in Nat : \A n \in S : n <= u}
<1>1. PICK u \in U : \A v \in U : u <= v
  BY LeastOf
<1>2. u \in Nat /\ \A n \in S : n \in Nat /\ n <= u
  BY <1>1
<1>3. CASE u \in S
  BY <1>2, <1>3
<1>4. CASE u \notin S
  <2>1. \A n \in S : n \in Nat /\ n < u
    BY <1>2, <1>4
  <2>2. PICK x \in S : TRUE
    OBVIOUS
  <2>3. u # 0
    BY <1>2, <2>1, <2>2
  <2> DEFINE w == u - 1
  <2>4. w \in Nat /\ (\A n \in S : n <= w) /\ w < u
    BY <1>2, <2>1, <2>3
  <2> HIDE DEF w
  <2>5. u <= w
    BY <2>4, <1>1
  <2> QED BY <1>2, <2>4, <2>5
<1> QED BY <1>3, <1>4

-----------------------------------------------------------------------------
(* The fold. *)

\* What is known of one object of bronze.
LEMMA ObjectFacts ==
    ASSUME NEW o \in Object
    PROVE  /\ o.doc \in Docs /\ o.at \in 1..MaxObjects /\ o.says \in Bodies[o.doc]
           /\ DOMAIN o.says \subseteq Entities
           /\ \A e \in DOMAIN o.says : o.says[e].record \in Records /\ o.says[e].rest \in Rests
<1>1. PICK d \in Docs : o \in [doc : {d}, at : 1..MaxObjects, says : Bodies[d]]
  BY DEF Object
<1>2. o.doc = d /\ o.at \in 1..MaxObjects /\ o.says \in Bodies[d]
  BY <1>1
<1>3. DOMAIN o.says \subseteq Entities
      /\ o.says \in [DOMAIN o.says -> [record : Records, rest : Rests]]
  BY <1>2, BodyAssumption
<1> QED BY <1>2, <1>3

\* The observations of objects with stamps of their own.
LEMMA ObservationsSeen ==
    ASSUME NEW O, Apart(O)
    PROVE  Seen(Observations(O))
<1>1. ASSUME NEW v \in Observations(O)
      PROVE  \E o \in O : /\ v.entity \in DOMAIN o.says /\ v.at = o.at
                          /\ v = [entity |-> v.entity, record |-> o.says[v.entity].record,
                                  rest |-> o.says[v.entity].rest, at |-> o.at]
  BY DEF Observations
<1>2. Observations(O) \in SUBSET Observation
  <2> SUFFICES ASSUME NEW v \in Observations(O) PROVE v \in Observation
    OBVIOUS
  <2>1. PICK o \in O : /\ v.entity \in DOMAIN o.says
                       /\ v = [entity |-> v.entity, record |-> o.says[v.entity].record,
                               rest |-> o.says[v.entity].rest, at |-> o.at]
    BY <1>1
  <2>2. o \in Object
    BY DEF Apart
  <2> QED BY <2>1, <2>2, ObjectFacts DEF Observation
<1>3. InOrder(Observations(O))
  <2> SUFFICES ASSUME NEW v \in Observations(O), NEW w \in Observations(O),
                      v.entity = w.entity, v.at = w.at
               PROVE  v = w
    BY DEF InOrder
  <2> QED BY <1>1 DEF Apart
<1> QED BY <1>2, <1>3 DEF Seen

\* Of the observations with one record the earliest stays, and only it.
LEMMA FirstSeenFacts ==
    ASSUME NEW V, Seen(V)
    PROVE  /\ FirstSeen(V) \subseteq V /\ Seen(FirstSeen(V))
           /\ \A f, g \in FirstSeen(V) : f.entity = g.entity /\ f.record = g.record => f = g
           /\ \A v \in V : \E f \in FirstSeen(V) :
                  f.entity = v.entity /\ f.record = v.record /\ f.at <= v.at
<1>1. FirstSeen(V) \subseteq V /\ Seen(FirstSeen(V))
  BY DEF FirstSeen, Seen, InOrder
<1>2. ASSUME NEW f \in FirstSeen(V), NEW g \in FirstSeen(V),
             f.entity = g.entity, f.record = g.record
      PROVE  f = g
  <2>1. f.at \in Nat /\ g.at \in Nat /\ f \in V /\ g \in V
    BY <1>1, BoundAssumption DEF Seen, Observation
  <2>2. f.at <= g.at /\ g.at <= f.at
    BY <1>2, <2>1 DEF FirstSeen
  <2> QED BY <1>2, <2>1, <2>2 DEF Seen, InOrder
<1>3. ASSUME NEW v \in V
      PROVE  \E f \in FirstSeen(V) : f.entity = v.entity /\ f.record = v.record /\ f.at <= v.at
  <2> DEFINE Same == {w \in V : w.entity = v.entity /\ w.record = v.record}
             Times == {w.at : w \in Same}
  <2>1. \A w \in V : w.at \in Nat
    BY BoundAssumption DEF Seen, Observation
  <2>2. Times \in SUBSET Nat /\ v.at \in Times
    BY <2>1
  <2> HIDE DEF Times
  <2>3. PICK t \in Times : \A u \in Times : t <= u
    BY <2>2, LeastOf
  <2>4. PICK f \in Same : f.at = t
    BY <2>3 DEF Times
  <2>5. f \in FirstSeen(V)
    BY <2>3, <2>4 DEF FirstSeen, Times
  <2> QED BY <2>2, <2>3, <2>4, <2>5
<1> QED BY <1>1, <1>2, <1>3

\* A window ends with the next observation of its entity.
LEMMA UntilFacts ==
    ASSUME NEW V, Seen(V), NEW v \in V
    PROVE  \/ Until(V, v) = Open /\ Later(V, v) = {}
           \/ /\ Until(V, v) \in 1..MaxObjects
              /\ \E w \in Later(V, v) : w.at = Until(V, v)
              /\ \A w \in Later(V, v) : Until(V, v) <= w.at
<1>1. CASE Later(V, v) = {}
  BY <1>1 DEF Until
<1>2. CASE Later(V, v) # {}
  <2> DEFINE Times == {w.at : w \in Later(V, v)}
             Least(t) == \A w \in Later(V, v) : t <= w.at
  <2>1. \A w \in Later(V, v) : w.at \in 1..MaxObjects /\ w.at \in Nat
    BY BoundAssumption DEF Later, Seen, Observation
  <2>2. Times \in SUBSET Nat /\ Times # {}
    BY <1>2, <2>1
  <2>3. \E t \in Times : \A u \in Times : t <= u
    <3> HIDE DEF Times
    <3> QED BY <2>2, LeastOf
  <2>4. \E t \in Times : Least(t)
    BY <2>3
  <2>5. Until(V, v) = CHOOSE t \in Times : Least(t)
    BY <1>2 DEF Until
  <2>6. Until(V, v) \in Times /\ Least(Until(V, v))
    <3> HIDE DEF Times, Least
    <3> QED BY <2>4, <2>5
  <2> QED BY <2>1, <2>6
<1> QED BY <1>1, <1>2

\* So a row is valid from its observation until there is a later one.
LEMMA WindowFacts ==
    ASSUME NEW V, Seen(V), NEW v \in V, NEW t \in Nat
    PROVE  (v.at <= t /\ (Until(V, v) = Open \/ t < Until(V, v)))
           <=> (v.at <= t /\ \A w \in V : w.entity = v.entity => ~(v.at < w.at /\ w.at <= t))
<1>1. \A w \in V : w.at \in Nat /\ w.at >= 1
  BY BoundAssumption DEF Seen, Observation
<1>2. \A w : w \in Later(V, v) <=> w \in V /\ w.entity = v.entity /\ v.at < w.at
  BY DEF Later
<1>3. CASE Until(V, v) = Open /\ Later(V, v) = {}
  BY <1>2, <1>3
<1>4. CASE /\ Until(V, v) \in 1..MaxObjects
           /\ \E w \in Later(V, v) : w.at = Until(V, v)
           /\ \A w \in Later(V, v) : Until(V, v) <= w.at
  <2>1. Until(V, v) \in Nat /\ Until(V, v) # Open
    BY <1>4, BoundAssumption DEF Open
  <2> QED BY <1>1, <1>2, <1>4, <2>1
<1> QED BY <1>3, <1>4, UntilFacts

-----------------------------------------------------------------------------
(* The rows of the fold. *)

RowOf(V, c, v) == [entity |-> v.entity, record |-> v.record, derived |-> <<v.rest, c>>,
                   from |-> v.at, to |-> Until(V, v)]

Seen1(O) == FirstSeen(Observations(O))

\* Folded rows are rows.
LEMMA WindowsTyped ==
    ASSUME NEW V, Seen(V), NEW c \in 1..MaxCode
    PROVE  Windows(V, c) \in SUBSET Row
<1> SUFFICES ASSUME NEW v \in V PROVE RowOf(V, c, v) \in Row
  BY DEF Windows, RowOf
<1>1. v \in Observation /\ Until(V, v) \in (1..MaxObjects) \cup {Open}
  BY UntilFacts DEF Seen
<1> QED BY <1>1 DEF Observation, Row, RowOf

\* Folding objects of different stamps gives rows with different keys.
LEMMA StagedTyped ==
    ASSUME NEW O, Apart(O), NEW c \in 1..MaxCode
    PROVE  Staged(O, c) \in SUBSET Row /\ Keyed(Staged(O, c))
<1>1. Seen(Seen1(O)) /\ \A f, g \in Seen1(O) : f.entity = g.entity /\ f.record = g.record => f = g
  BY ObservationsSeen, FirstSeenFacts DEF Seen1
<1>2. Staged(O, c) = Windows(Seen1(O), c)
  BY DEF Staged, Seen1
<1>3. Keyed(Windows(Seen1(O), c))
  BY <1>1 DEF Windows, Keyed, SameKey
<1> QED BY <1>1, <1>2, <1>3, WindowsTyped

\* The last observation of e by time t.
LastBy(V, e, t) == {v \in V : /\ v.entity = e /\ v.at <= t
                              /\ \A w \in V : w.entity = e => ~(v.at < w.at /\ w.at <= t)}

Valid(T, e, t) == {r \in T : r.entity = e /\ ValidAt(r, t)}

\* The row valid at a moment is that of the last version seen by then.
LEMMA ValidIsLast ==
    ASSUME NEW V, Seen(V), NEW c, NEW e, NEW t \in Nat
    PROVE  Valid(Windows(V, c), e, t) = {RowOf(V, c, v) : v \in LastBy(V, e, t)}
<1>1. Windows(V, c) = {RowOf(V, c, v) : v \in V}
  BY DEF Windows, RowOf
<1>2. ASSUME NEW v \in V
      PROVE  (RowOf(V, c, v).entity = e /\ ValidAt(RowOf(V, c, v), t)) <=> v \in LastBy(V, e, t)
  <2>1. /\ RowOf(V, c, v).entity = v.entity /\ RowOf(V, c, v).from = v.at
        /\ RowOf(V, c, v).to = Until(V, v)
    BY DEF RowOf
  <2>2. ValidAt(RowOf(V, c, v), t)
        <=> (v.at <= t /\ \A w \in V : w.entity = v.entity => ~(v.at < w.at /\ w.at <= t))
    BY <2>1, WindowFacts DEF ValidAt, IsCurrent
  <2> QED BY <2>1, <2>2 DEF LastBy
<1>3. LastBy(V, e, t) \subseteq V
  BY DEF LastBy
<1> QED BY <1>1, <1>2, <1>3 DEF Valid

\* There is one, if e was observed by then.
LEMMA LastIsOne ==
    ASSUME NEW V, Seen(V), NEW e, NEW t \in Nat
    PROVE  /\ \A v, w \in LastBy(V, e, t) : v = w
           /\ (\E v \in V : v.entity = e /\ v.at <= t) => LastBy(V, e, t) # {}
<1>1. \A v \in V : v.at \in Nat
  BY BoundAssumption DEF Seen, Observation
<1>2. ASSUME NEW v \in LastBy(V, e, t), NEW w \in LastBy(V, e, t) PROVE v = w
  <2>1. v.at = w.at /\ v.entity = w.entity
    BY <1>1 DEF LastBy
  <2> QED BY <2>1 DEF LastBy, Seen, InOrder
<1>3. ASSUME NEW u \in V, u.entity = e, u.at <= t PROVE LastBy(V, e, t) # {}
  <2> DEFINE Early == {w \in V : w.entity = e /\ w.at <= t}
             Times == {w.at : w \in Early}
  <2>1. Times \in SUBSET Nat /\ Times # {} /\ \A n \in Times : n <= t
    BY <1>1, <1>3
  <2>2. PICK n \in Times : \A m \in Times : m <= n
    <3> HIDE DEF Times
    <3> QED BY <2>1, GreatestOf
  <2>3. PICK v \in Early : v.at = n
    OBVIOUS
  <2>4. v \in LastBy(V, e, t)
    BY <1>1, <2>2, <2>3 DEF LastBy
  <2> QED BY <2>4
<1> QED BY <1>2, <1>3

\* One row is valid at a moment from the first version on, none before.
LEMMA OneValid ==
    ASSUME NEW V, Seen(V), NEW c, NEW e, NEW t \in Nat
    PROVE  Cardinality(Valid(Windows(V, c), e, t)) =
              IF \E r \in Windows(V, c) : r.entity = e /\ r.from <= t THEN 1 ELSE 0
<1> DEFINE T == Windows(V, c)
<1>1. (\E r \in T : r.entity = e /\ r.from <= t) <=> (\E v \in V : v.entity = e /\ v.at <= t)
  <2>1. T = {RowOf(V, c, v) : v \in V}
    BY DEF Windows, RowOf
  <2>2. \A v : RowOf(V, c, v).entity = v.entity /\ RowOf(V, c, v).from = v.at
    BY DEF RowOf
  <2> HIDE DEF T
  <2> QED BY <2>1, <2>2
<1>2. Valid(T, e, t) = {RowOf(V, c, v) : v \in LastBy(V, e, t)}
  BY ValidIsLast
<1>3. CASE \E v \in V : v.entity = e /\ v.at <= t
  <2>1. PICK v \in LastBy(V, e, t) : TRUE
    BY <1>3, LastIsOne
  <2>2. LastBy(V, e, t) = {v}
    BY <2>1, LastIsOne
  <2>3. Valid(T, e, t) = {RowOf(V, c, v)}
    BY <1>2, <2>2
  <2> HIDE DEF T
  <2>4. Cardinality(Valid(T, e, t)) = 1
    BY <2>3, FS_Singleton
  <2> QED BY <1>1, <1>3, <2>4 DEF T
<1>4. CASE ~ \E v \in V : v.entity = e /\ v.at <= t
  <2>1. Valid(T, e, t) = {}
    BY <1>2, <1>4 DEF LastBy
  <2> HIDE DEF T
  <2>2. Cardinality(Valid(T, e, t)) = 0
    BY <2>1, FS_EmptySet
  <2> QED BY <1>1, <1>4, <2>2 DEF T
<1> QED BY <1>3, <1>4

\* A row is current if it is valid at the end of time.
LEMMA OneCurrent ==
    ASSUME NEW V, Seen(V), NEW c \in 1..MaxCode, NEW r \in Windows(V, c)
    PROVE  Cardinality({s \in Windows(V, c) : s.entity = r.entity /\ IsCurrent(s)}) = 1
<1> DEFINE T == Windows(V, c)
<1>1. \A s \in T : s.from \in Nat /\ s.from <= MaxObjects /\ (s.to = Open \/ s.to <= MaxObjects)
                   /\ s.to \in Nat
  BY WindowsTyped, BoundAssumption DEF Row, Open
<1>2. \A s \in T : IsCurrent(s) <=> ValidAt(s, MaxObjects)
  BY <1>1, BoundAssumption DEF IsCurrent, ValidAt, Open
<1>3. {s \in T : s.entity = r.entity /\ IsCurrent(s)} = Valid(T, r.entity, MaxObjects)
  BY <1>2 DEF Valid
<1>4. Cardinality(Valid(T, r.entity, MaxObjects)) = 1
  BY <1>1, OneValid, BoundAssumption
<1> QED BY <1>3, <1>4

-----------------------------------------------------------------------------
(* Folding more objects. *)

\* More objects add observations, and only at stamps of theirs.
LEMMA MoreObservations ==
    ASSUME NEW P, NEW O \in SUBSET P
    PROVE  /\ Observations(O) \subseteq Observations(P)
           /\ \A v \in Observations(P) \ Observations(O) : \E p \in P \ O : v.at = p.at
BY DEF Observations

\* The fold O has all that P observes of e up to t.
Has(O, P, e, t) ==
    \A w \in Observations(P) : w.entity = e /\ w.at <= t =>
        \E v \in Seen1(O) : v.entity = e /\ v.record = w.record /\ v.at <= w.at

\* The past of a fold that has it does not depend on what else is observed.
LEMMA PastOfFold ==
    ASSUME NEW P, Apart(P), NEW O \in SUBSET P, NEW t \in Nat, NEW e, Has(O, P, e, t)
    PROVE  {v \in Seen1(O) : v.entity = e /\ v.at <= t} =
           {v \in Seen1(P) : v.entity = e /\ v.at <= t}
<1> DEFINE V == Observations(O)
           W == Observations(P)
<1>1. Apart(O)
  BY DEF Apart
<1>2. V \subseteq W /\ InOrder(W) /\ (\A w \in W : w.at \in Nat) /\ Seen(V)
  BY <1>1, MoreObservations, ObservationsSeen, BoundAssumption DEF Seen, Observation
<1>3. \A w \in W : w.entity = e /\ w.at <= t =>
          \E v \in FirstSeen(V) : v.entity = e /\ v.record = w.record /\ v.at <= w.at
  BY DEF Has, Seen1
<1> HIDE DEF V, W
<1>4. FirstSeen(V) \subseteq V
      /\ \A f, g \in FirstSeen(V) : f.entity = g.entity /\ f.record = g.record => f = g
  BY <1>2, FirstSeenFacts
<1>5. ASSUME NEW v \in FirstSeen(V), v.entity = e, v.at <= t PROVE v \in FirstSeen(W)
  <2>1. v \in W /\ v.at \in Nat
    BY <1>2, <1>4
  <2>2. ASSUME NEW w \in W, w.entity = e, w.record = v.record, w.at < v.at PROVE FALSE
    <3>1. w.at \in Nat /\ w.at <= t
      BY <1>2, <1>5, <2>1, <2>2
    <3>2. PICK u \in FirstSeen(V) : u.entity = e /\ u.record = w.record /\ u.at <= w.at
      BY <1>3, <2>2, <3>1
    <3>3. u = v
      BY <1>4, <1>5, <2>2, <3>2
    <3> QED BY <2>1, <2>2, <3>1, <3>2, <3>3
  <2>3. ASSUME NEW w \in W, w.entity = v.entity, w.record = v.record PROVE v.at <= w.at
    BY <1>2, <1>5, <2>1, <2>2, <2>3
  <2> QED BY <2>1, <2>3 DEF FirstSeen
<1>6. ASSUME NEW v \in FirstSeen(W), v.entity = e, v.at <= t PROVE v \in FirstSeen(V)
  <2>1. v \in W /\ \A w \in W : w.entity = v.entity /\ w.record = v.record => v.at <= w.at
    BY DEF FirstSeen
  <2>2. PICK u \in FirstSeen(V) : u.entity = e /\ u.record = v.record /\ u.at <= v.at
    BY <1>3, <1>6, <2>1
  <2>3. u \in W
    BY <1>2, <1>4, <2>2
  <2>4. v.at <= u.at /\ v.at \in Nat /\ u.at \in Nat
    BY <1>2, <1>6, <2>1, <2>2, <2>3
  <2>5. u.at = v.at
    BY <2>2, <2>4
  <2> QED BY <1>2, <1>6, <2>1, <2>2, <2>3, <2>5 DEF InOrder
<1> QED BY <1>5, <1>6 DEF Seen1, V, W

\* And so what the fold says of a moment does not, whatever version of the code
\* folds.
LEMMA AsOfFold ==
    ASSUME NEW P, Apart(P), NEW O \in SUBSET P, NEW t \in Nat, NEW e, Has(O, P, e, t),
           NEW c, NEW d
    PROVE  AsOf(Staged(O, c), e, t) = AsOf(Staged(P, d), e, t)
<1>1. Apart(O)
  BY DEF Apart
<1>2. Seen(Seen1(O)) /\ Seen(Seen1(P))
  BY <1>1, ObservationsSeen, FirstSeenFacts DEF Seen1
<1>3. {v \in Seen1(O) : v.entity = e /\ v.at <= t} = {v \in Seen1(P) : v.entity = e /\ v.at <= t}
  BY PastOfFold
<1>4. LastBy(Seen1(O), e, t) = LastBy(Seen1(P), e, t)
  BY <1>3 DEF LastBy
<1>5. ASSUME NEW V, Seen(V), NEW b
      PROVE  AsOf(Windows(V, b), e, t) = {v.record : v \in LastBy(V, e, t)}
  <2>1. AsOf(Windows(V, b), e, t) = {r.record : r \in Valid(Windows(V, b), e, t)}
    BY DEF AsOf, Valid
  <2>2. \A v : RowOf(V, b, v).record = v.record
    BY DEF RowOf
  <2> QED BY <1>5, <2>1, <2>2, ValidIsLast
<1> QED BY <1>2, <1>4, <1>5 DEF Staged, Seen1

\* The fold of more has every key that the fold of less has.
LEMMA KeysOfFold ==
    ASSUME NEW P, Apart(P), NEW O \in SUBSET P, NEW c, NEW d, NEW r \in Staged(O, c)
    PROVE  \E s \in Staged(P, d) : SameKey(r, s)
<1>1. Apart(O)
  BY DEF Apart
<1>2. PICK v \in Seen1(O) : r.entity = v.entity /\ r.record = v.record
  BY DEF Staged, Windows, Seen1
<1>3. v \in Observations(P)
  BY <1>1, <1>2, ObservationsSeen, FirstSeenFacts, MoreObservations DEF Seen1
<1>4. PICK f \in Seen1(P) : f.entity = v.entity /\ f.record = v.record
  BY <1>3, ObservationsSeen, FirstSeenFacts DEF Seen1
<1>5. RowOf(Seen1(P), d, f) \in Staged(P, d)
  BY <1>4 DEF Staged, Windows, Seen1, RowOf
<1>6. SameKey(r, RowOf(Seen1(P), d, f))
  BY <1>2, <1>4 DEF SameKey, RowOf
<1> QED BY <1>5, <1>6

\* Merging it replaces the table; if nothing is stale, it is the table.
LEMMA MergeFold ==
    ASSUME NEW P, Apart(P), NEW O \in SUBSET P, NEW c \in 1..MaxCode, NEW d \in 1..MaxCode
    PROVE  /\ Merged(Staged(P, d), Staged(O, c)) = Staged(P, d)
           /\ ~Stale(Staged(P, d), Staged(O, c)) => Staged(O, c) = Staged(P, d)
<1> DEFINE S == Staged(P, d)
           T == Staged(O, c)
<1>1. Apart(O)
  BY DEF Apart
<1>2. \A r \in T : \E s \in S : SameKey(r, s)
  BY KeysOfFold
<1>3. Keyed(S) /\ Keyed(T)
  BY <1>1, StagedTyped
<1> HIDE DEF S, T
<1>4. Merged(S, T) = S
  BY <1>2 DEF Merged, SameKey
<1>5. ASSUME ~Stale(S, T) PROVE T = S
  BY <1>2, <1>3, <1>5 DEF Stale, Keyed
<1> QED BY <1>4, <1>5 DEF S, T

-----------------------------------------------------------------------------
(* Types, for any number of builders. *)

Job == [pc : {"idle", "list", "compare", "merge", "done"}, kind : Kinds, code : 1..MaxCode,
        begun : 0..clock, listing : [Kinds -> SUBSET objects]]

ObjectsOK == objects \in SUBSET Object /\ clock \in 0..MaxObjects
             /\ Apart(objects) /\ \A o \in objects : o.at <= clock

TablesOK  == table \in [Kinds -> SUBSET Row] /\ \A k \in Kinds : Keyed(table[k])

IInv == ObjectsOK /\ TablesOK /\ code \in 1..MaxCode /\ run \in [Builders -> Job]

\* The tables start empty.
LEMMA InitOK == Init => IInv
<1>1. 1 \in 1..MaxCode /\ 0 \in 0..MaxObjects
  BY BoundAssumption
<1> QED BY <1>1 DEF Init, IInv, ObjectsOK, TablesOK, Apart, Keyed, Job, Idle, Kinds, Proposals

\* A new object has a stamp of its own.
LEMMA ObserveOK ==
    ASSUME IInv, NEW d \in Docs, NEW says \in Bodies[d], Observe(d, says)
    PROVE  /\ ObjectsOK' /\ run' \in [Builders -> Job']
           /\ \E o \in Object : objects' = objects \cup {o} /\ o.at = clock + 1
<1> DEFINE o == [doc |-> d, at |-> clock + 1, says |-> says]
<1>1. clock \in Nat /\ clock + 1 \in 1..MaxObjects /\ clock' = clock + 1
      /\ objects' = objects \cup {o} /\ run' = run
  BY BoundAssumption DEF IInv, ObjectsOK, Observe
<1>2. o \in Object /\ o.at = clock + 1
  BY <1>1 DEF Object
<1>3. \A p \in objects : p.at \in Nat /\ p.at <= clock
  BY ObjectFacts, BoundAssumption DEF IInv, ObjectsOK
<1> HIDE DEF o
<1>4. ObjectsOK'
  BY <1>1, <1>2, <1>3, BoundAssumption DEF IInv, ObjectsOK, Apart
<1>5. run' \in [Builders -> Job']
  <2>1. 0..clock \subseteq 0..clock' /\ SUBSET objects \subseteq SUBSET objects'
    BY <1>1
  <2>2. \A f \in [Kinds -> SUBSET objects] : f \in [Kinds -> SUBSET objects']
    BY <2>1
  <2>3. Job \subseteq Job'
    BY <2>1, <2>2 DEF Job
  <2> QED BY <1>1, <2>3 DEF IInv
<1> QED BY <1>1, <1>2, <1>4, <1>5

\* What a builder lists are objects apart from each other.
LEMMA SourcesApart ==
    ASSUME IInv
    PROVE  /\ \A k \in Kinds : Sources(k) \subseteq objects
           /\ \A O \in SUBSET objects : Apart(O)
BY DEF IInv, ObjectsOK, Apart, Sources

\* What a builder staged can be merged.
LEMMA StagedByOK ==
    ASSUME IInv, NEW b \in Builders
    PROVE  StagedBy(b) \in SUBSET Row /\ Keyed(StagedBy(b)) /\ run[b].kind \in Kinds
<1>1. /\ run[b].kind \in Kinds /\ run[b].code \in 1..MaxCode
      /\ run[b].listing[run[b].kind] \in SUBSET objects
  BY DEF IInv, Job
<1> QED BY <1>1, SourcesApart, StagedTyped DEF StagedBy

\* The guarded MERGE keeps one row for each key.
LEMMA MergedKeyed ==
    ASSUME NEW S \in SUBSET Row, NEW T \in SUBSET Row, Keyed(S), Keyed(T)
    PROVE  Merged(S, T) \in SUBSET Row /\ Keyed(Merged(S, T))
BY DEF Merged, Keyed, SameKey

\* A job goes on to its next table or ends.
LEMMA AdvanceOK ==
    ASSUME IInv, NEW b \in Builders, Advance(b), UNCHANGED <<objects, clock>>
    PROVE  run' \in [Builders -> Job']
<1>1. run[b] \in Job /\ run \in [Builders -> Job] /\ Job' = Job
  BY DEF IInv, Job
<1>2. [run[b] EXCEPT !.pc = "done"] \in Job
      /\ [run[b] EXCEPT !.pc = "compare", !.kind = Posts] \in Job
  BY <1>1 DEF Job, Kinds, Posts
<1> QED BY <1>1, <1>2 DEF Advance, Become

\* A step of a builder changes its own run and, in a merge, one table.
LEMMA BuilderOK ==
    ASSUME IInv, NEW b \in Builders, Start(b) \/ List(b) \/ Compare(b) \/ Merge(b) \/ Crash(b)
    PROVE  /\ IInv' /\ UNCHANGED <<objects, clock, code>>
           /\ \E r \in Job : run' = [run EXCEPT ![b] = r]
           /\ UNCHANGED table \/ Merge(b)
<1>1. UNCHANGED <<objects, clock, code>> /\ (UNCHANGED table \/ Merge(b))
  BY DEF Start, List, Compare, Merge, Crash
<1>2. ObjectsOK' /\ code' \in 1..MaxCode /\ Job' = Job /\ run[b] \in Job
      /\ run \in [Builders -> Job]
  BY <1>1 DEF IInv, ObjectsOK, Apart, Job
<1>3. 0 \in 0..clock /\ clock \in 0..clock
  BY BoundAssumption DEF IInv, ObjectsOK
<1>4. \E r \in Job : run' = [run EXCEPT ![b] = r]
  <2>1. CASE Start(b)
    <3>1. [Idle EXCEPT !.pc = "list", !.code = code, !.begun = clock] \in Job
      BY <1>3 DEF IInv, Idle, Job, Kinds, Proposals
    <3> QED BY <2>1, <3>1 DEF Start, Become
  <2>2. CASE List(b)
    <3>1. PICK listed \in SUBSET Sources(run[b].kind) :
             LET r == [run[b] EXCEPT !.listing[run[b].kind] = listed]
             IN  Become(b, IF r.kind = Posts
                           THEN [r EXCEPT !.pc = "compare", !.kind = Proposals, !.begun = 0]
                           ELSE [r EXCEPT !.kind = Posts, !.begun = clock])
      BY <2>2 DEF List
    <3> DEFINE r == [run[b] EXCEPT !.listing[run[b].kind] = listed]
    <3>2. r \in Job
      BY <1>2, SourcesApart DEF Job
    <3>3. [r EXCEPT !.pc = "compare", !.kind = Proposals, !.begun = 0] \in Job
          /\ [r EXCEPT !.kind = Posts, !.begun = clock] \in Job
      BY <1>3, <3>2 DEF Job, Kinds, Proposals, Posts
    <3> QED BY <3>1, <3>3 DEF Become
  <2>3. [run[b] EXCEPT !.pc = "done"] \in Job
        /\ [run[b] EXCEPT !.pc = "compare", !.kind = Posts] \in Job
        /\ [run[b] EXCEPT !.pc = "merge"] \in Job
    BY <1>2 DEF Job, Kinds, Posts
  <2>4. CASE Compare(b)
    BY <2>3, <2>4 DEF Compare, Advance, Become
  <2>5. CASE Merge(b)
    BY <2>3, <2>5 DEF Merge, Advance, Become
  <2>6. CASE Crash(b)
    <3>1. Idle \in Job
      BY <1>3, BoundAssumption DEF Idle, Job, Kinds, Proposals
    <3> QED BY <2>6, <3>1 DEF Crash, Become
  <2> QED BY <2>1, <2>2, <2>4, <2>5, <2>6
<1>5. TablesOK'
  <2>1. CASE UNCHANGED table
    BY <2>1 DEF IInv, TablesOK
  <2>2. CASE Merge(b)
    <3>1. table' = [table EXCEPT ![run[b].kind] = Merged(StagedBy(b), @)]
      BY <2>2 DEF Merge
    <3>2. Merged(StagedBy(b), table[run[b].kind]) \in SUBSET Row
          /\ Keyed(Merged(StagedBy(b), table[run[b].kind]))
      BY StagedByOK, MergedKeyed DEF IInv, TablesOK
    <3> QED BY <3>1, <3>2, StagedByOK DEF IInv, TablesOK
  <2> QED BY <1>1, <2>1, <2>2
<1> QED BY <1>1, <1>2, <1>4, <1>5 DEF IInv

\* Every step keeps the types.
LEMMA StepOK == IInv /\ [Next]_vars => IInv'
<1> SUFFICES ASSUME IInv, [Next]_vars PROVE IInv'
  OBVIOUS
<1>1. ASSUME NEW d \in Docs, NEW says \in Bodies[d], Observe(d, says) PROVE IInv'
  <2>1. TablesOK' /\ code' \in 1..MaxCode
    BY <1>1 DEF Observe, IInv, TablesOK
  <2> QED BY <1>1, <2>1, ObserveOK DEF IInv
<1>2. CASE Deploy
  <2>1. code' \in 1..MaxCode
    BY <1>2, BoundAssumption DEF Deploy, IInv
  <2> QED BY <1>2, <2>1 DEF Deploy, IInv, ObjectsOK, TablesOK, Apart, Job
<1>3. CASE UNCHANGED vars
  BY <1>3 DEF vars, IInv, ObjectsOK, TablesOK, Apart, Job
<1> QED BY <1>1, <1>2, <1>3, BuilderOK DEF Next

\* Both tables hold rows of the right kind, one for each entity and record,
\* and a job in progress has listed objects of bronze, however many builds
\* run at once and wherever they crash.
THEOREM SilverTypeOK == Spec => []TypeOK
<1>1. IInv => TypeOK
  BY DEF IInv, TypeOK, ObjectsOK, TablesOK, Job
<1> QED BY <1>1, InitOK, StepOK, PTL DEF Spec

-----------------------------------------------------------------------------
(* One builder. *)

OneBuilder == \A b, c \in Builders : b = c

\* The builder's job has listed, or has merged, the objects of k.
Listed(b, k) == \/ run[b].pc \in {"compare", "merge", "done"}
                \/ run[b].pc = "list" /\ run[b].kind = Posts /\ k = Proposals
Built(b, k)  == \/ run[b].pc = "done"
                \/ run[b].pc \in {"compare", "merge"} /\ run[b].kind = Posts /\ k = Proposals

\* A listing that is under way will have all that was there when it began.
Awaits(b, O) == run[b].pc = "list" => \A o \in O : o.at <= run[b].begun

Folded(k, O, c) == /\ c \in 1..MaxCode /\ O \subseteq Sources(k) /\ table[k] = Staged(O, c)
                   /\ \A b \in Builders : /\ Listed(b, k) => O \subseteq run[b].listing[k]
                                          /\ Awaits(b, O)

Fold     == \A k \in Kinds : \E O, c : Folded(k, O, c)
Underway == \A b \in Builders, k \in Kinds :
               /\ Listed(b, k) => run[b].listing[k] \subseteq Sources(k)
               /\ Built(b, k)  => table[k] = Staged(run[b].listing[k], run[b].code)

FInv == IInv /\ Fold /\ Underway

\* Empty tables are the fold of no object.
LEMMA FoldInit == Init => FInv
<1> SUFFICES ASSUME Init PROVE FInv
  OBVIOUS
<1>1. Staged({}, 1) = {}
  BY DEF Staged, FirstSeen, Observations, Windows
<1>2. 1 \in 1..MaxCode
  BY BoundAssumption
<1>3. \A b \in Builders, k \in Kinds : ~Listed(b, k) /\ ~Built(b, k)
  BY DEF Init, Idle, Listed, Built
<1>4. \A k \in Kinds : Folded(k, {}, 1)
  BY <1>1, <1>2, <1>3 DEF Folded, Awaits, Init
<1> QED BY <1>3, <1>4, InitOK DEF FInv, Fold, Underway

\* A builder's listing has different stamps.
LEMMA ListedApart ==
    ASSUME IInv, NEW k \in Kinds, NEW O \in SUBSET Sources(k)
    PROVE  Apart(O)
BY SourcesApart

\* What is stored now is in no fold yet.
LEMMA FoldObserve ==
    ASSUME FInv, NEW d \in Docs, NEW says \in Bodies[d], Observe(d, says)
    PROVE  Fold' /\ Underway'
<1>1. PICK o \in Object : objects' = objects \cup {o} /\ o.at = clock + 1
  BY ObserveOK DEF FInv
<1>2. UNCHANGED <<code, table, run>>
  BY DEF Observe
<1>3. \A k \in Kinds : Sources(k) \subseteq Sources(k)'
  BY <1>1 DEF Sources
<1>4. \A b, k : (Listed(b, k)' <=> Listed(b, k)) /\ (Built(b, k)' <=> Built(b, k))
  BY <1>2 DEF Listed, Built
<1>5. Fold'
  BY <1>2, <1>3, <1>4 DEF FInv, Fold, Folded, Awaits
<1>6. Underway'
  BY <1>2, <1>3, <1>4 DEF FInv, Underway
<1> QED BY <1>5, <1>6

\* The fold of the table is merged or was already there.
LEMMA MergeBuilds ==
    ASSUME OneBuilder, FInv, NEW b \in Builders, Compare(b) \/ Merge(b)
    PROVE  Fold' /\ Underway'
<1>1. /\ run[b].kind \in Kinds /\ run[b].code \in 1..MaxCode /\ run[b] \in Job
      /\ run \in [Builders -> Job] /\ table \in [Kinds -> SUBSET Row]
  BY DEF FInv, IInv, Job, TablesOK
<1> PICK k \in Kinds : k = run[b].kind
  BY <1>1
<1> PICK L : L = run[b].listing[k]
  OBVIOUS
<1> PICK c \in 1..MaxCode : c = run[b].code
  BY <1>1
<1>2. Listed(b, k) /\ L \subseteq Sources(k) /\ Apart(L)
  BY <1>1, ListedApart DEF FInv, Underway, Listed, Compare, Merge
<1>3. PICK O, e : Folded(k, O, e)
  BY <1>1 DEF FInv, Fold
<1>4. StagedBy(b) = Staged(L, c)
  BY DEF StagedBy
<1>5. Merged(StagedBy(b), table[k]) = Staged(L, c)
      /\ (~Stale(StagedBy(b), table[k]) => table[k] = Staged(L, c))
  BY <1>1, <1>2, <1>3, <1>4, MergeFold DEF Folded
<1>6. \A j : Sources(j)' = Sources(j)
  BY DEF Sources, Compare, Merge
<1>7. run[b].pc \in {"compare", "merge"} /\ \A a \in Builders : a = b
  BY DEF Compare, Merge, OneBuilder
<1>8. CASE Compare(b) /\ Stale(StagedBy(b), table[k])
  <2>1. run' = [run EXCEPT ![b] = [run[b] EXCEPT !.pc = "merge"]] /\ table' = table
    BY <1>8 DEF Compare, Become
  <2>2. run'[b].pc = "merge" /\ run'[b].kind = run[b].kind /\ run'[b].code = run[b].code
        /\ run'[b].listing = run[b].listing
    BY <1>1, <2>1 DEF Job
  <2>3. \A j \in Kinds : (Listed(b, j)' <=> Listed(b, j)) /\ (Built(b, j)' <=> Built(b, j))
    BY <1>7, <2>2 DEF Listed, Built
  <2>4. \A M : Awaits(b, M)'
    BY <2>2 DEF Awaits
  <2> QED BY <1>6, <1>7, <2>1, <2>2, <2>3, <2>4 DEF FInv, Fold, Folded, Underway
<1>9. CASE Merge(b) \/ ~Stale(StagedBy(b), table[k])
  <2>1. Advance(b)
    BY <1>9 DEF Merge, Compare
  <2>2. table' = [table EXCEPT ![k] = Staged(L, c)]
    <3>1. CASE Merge(b)
      BY <3>1, <1>5 DEF Merge
    <3>2. CASE Compare(b) /\ ~Stale(StagedBy(b), table[k])
      BY <1>1, <3>2, <1>5 DEF Compare
    <3> QED BY <1>9, <3>1, <3>2
  <2>3. run'[b].listing = run[b].listing /\ run'[b].code = c
    BY <1>1, <2>1 DEF Advance, Become, Job
  <2>4. IF k = Posts THEN run'[b].pc = "done"
                     ELSE run'[b].pc = "compare" /\ run'[b].kind = Posts
    BY <1>1, <2>1 DEF Advance, Become, Job
  <2>5. \A j \in Kinds : Listed(b, j) /\ Listed(b, j)' /\ (Built(b, j)' => j = k \/ Built(b, j))
    BY <1>1, <1>7, <2>4 DEF Listed, Built, Kinds, Posts, Proposals
  <2>6. table'[k] = Staged(L, c) /\ \A j \in Kinds \ {k} : table'[j] = table[j]
    BY <1>1, <2>2
  <2>7. \A M : Awaits(b, M)'
    BY <2>4 DEF Awaits
  <2>8. Folded(k, L, c)'
    BY <1>1, <1>2, <1>6, <1>7, <2>3, <2>6, <2>7 DEF Folded
  <2>9. ASSUME NEW j \in Kinds \ {k} PROVE \E P, d : Folded(j, P, d)'
    BY <1>6, <1>7, <2>3, <2>5, <2>6, <2>7 DEF FInv, Fold, Folded
  <2>10. Fold'
    BY <2>8, <2>9 DEF Fold
  <2>11. Underway'
    BY <1>6, <1>7, <2>3, <2>5, <2>6 DEF FInv, Underway
  <2> QED BY <2>10, <2>11
<1> QED BY <1>8, <1>9

\* With one builder every step keeps each table the fold of some of bronze.
LEMMA FoldStep == OneBuilder /\ FInv /\ [Next]_vars => FInv'
<1> SUFFICES ASSUME OneBuilder, FInv, [Next]_vars PROVE Fold' /\ Underway'
  BY StepOK DEF FInv
<1>1. ASSUME NEW d \in Docs, NEW says \in Bodies[d], Observe(d, says) PROVE Fold' /\ Underway'
  BY <1>1, FoldObserve
<1>2. CASE Deploy \/ UNCHANGED vars
  <2>1. UNCHANGED <<objects, table, run>>
    BY <1>2 DEF Deploy, vars
  <2>2. \A j, b : /\ Sources(j)' = Sources(j) /\ (Listed(b, j)' <=> Listed(b, j))
                  /\ (Built(b, j)' <=> Built(b, j))
    BY <2>1 DEF Sources, Listed, Built
  <2>3. Fold'
    BY <2>1, <2>2 DEF FInv, Fold, Folded, Awaits
  <2>4. Underway'
    BY <2>1, <2>2 DEF FInv, Underway
  <2> QED BY <2>3, <2>4
<1>3. ASSUME NEW b \in Builders, Start(b) \/ Crash(b) PROVE Fold' /\ Underway'
  <2>1. UNCHANGED <<objects, table>> /\ run[b] \in Job /\ run \in [Builders -> Job]
    BY <1>3 DEF Start, Crash, FInv, IInv
  <2>2. /\ run'[b].kind = Proposals /\ run'[b].pc \in {"idle", "list"}
        /\ run'[b].pc = "list" => run'[b].begun = clock
    <3> DEFINE r == [Idle EXCEPT !.pc = "list", !.code = code, !.begun = clock]
    <3>1. /\ r.kind = Proposals /\ r.pc = "list" /\ r.begun = clock
          /\ Idle.kind = Proposals /\ Idle.pc = "idle"
      BY DEF Idle
    <3>2. run' = [run EXCEPT ![b] = r] \/ run' = [run EXCEPT ![b] = Idle]
      BY <1>3 DEF Start, Crash, Become
    <3> HIDE DEF r
    <3> QED BY <2>1, <3>1, <3>2
  <2>3. \A j \in Kinds : ~Listed(b, j)' /\ ~Built(b, j)'
    BY <2>2 DEF Listed, Built, Proposals, Posts
  <2>4. \A a \in Builders : a = b
    BY DEF OneBuilder
  <2>5. \A j : Sources(j)' = Sources(j) /\ \A o \in Sources(j) : o.at <= clock
    BY <2>1 DEF Sources, FInv, IInv, ObjectsOK
  <2>6. \A j, O : O \subseteq Sources(j) => Awaits(b, O)'
    BY <2>2, <2>5 DEF Awaits
  <2>7. Fold'
    BY <2>1, <2>3, <2>4, <2>5, <2>6 DEF FInv, Fold, Folded
  <2>8. Underway'
    BY <2>3, <2>4 DEF Underway
  <2> QED BY <2>7, <2>8
<1>4. ASSUME NEW b \in Builders, List(b) PROVE Fold' /\ Underway'
  <2> PICK k : k = run[b].kind
    OBVIOUS
  <2>1. UNCHANGED <<objects, table>> /\ run[b] \in Job /\ run \in [Builders -> Job]
        /\ run[b].pc = "list" /\ \A a \in Builders : a = b
    BY <1>4 DEF List, FInv, IInv, OneBuilder
  <2>2. PICK listed \in SUBSET Sources(k) :
           /\ \A o \in Sources(k) \ listed : run[b].begun < o.at
           /\ LET r == [run[b] EXCEPT !.listing[run[b].kind] = listed]
              IN  Become(b, IF r.kind = Posts
                            THEN [r EXCEPT !.pc = "compare", !.kind = Proposals, !.begun = 0]
                            ELSE [r EXCEPT !.kind = Posts, !.begun = clock])
    BY <1>4 DEF List
  <2> DEFINE r == [run[b] EXCEPT !.listing[k] = listed]
  <2>3. r.kind = k /\ r.pc = "list" /\ r.listing = [run[b].listing EXCEPT ![k] = listed]
        /\ k \in Kinds /\ run[b].listing \in [Kinds -> SUBSET objects]
    BY <2>1 DEF Job
  <2>4. run' = [run EXCEPT ![b] = IF k = Posts
                     THEN [r EXCEPT !.pc = "compare", !.kind = Proposals, !.begun = 0]
                     ELSE [r EXCEPT !.kind = Posts, !.begun = clock]]
    BY <2>2, <2>3 DEF Become
  <2>5. /\ run'[b].listing = [run[b].listing EXCEPT ![k] = listed]
        /\ IF k = Posts THEN run'[b].pc = "compare" /\ run'[b].kind = Proposals
                        ELSE /\ run'[b].pc = "list" /\ run'[b].kind = Posts
                             /\ run'[b].begun = clock
    BY <2>1, <2>3, <2>4 DEF Job
  <2>6. \A j \in Kinds : ~Built(b, j)' /\ (Listed(b, j)' => j = k \/ Listed(b, j))
    BY <2>1, <2>3, <2>5 DEF Listed, Built, Kinds, Posts, Proposals
  <2>7. run'[b].listing[k] = listed
        /\ \A j \in Kinds \ {k} : run'[b].listing[j] = run[b].listing[j]
    BY <2>3, <2>5
  <2>8. \A j : Sources(j)' = Sources(j) /\ \A o \in Sources(j) : o.at \in Nat /\ o.at <= clock
    BY <2>1, ObjectFacts, BoundAssumption DEF Sources, FInv, IInv, ObjectsOK
  <2>9. run[b].begun \in Nat
    BY <2>1, BoundAssumption DEF Job, FInv, IInv, ObjectsOK
  <2>10. \A j, O : O \subseteq Sources(j) => Awaits(b, O)'
    BY <2>5, <2>8 DEF Awaits
  <2>11. \A O : O \subseteq Sources(k) /\ Awaits(b, O) => O \subseteq listed
    BY <2>1, <2>2, <2>8, <2>9 DEF Awaits
  <2> HIDE DEF r
  <2>12. ASSUME NEW j \in Kinds, NEW O, NEW c, Folded(j, O, c) PROVE Folded(j, O, c)'
    <3>1. c \in 1..MaxCode /\ O \subseteq Sources(j) /\ table[j] = Staged(O, c)
          /\ (Listed(b, j) => O \subseteq run[b].listing[j]) /\ Awaits(b, O)
      BY <2>12 DEF Folded
    <3>2. Listed(b, j)' => O \subseteq run'[b].listing[j]
      BY <2>6, <2>7, <2>11, <3>1
    <3> QED BY <2>1, <2>8, <2>10, <3>1, <3>2 DEF Folded
  <2>13. Fold'
    BY <2>12 DEF FInv, Fold
  <2>14. Underway'
    BY <2>1, <2>6, <2>7, <2>8 DEF FInv, Underway
  <2> QED BY <2>13, <2>14
<1>5. ASSUME NEW b \in Builders, Compare(b) \/ Merge(b) PROVE Fold' /\ Underway'
  BY <1>5, MergeBuilds
<1> QED BY <1>1, <1>2, <1>3, <1>4, <1>5 DEF Next

\* With one builder the invariant holds in every behaviour.
LEMMA Inductive ==
    ASSUME OneBuilder
    PROVE  Spec => []FInv
BY FoldInit, FoldStep, PTL DEF Spec

-----------------------------------------------------------------------------

\* If builds do not overlap, an entity of a table has one current row, at any
\* moment: also between the commits of a build, after a build that died between
\* them, after a deploy, and while bronze grows.
THEOREM OneIsCurrent ==
    ASSUME OneBuilder
    PROVE  Spec => []ExactlyOneCurrent
<1>1. FInv => ExactlyOneCurrent
  <2> SUFFICES ASSUME FInv, NEW k \in Kinds, NEW r \in table[k]
               PROVE  Cardinality({s \in table[k] : s.entity = r.entity /\ IsCurrent(s)}) = 1
    BY DEF ExactlyOneCurrent
  <2>1. PICK O, c : Folded(k, O, c)
    BY DEF FInv, Fold
  <2>2. table[k] = Windows(Seen1(O), c) /\ Seen(Seen1(O)) /\ c \in 1..MaxCode
    BY <2>1, ListedApart, ObservationsSeen, FirstSeenFacts DEF Folded, FInv, Staged, Seen1
  <2> QED BY <2>2, OneCurrent
<1> QED BY <1>1, Inductive, PTL

\* And as of any moment since its first observation one version, none before.
THEOREM OneVersionValid ==
    ASSUME OneBuilder
    PROVE  Spec => []OneVersionAtATime
<1>1. FInv => OneVersionAtATime
  <2> SUFFICES ASSUME FInv, NEW k \in Kinds, NEW e \in Entities, NEW t \in 1..MaxObjects
               PROVE  Cardinality({r \in table[k] : r.entity = e /\ ValidAt(r, t)}) =
                         IF \E r \in table[k] : r.entity = e /\ r.from <= t THEN 1 ELSE 0
    BY DEF OneVersionAtATime
  <2>1. PICK O, c : Folded(k, O, c)
    BY DEF FInv, Fold
  <2>2. table[k] = Windows(Seen1(O), c) /\ Seen(Seen1(O)) /\ t \in Nat
    BY <2>1, ListedApart, ObservationsSeen, FirstSeenFacts, BoundAssumption
       DEF Folded, FInv, Staged, Seen1
  <2>3. ASSUME NEW T, T = table[k]
        PROVE  Cardinality(Valid(T, e, t)) = IF \E r \in T : r.entity = e /\ r.from <= t THEN 1 ELSE 0
    BY <2>2, <2>3, OneValid
  <2>4. Cardinality(Valid(table[k], e, t)) =
           IF \E r \in table[k] : r.entity = e /\ r.from <= t THEN 1 ELSE 0
    BY <2>3
  <2> QED BY <2>4 DEF Valid
<1> QED BY <1>1, Inductive, PTL

\* A finished build leaves the fold of what it listed, whatever was there.
THEOREM SilverIsPure ==
    ASSUME OneBuilder
    PROVE  Spec => []PureFunctionOfBronze
<1>1. FInv => PureFunctionOfBronze
  BY DEF FInv, Underway, Built, PureFunctionOfBronze
<1> QED BY <1>1, Inductive, PTL

\* A rebuild never changes what a table says of a moment up to which it has all
\* that was observed.
THEOREM ThePastIsSettled ==
    ASSUME OneBuilder
    PROVE  Spec => PastIsSettled
<1> DEFINE Settled == \A k \in Kinds, e \in Entities, t \in 1..clock :
                         HasPast(k, e, t) => AsOf(table'[k], e, t) = AsOf(table[k], e, t)
<1>1. FInv /\ FInv' /\ [Next]_vars => Settled
  <2> SUFFICES ASSUME FInv, FInv', [Next]_vars, NEW k \in Kinds, NEW e \in Entities,
                      NEW t \in 1..clock, HasPast(k, e, t)
               PROVE  AsOf(table'[k], e, t) = AsOf(table[k], e, t)
    OBVIOUS
  <2>1. CASE UNCHANGED table
    BY <2>1
  <2>2. ASSUME NEW b \in Builders, Merge(b) PROVE AsOf(table'[k], e, t) = AsOf(table[k], e, t)
    <3>1. /\ table' = [table EXCEPT ![run[b].kind] = Merged(StagedBy(b), @)]
          /\ run[b].kind \in Kinds /\ table \in [Kinds -> SUBSET Row]
          /\ run[b].code \in 1..MaxCode
      BY <2>2 DEF Merge, FInv, IInv, Job, TablesOK
    <3>2. CASE k # run[b].kind
      BY <3>1, <3>2
    <3>3. CASE k = run[b].kind
      <4> DEFINE L == run[b].listing[k]
      <4>1. PICK O, c : Folded(k, O, c)
        BY DEF FInv, Fold
      <4>2. Listed(b, k) /\ O \subseteq L /\ L \subseteq Sources(k) /\ Apart(L) /\ Apart(O)
        BY <2>2, <3>3, <4>1, ListedApart DEF Merge, Listed, Folded, FInv, Underway
      <4>3. table'[k] = Staged(L, run[b].code)
        BY <3>1, <3>3, <4>1, <4>2, MergeFold DEF Folded, StagedBy
      <4>4. Has(O, L, e, t)
        <5> SUFFICES ASSUME NEW w \in Observations(L), w.entity = e, w.at <= t
                     PROVE  \E v \in Seen1(O) : v.entity = e /\ v.record = w.record /\ v.at <= w.at
          BY DEF Has
        <5>1. PICK o \in L : e \in DOMAIN o.says /\ w.at = o.at /\ w.record = o.says[e].record
          BY DEF Observations
        <5>2. PICK r \in table[k] : r.entity = e /\ r.record = w.record /\ r.from <= w.at
          BY <4>2, <5>1 DEF HasPast
        <5>3. PICK v \in Seen1(O) : r.entity = v.entity /\ r.record = v.record /\ r.from = v.at
          BY <4>1 DEF Folded, Staged, Windows, Seen1
        <5> QED BY <5>2, <5>3
      <4>5. t \in Nat
        OBVIOUS
      <4> HIDE DEF L
      <4> QED BY <4>1, <4>2, <4>3, <4>4, <4>5, AsOfFold DEF Folded
    <3> QED BY <3>2, <3>3
  <2>3. UNCHANGED table \/ \E b \in Builders : Merge(b)
    BY DEF Next, vars, Observe, Deploy, Start, List, Compare, Crash
  <2> QED BY <2>1, <2>2, <2>3
<1>2. Settled => [Settled]_vars
  OBVIOUS
<1> QED BY <1>1, <1>2, Inductive, PTL DEF Spec, PastIsSettled
=============================================================================
