--------------------------- MODULE ListingProofs ---------------------------
(***************************************************************************)
(* Theorems about Listing for any feed, page size, limit and number of     *)
(* changes while a listing goes on.                                        *)
(*                                                                         *)
(* Proposals: what is not collected lies below the cursor, or has a twin   *)
(* of its second that is collected (SnapInv).                              *)
(*                                                                         *)
(* Topics, as long as none is deleted: a change moves every topic by at    *)
(* most one place to the back and keeps the order of those it does not     *)
(* touch (Slides).  So a topic that was not seen stays behind the pages    *)
(* that were read, and a seen one is no farther behind them than there     *)
(* were changes (SlideInv).                                                *)
(***************************************************************************)
EXTENDS Listing, FiniteSetTheorems, SequenceTheorems, WellFoundedInduction, TLAPS

Types == /\ source \in {"snapshot", "discourse"} /\ pc \in {"list", "done", "failed"}
         /\ feed \in Seq(Items) /\ Stayed \subseteq Held
         /\ collected \in SUBSET Items /\ IsFiniteSet(collected)
         /\ cursor \in Nat /\ page \in Nat /\ moves \in Nat

-----------------------------------------------------------------------------
(* Proposals. *)

Twin(i) == \E c \in collected : Created[c] = Created[i]

\* A listing of proposals under way: nothing between the cursor and the newest
\* is missing.
SnapInv ==
    source = "snapshot" /\ pc = "list" /\ ~ignored =>
        /\ seen = collected /\ Cardinality(collected) < Limit
        /\ cursor = NoCursor => collected = {}
        /\ \A c \in collected : cursor <= Created[c]
        /\ \A i \in Stayed \ collected : cursor = NoCursor \/ Created[i] < cursor \/ Twin(i)

\* A batch has an oldest proposal.
LEMMA OldestFacts ==
    ASSUME NEW B \in SUBSET Items, B # {}
    PROVE  /\ Oldest(B) \in Nat \ {0} /\ \E b \in B : Created[b] = Oldest(B)
           /\ \A b \in B : Oldest(B) <= Created[b]
<1> DEFINE S == {Created[i] : i \in B}
           R == OpToRel(<, Nat)
<1>1. S \in SUBSET (Nat \ {0}) /\ S # {}
  BY FeedAssumption
<1>2. \A x, y \in Nat : y < x => <<y, x>> \in R
  BY DEF OpToRel
<1>3. IsWellFoundedOn(R, Nat)
  BY NatLessThanWellFounded
<1> HIDE DEF S, R
<1>4. PICK t \in S : \A u \in S : ~ (<<u, t>> \in R)
  BY <1>1, <1>3, WFMin
<1>5. \A u \in S : t <= u
  <2>1. t \in Nat /\ \A u \in S : u \in Nat /\ ~ (u < t)
    BY <1>1, <1>2, <1>4
  <2> QED BY <2>1
<1>6. \E s \in S : \A i \in B : s <= Created[i]
  BY <1>4, <1>5 DEF S
<1>7. Oldest(B) \in S /\ \A i \in B : Oldest(B) <= Created[i]
  BY <1>6 DEF Oldest, S
<1> QED BY <1>1, <1>7 DEF S

\* A batch is the newest of C, all of C if there are fewer than asked for.
LEMMA NewestFacts ==
    ASSUME NEW C \in SUBSET Items, IsFiniteSet(C), NEW n \in Nat, NEW B \in Newest(C, n)
    PROVE  /\ B \subseteq C /\ IsFiniteSet(B) /\ Cardinality(B) \in Nat /\ Cardinality(B) <= n
           /\ Cardinality(B) < n => B = C
           /\ \A b \in B, c \in C \ B : Created[c] <= Created[b]
<1>1. /\ B \subseteq C /\ Cardinality(B) = Lesser(n, Cardinality(C))
      /\ \A b \in B, c \in C \ B : Created[b] >= Created[c]
  BY DEF Newest
<1>2. IsFiniteSet(B) /\ Cardinality(B) \in Nat /\ Cardinality(C) \in Nat
  BY <1>1, FS_Subset, FS_CardinalityType
<1>3. Cardinality(B) = Cardinality(C) => B = C
  BY <1>1, FS_Subset
<1>4. \A i \in Items : Created[i] \in Nat
  BY FeedAssumption
<1> QED BY <1>1, <1>2, <1>3, <1>4 DEF Lesser

\* What is at finitely many places is finite.
LEMMA AtPlaces ==
    ASSUME NEW P, IsFiniteSet(P), NEW s
    PROVE  /\ IsFiniteSet({s[n] : n \in P}) /\ Cardinality(P) \in Nat
           /\ Cardinality({s[n] : n \in P}) \in Nat
           /\ Cardinality({s[n] : n \in P}) <= Cardinality(P)
<1> DEFINE f == [n \in P |-> s[n]]
           S == {s[n] : n \in P}
<1>1. f \in Surjection(P, S)
  BY DEF Surjection
<1> QED BY <1>1, FS_Surjection, FS_CardinalityType

\* What is held is finite.
LEMMA HeldFinite ==
    ASSUME feed \in Seq(Items)
    PROVE  /\ Len(feed) \in Nat /\ DOMAIN feed = 1..Len(feed)
           /\ Held \in SUBSET Items /\ IsFiniteSet(Held)
<1>1. Len(feed) \in Nat /\ DOMAIN feed = 1..Len(feed) /\ \A n \in DOMAIN feed : feed[n] \in Items
  BY LenProperties, ElementOfSeq
<1>2. IsFiniteSet(DOMAIN feed)
  BY <1>1, FS_Interval
<1>3. Held = {feed[n] : n \in DOMAIN feed}
  BY DEF Held, ToSet
<1>4. IsFiniteSet({feed[n] : n \in DOMAIN feed})
  BY <1>2, AtPlaces
<1> QED BY <1>1, <1>3, <1>4

\* A page of proposals leaves no gap above the new cursor, and none at all if it
\* is the last.
LEMMA FetchProposalsOK ==
    ASSUME Types, SnapInv, FetchProposals
    PROVE  Types' /\ SnapInv' /\ ProposalsComplete'
<1>1. /\ source = "snapshot" /\ pc = "list"
      /\ UNCHANGED <<source, feed, page, moves, touched, deleted>>
  BY DEF FetchProposals
<1>2. PICK honoured \in BOOLEAN : \E B \in Replies(honoured) :
        /\ ignored' = (ignored \/ (~honoured /\ cursor # NoCursor))
        /\ collected' = collected \cup (B \ seen)
        /\ seen' = seen \cup B
        /\ IF B = {} \/ Stalled(B)
           THEN pc' = "done" /\ UNCHANGED cursor
           ELSE /\ cursor' = Oldest(B)
                /\ pc' = IF Cardinality(B) < BatchSize \/ Cardinality(collected') >= Limit
                         THEN "done" ELSE "list"
  BY DEF FetchProposals
<1>3. PICK B \in Replies(honoured) :
        /\ ignored' = (ignored \/ (~honoured /\ cursor # NoCursor))
        /\ collected' = collected \cup (B \ seen)
        /\ seen' = seen \cup B
        /\ IF B = {} \/ Stalled(B)
           THEN pc' = "done" /\ UNCHANGED cursor
           ELSE /\ cursor' = Oldest(B)
                /\ pc' = IF Cardinality(B) < BatchSize \/ Cardinality(collected') >= Limit
                         THEN "done" ELSE "list"
  BY <1>2
<1> DEFINE C == IF honoured /\ cursor # NoCursor THEN {i \in Held : Created[i] < cursor} ELSE Held
<1>4. /\ C \in SUBSET Items /\ IsFiniteSet(C) /\ C \subseteq Held
      /\ B \in Newest(C, BatchSize) /\ B \subseteq C
  <2>1. Held \in SUBSET Items /\ IsFiniteSet(Held)
    BY HeldFinite DEF Types
  <2>2. C \subseteq Held
    OBVIOUS
  <2>3. B \in Newest(C, BatchSize)
    BY <1>3 DEF Replies
  <2> QED BY <2>1, <2>2, <2>3, FS_Subset DEF Newest
<1> HIDE DEF C
<1>5. IsFiniteSet(B) /\ B \in SUBSET Items
  BY <1>4, FS_Subset
<1>6. B # {} => Oldest(B) \in Nat
  BY <1>5, OldestFacts
<1>7. collected' \in SUBSET Items /\ IsFiniteSet(collected')
  <2>1. IsFiniteSet(B \ seen)
    BY <1>5, FS_Subset
  <2> QED BY <1>3, <1>5, <2>1, FS_Union DEF Types
<1>8. Types'
  BY <1>1, <1>3, <1>6, <1>7 DEF Types, Stayed, Held
<1>9. CASE ignored'
  BY <1>8, <1>9 DEF SnapInv, ProposalsComplete
<1>10. CASE ~ignored'
  <2>1. /\ ~ignored /\ C = IF cursor = NoCursor THEN Held ELSE {i \in Held : Created[i] < cursor}
    BY <1>3, <1>10 DEF C
  <2>2. /\ seen = collected /\ Cardinality(collected) < Limit
        /\ cursor = NoCursor => collected = {}
        /\ \A c \in collected : cursor <= Created[c]
        /\ \A i \in Stayed \ collected : cursor = NoCursor \/ Created[i] < cursor \/ Twin(i)
    BY <1>1, <2>1 DEF SnapInv
  <2>3. collected' = collected \cup B /\ seen' = collected'
    BY <1>3, <2>2
  <2>4. /\ cursor \in Nat /\ \A i \in Items : Created[i] \in Nat /\ Created[i] # 0
        /\ Stayed \subseteq Held
    BY FeedAssumption DEF Types
  <2>5. \A i \in Stayed \ collected : i \in C \/ Twin(i)
    BY <2>1, <2>2, <2>4
  <2>6. \A c \in collected, i \in C : Created[i] < Created[c]
    BY <1>4, <1>7, <2>1, <2>2, <2>4 DEF Types
  <2>7. /\ Cardinality(collected) \in Nat /\ BatchSize \in Nat \ {0}
        /\ Cardinality(collected) + BatchSize <= Limit
    BY <2>2, PageAssumption, FS_CardinalityType DEF Types, BatchSize, Lesser
  <2>8. /\ Cardinality(B) \in Nat /\ Cardinality(B) <= BatchSize
        /\ Cardinality(B) < BatchSize => B = C
        /\ \A b \in B, c \in C \ B : Created[c] <= Created[b]
    BY <1>4, <2>7, NewestFacts
  <2>9. /\ Cardinality(collected') \in Nat /\ Cardinality(collected') <= Limit
    <3>1. /\ Cardinality(collected') = Cardinality(collected) + Cardinality(B)
                                        - Cardinality(collected \cap B)
          /\ IsFiniteSet(collected \cap B) /\ Limit \in Nat
      BY <1>5, <2>3, FS_Union, FS_Subset, PageAssumption DEF Types
    <3>2. Cardinality(collected \cap B) \in Nat /\ Cardinality(collected') \in Nat
      BY <1>7, <3>1, FS_CardinalityType
    <3> QED BY <2>7, <2>8, <3>1, <3>2
  <2>10. Stayed' = Stayed /\ \A i : Twin(i) => Twin(i)'
    BY <1>1, <2>3 DEF Stayed, Twin
  \* What is missing is older than the whole batch, or has a twin.
  <2>11. ASSUME NEW i \in Stayed \ collected', ~Twin(i)'
         PROVE  i \in C \ B /\ \A b \in B : Created[i] < Created[b]
    <3>1. i \in C \ B
      BY <2>3, <2>5, <2>10, <2>11
    <3>2. \A b \in B : Created[i] # Created[b]
      BY <2>3, <2>11 DEF Twin
    <3> QED BY <1>4, <2>4, <2>8, <3>1, <3>2
  <2>12. CASE pc' = "done"
    <3>1. SnapInv'
      BY <2>12 DEF SnapInv
    <3>2. ASSUME NEW i \in Stayed \ collected', ~Twin(i)'
          PROVE  /\ Cardinality(collected') = Limit
                 /\ \A c \in collected' : Created[i] < Created[c]
      <4>1. B # C /\ i \in C
        BY <2>11, <3>2
      <4>2. ~ (Cardinality(B) < BatchSize) /\ B # {}
        BY <2>7, <2>8, <4>1, FS_EmptySet
      <4>3. ~Stalled(B)
        BY <1>4, <2>1, <2>4, <4>2, <1>5, OldestFacts DEF Stalled
      <4>4. Cardinality(collected') >= Limit
        BY <1>3, <2>12, <4>2, <4>3
      <4> QED BY <2>3, <2>6, <2>9, <2>11, <3>2, <4>1, <4>4, PageAssumption
    <3>3. ProposalsComplete'
      BY <2>10, <3>2 DEF ProposalsComplete, Twin
    <3> QED BY <1>8, <3>1, <3>3
  <2>13. CASE pc' = "list"
    <3>1. B # {} /\ cursor' = Oldest(B) /\ ~ (Cardinality(collected') >= Limit)
      BY <1>3, <2>13
    <3>2. /\ Oldest(B) \in Nat \ {0} /\ \E b \in B : Created[b] = Oldest(B)
          /\ \A b \in B : Oldest(B) <= Created[b]
      BY <1>5, <3>1, OldestFacts
    <3>3. \A c \in collected' : cursor' <= Created[c]
      <4>1. PICK b \in B : Created[b] = Oldest(B)
        BY <3>2
      <4>2. \A c \in collected : Created[b] < Created[c]
        BY <1>4, <2>6, <4>1
      <4> QED BY <1>5, <1>7, <2>3, <2>4, <3>1, <3>2, <4>1, <4>2
    <3>4. \A i \in Stayed \ collected' : Created[i] < cursor' \/ Twin(i)'
      BY <2>11, <3>1, <3>2
    <3>5. Cardinality(collected') < Limit
      BY <2>9, <3>1, PageAssumption
    <3>6. SnapInv'
      BY <2>3, <2>10, <3>1, <3>2, <3>3, <3>4, <3>5 DEF SnapInv, NoCursor
    <3> QED BY <1>8, <2>13, <3>6 DEF ProposalsComplete
  <2> QED BY <1>3, <2>12, <2>13
<1> QED BY <1>9, <1>10

-----------------------------------------------------------------------------
(* How the feed changes. *)

\* A sequence without its k-th element.
LEMMA RemoveAtFacts ==
    ASSUME NEW s \in Seq(Items), NEW k \in 1..Len(s)
    PROVE  /\ RemoveAt(s, k) \in Seq(Items) /\ Len(RemoveAt(s, k)) = Len(s) - 1
           /\ \A n \in 1..(Len(s) - 1) : RemoveAt(s, k)[n] = IF n < k THEN s[n] ELSE s[n + 1]
<1> DEFINE front == SubSeq(s, 1, k - 1)
           rest  == SubSeq(s, k + 1, Len(s))
<1>1. Len(s) \in Nat /\ k \in Nat /\ 1 <= k /\ k <= Len(s)
  BY LenProperties
<1>2. /\ front \in Seq(Items) /\ Len(front) = k - 1
      /\ \A n \in 1..(k - 1) : front[n] = s[n]
  BY <1>1, SubSeqProperties
<1>3. /\ rest \in Seq(Items) /\ Len(rest) = Len(s) - k
      /\ \A n \in 1..(Len(s) - k) : rest[n] = s[k + n]
  BY <1>1, SubSeqProperties
<1>4. RemoveAt(s, k) = front \o rest
  BY DEF RemoveAt
<1> HIDE DEF front, rest
<1>5. /\ front \o rest \in Seq(Items) /\ Len(front \o rest) = Len(front) + Len(rest)
      /\ \A n \in 1..(Len(front) + Len(rest)) :
            (front \o rest)[n] = IF n <= Len(front) THEN front[n] ELSE rest[n - Len(front)]
  BY <1>2, <1>3, ConcatProperties
<1>6. ASSUME NEW n \in 1..(Len(s) - 1)
      PROVE  (front \o rest)[n] = IF n < k THEN s[n] ELSE s[n + 1]
  <2>1. CASE n < k
    BY <1>1, <1>2, <1>3, <1>5, <2>1
  <2>2. CASE ~ (n < k)
    <3>1. (front \o rest)[n] = rest[n - (k - 1)] /\ n - (k - 1) \in 1..(Len(s) - k)
      BY <1>1, <1>2, <1>3, <1>5, <2>2
    <3>2. rest[n - (k - 1)] = s[k + (n - (k - 1))] /\ k + (n - (k - 1)) = n + 1
      BY <1>1, <1>3, <3>1
    <3> QED BY <2>2, <3>1, <3>2
  <2> QED BY <2>1, <2>2
<1> QED BY <1>1, <1>2, <1>3, <1>4, <1>5, <1>6

\* A sequence with a new first element.
LEMMA PushFacts ==
    ASSUME NEW s \in Seq(Items), NEW i \in Items
    PROVE  /\ <<i>> \o s \in Seq(Items) /\ Len(<<i>> \o s) = Len(s) + 1
           /\ (<<i>> \o s)[1] = i
           /\ \A n \in 2..(Len(s) + 1) : (<<i>> \o s)[n] = s[n - 1]
<1>1. Len(s) \in Nat /\ <<i>> \in Seq(Items) /\ Len(<<i>>) = 1
  BY LenProperties
<1> QED BY <1>1, ConcatProperties

\* A change that loses nothing: one item comes to the front, what follows it are
\* the others in their order, each where it was or one place further back.
Slides(i) ==
    /\ feed' \in Seq(Items) /\ 1 \in DOMAIN feed' /\ feed'[1] = i
    /\ \E from \in [DOMAIN feed' \ {1} -> DOMAIN feed] :
          /\ \A n \in DOMAIN feed' \ {1} : /\ feed'[n] = feed[from[n]] /\ feed'[n] # i
                                           /\ from[n] <= n /\ n <= from[n] + 1
          /\ \A m, n \in DOMAIN feed' \ {1} : m < n => from[m] < from[n]

Distinct == \A m, n \in DOMAIN feed : feed[m] = feed[n] => m = n

\* A new topic comes first, and the others follow one place farther back.
LEMMA ArriveSlides ==
    ASSUME feed \in Seq(Items), NEW i \in Items, Arrive(i)
    PROVE  Slides(i) /\ Held \subseteq Held'
<1>1. /\ feed' = <<i>> \o feed /\ i \notin Held
      /\ Len(feed) \in Nat /\ DOMAIN feed = 1..Len(feed)
  BY HeldFinite DEF Arrive
<1>2. /\ feed' \in Seq(Items) /\ Len(feed') = Len(feed) + 1 /\ feed'[1] = i
      /\ \A n \in 2..(Len(feed) + 1) : feed'[n] = feed[n - 1]
  BY <1>1, PushFacts
<1>3. DOMAIN feed' = 1..(Len(feed) + 1)
  BY <1>2, LenProperties
<1> DEFINE from == [n \in DOMAIN feed' \ {1} |-> n - 1]
<1>4. from \in [DOMAIN feed' \ {1} -> DOMAIN feed]
  BY <1>1, <1>3
<1>5. \A n \in DOMAIN feed : feed[n] # i
  BY <1>1 DEF Held, ToSet
<1>6. \A n \in DOMAIN feed' \ {1} : /\ feed'[n] = feed[from[n]] /\ feed'[n] # i
                                    /\ from[n] <= n /\ n <= from[n] + 1
  BY <1>1, <1>2, <1>3, <1>5
<1>7. \A m, n \in DOMAIN feed' \ {1} : m < n => from[m] < from[n]
  BY <1>1, <1>3
<1>8. 1 \in DOMAIN feed'
  BY <1>1, <1>3
<1>9. Held \subseteq Held'
  <2>1. ASSUME NEW n \in DOMAIN feed PROVE feed[n] \in Held'
    <3>1. feed'[n + 1] = feed[n] /\ n + 1 \in DOMAIN feed'
      BY <1>1, <1>2, <1>3
    <3> QED BY <3>1 DEF Held, ToSet
  <2> QED BY <2>1 DEF Held, ToSet
<1> QED BY <1>2, <1>4, <1>6, <1>7, <1>8, <1>9 DEF Slides

\* Removing the k-th item closes the gap and loses that item only.
LEMMA DeleteLoses ==
    ASSUME feed \in Seq(Items), NEW k \in DOMAIN feed, NEW s, s = RemoveAt(feed, k)
    PROVE  /\ s \in Seq(Items) /\ Len(s) + 1 = Len(feed) /\ Len(s) \in Nat
           /\ \A n \in DOMAIN s : s[n] = IF n < k THEN feed[n] ELSE feed[n + 1]
           /\ Held \ {feed[k]} \subseteq ToSet(s)
<1>1. Len(feed) \in Nat /\ DOMAIN feed = 1..Len(feed) /\ k \in 1..Len(feed)
  BY HeldFinite
<1>2. /\ s \in Seq(Items) /\ Len(s) = Len(feed) - 1
      /\ \A n \in 1..(Len(feed) - 1) : s[n] = IF n < k THEN feed[n] ELSE feed[n + 1]
  BY <1>1, RemoveAtFacts
<1>3. DOMAIN s = 1..(Len(feed) - 1)
  BY <1>2, LenProperties
<1>4. ASSUME NEW n \in DOMAIN feed, feed[n] # feed[k] PROVE feed[n] \in ToSet(s)
  <2>1. CASE n < k
    <3>1. n \in DOMAIN s /\ s[n] = feed[n]
      BY <1>1, <1>2, <1>3, <2>1
    <3> QED BY <3>1 DEF ToSet
  <2>2. CASE ~ (n < k)
    <3>1. n # k /\ k < n
      BY <1>1, <1>4, <2>2
    <3>2. n - 1 \in DOMAIN s /\ s[n - 1] = feed[n]
      BY <1>1, <1>2, <1>3, <3>1
    <3> QED BY <3>2 DEF ToSet
  <2> QED BY <2>1, <2>2
<1> QED BY <1>1, <1>2, <1>3, <1>4 DEF Held, ToSet

\* A bumped topic comes first, and the others keep their order.
LEMMA BumpSlides ==
    ASSUME feed \in Seq(Items), NEW k \in DOMAIN feed, Bump(k)
    PROVE  /\ feed' \in Seq(Items) /\ Held \subseteq Held'
           /\ Distinct => Slides(feed[k])
<1> DEFINE i == feed[k]
<1>1. PICK s : s = RemoveAt(feed, k)
  OBVIOUS
<1>2. i \in Items /\ Len(feed) \in Nat /\ DOMAIN feed = 1..Len(feed)
  BY HeldFinite, ElementOfSeq
<1>3. /\ s \in Seq(Items) /\ Len(s) + 1 = Len(feed) /\ Len(s) \in Nat
      /\ \A n \in DOMAIN s : s[n] = IF n < k THEN feed[n] ELSE feed[n + 1]
      /\ Held \ {feed[k]} \subseteq ToSet(s)
  BY <1>1, DeleteLoses
<1>4. DOMAIN s = 1..Len(s)
  BY <1>3, LenProperties
<1>5. /\ feed' \in Seq(Items) /\ Len(feed') = Len(feed) /\ feed'[1] = i
      /\ \A n \in 2..Len(feed) : feed'[n] = s[n - 1]
  <2>1. feed' = <<i>> \o s
    BY <1>1 DEF Bump
  <2> HIDE DEF i
  <2>2. /\ <<i>> \o s \in Seq(Items) /\ Len(<<i>> \o s) = Len(s) + 1
        /\ (<<i>> \o s)[1] = i
        /\ \A n \in 2..(Len(s) + 1) : (<<i>> \o s)[n] = s[n - 1]
    BY <1>2, <1>3, PushFacts
  <2>3. Len(s) + 1 = Len(feed)
    BY <1>3
  <2> QED BY <2>1, <2>2, <2>3
<1>6. DOMAIN feed' = 1..Len(feed)
  BY <1>5, LenProperties
<1>7. Held \subseteq Held'
  <2>1. ASSUME NEW n \in DOMAIN s PROVE s[n] \in Held'
    <3>1. n + 1 \in DOMAIN feed' /\ feed'[n + 1] = s[n]
      BY <1>2, <1>3, <1>4, <1>5, <1>6
    <3> QED BY <3>1 DEF Held, ToSet
  <2>2. ToSet(s) \subseteq Held'
    BY <2>1 DEF ToSet
  <2>3. i \in Held'
    <3>1. 1 \in DOMAIN feed' /\ feed'[1] = i
      BY <1>2, <1>3, <1>5, <1>6
    <3> QED BY <3>1 DEF Held, ToSet
  <2> QED BY <1>3, <2>2, <2>3
<1> DEFINE from == [n \in DOMAIN feed' \ {1} |-> IF n <= k THEN n - 1 ELSE n]
<1>8. ASSUME NEW n \in DOMAIN feed' \ {1}
      PROVE  /\ from[n] \in DOMAIN feed /\ from[n] # k
             /\ feed'[n] = feed[from[n]] /\ from[n] <= n /\ n <= from[n] + 1
  <2>1. n \in 2..Len(feed) /\ n - 1 \in DOMAIN s /\ feed'[n] = s[n - 1]
    BY <1>2, <1>3, <1>4, <1>5, <1>6
  <2>2. s[n - 1] = IF n - 1 < k THEN feed[n - 1] ELSE feed[n]
    BY <1>2, <1>3, <2>1
  <2> QED BY <1>2, <2>1, <2>2
<1>9. from \in [DOMAIN feed' \ {1} -> DOMAIN feed]
  BY <1>8
<1>10. \A m, n \in DOMAIN feed' \ {1} : m < n => from[m] < from[n]
  BY <1>2, <1>6
<1>11. 1 \in DOMAIN feed'
  BY <1>2, <1>3, <1>6
<1>12. ASSUME Distinct PROVE Slides(i)
  <2>1. \A n \in DOMAIN feed' \ {1} : feed'[n] # i
    BY <1>8, <1>12 DEF Distinct
  <2> HIDE DEF from, i
  <2> QED BY <1>5, <1>8, <1>9, <1>10, <1>11, <2>1 DEF Slides
<1> QED BY <1>5, <1>7, <1>12

-----------------------------------------------------------------------------
(* Topics, as long as none is deleted. *)

InFirstOrder ==
    \A m, n \in DOMAIN feed :
        m < n /\ {feed[m], feed[n]} \subseteq Untouched => Place(feed[m]) < Place(feed[n])

Unread(n) == feed[n] \in Untouched \ seen
Read(n)   == feed[n] \in Untouched \cap seen

\* A listing of topics under way: the unread ones are behind its pages and
\* behind the read ones, which are no farther back than the changes pushed them.
PagesInv ==
    /\ seen = collected /\ Cardinality(collected) < Limit
    /\ \A n \in DOMAIN feed : Unread(n) => page * PageSize < n
    /\ \A m, n \in DOMAIN feed : Read(m) /\ Unread(n) => m < n
    /\ \A n \in DOMAIN feed : feed[n] \in seen => n <= page * PageSize + moves

SlideInv ==
    source = "discourse" /\ deleted = {} =>
        /\ Distinct /\ InFirstOrder
        /\ pc = "list" => PagesInv

\* Pages are numbers of places.
LEMMA Turning ==
    ASSUME NEW p \in Nat
    PROVE  /\ p * PageSize \in Nat /\ (p + 1) * PageSize = p * PageSize + PageSize
           /\ PageSize \in Nat \ {0}
BY PageAssumption

\* A change that loses nothing keeps the invariant, if what comes to the front is
\* not among the topics that did not move.
LEMMA SlidesKeep ==
    ASSUME Types, SlideInv, source = "discourse", deleted = {}, NEW i, Slides(i),
           Untouched' \subseteq Untouched, i \notin Untouched',
           moves' = moves + 1, UNCHANGED <<source, client>>
    PROVE  SlideInv'
<1>1. /\ 1 \in DOMAIN feed' /\ feed'[1] = i /\ feed' \in Seq(Items)
      /\ Distinct /\ InFirstOrder
      /\ pc = "list" => PagesInv
  BY DEF Slides, SlideInv
<1>2. PICK from \in [DOMAIN feed' \ {1} -> DOMAIN feed] :
          /\ \A n \in DOMAIN feed' \ {1} : /\ feed'[n] = feed[from[n]] /\ feed'[n] # i
                                           /\ from[n] <= n /\ n <= from[n] + 1
          /\ \A m, n \in DOMAIN feed' \ {1} : m < n => from[m] < from[n]
  BY DEF Slides
<1>3. /\ DOMAIN feed' = 1..Len(feed') /\ Len(feed') \in Nat
      /\ DOMAIN feed = 1..Len(feed) /\ Len(feed) \in Nat
  BY <1>1, LenProperties, HeldFinite DEF Types
<1>4. /\ \A n \in DOMAIN feed : n \in Nat
      /\ \A n \in DOMAIN feed' : n \in Nat /\ 1 <= n
      /\ \A n \in DOMAIN feed' : n # 1 => from[n] \in DOMAIN feed
  BY <1>2, <1>3
<1>5. Distinct'
  <2> SUFFICES ASSUME NEW m \in DOMAIN feed', NEW n \in DOMAIN feed', feed'[m] = feed'[n]
               PROVE  m = n
    BY DEF Distinct
  <2>1. CASE m = 1 \/ n = 1
    BY <1>1, <1>2, <2>1
  <2>2. CASE m # 1 /\ n # 1
    <3>1. from[m] = from[n]
      BY <1>1, <1>2, <1>4, <2>2 DEF Distinct
    <3>2. ~ (m < n) /\ ~ (n < m)
      BY <1>2, <1>4, <2>2, <3>1
    <3> QED BY <1>4, <3>2
  <2> QED BY <2>1, <2>2
<1>6. InFirstOrder'
  <2> SUFFICES ASSUME NEW m \in DOMAIN feed', NEW n \in DOMAIN feed', m < n,
                      {feed'[m], feed'[n]} \subseteq Untouched'
               PROVE  Place(feed'[m]) < Place(feed'[n])
    BY DEF InFirstOrder, Place
  <2>1. m # 1 /\ n # 1
    BY <1>1, <1>4
  <2> QED BY <1>1, <1>2, <1>4, <2>1 DEF InFirstOrder
<1>7. ASSUME pc' = "list" PROVE PagesInv'
  <2>1. PagesInv /\ UNCHANGED <<seen, collected, page>>
    BY <1>1, <1>7 DEF client
  <2>2. \A n \in DOMAIN feed' : feed'[n] \in Untouched' => n # 1
    BY <1>1
  <2>3. \A n \in DOMAIN feed' : Unread(n)' => n # 1 /\ Unread(from[n])
    BY <1>2, <2>1, <2>2 DEF Unread
  <2>4. \A n \in DOMAIN feed' : Read(n)' => n # 1 /\ Read(from[n])
    BY <1>2, <2>1, <2>2 DEF Read
  <2>5. page * PageSize \in Nat /\ moves \in Nat
    BY Turning DEF Types
  <2>6. ASSUME NEW n \in DOMAIN feed', Unread(n)' PROVE page * PageSize < n
    <3>1. page * PageSize < from[n] /\ from[n] <= n /\ from[n] \in Nat /\ n \in Nat
      BY <1>2, <1>4, <2>1, <2>3, <2>6 DEF PagesInv
    <3> QED BY <2>5, <3>1
  <2>7. ASSUME NEW m \in DOMAIN feed', NEW n \in DOMAIN feed', Read(m)', Unread(n)' PROVE m < n
    <3>1. from[m] < from[n] /\ m # 1 /\ n # 1
      BY <1>4, <2>1, <2>3, <2>4, <2>7 DEF PagesInv
    <3>2. m # n /\ ~ (n < m)
      BY <1>2, <1>4, <3>1
    <3> QED BY <1>4, <3>2
  <2>8. ASSUME NEW n \in DOMAIN feed', feed'[n] \in seen PROVE n <= page * PageSize + moves'
    <3>1. CASE n = 1
      BY <2>5, <3>1
    <3>2. CASE n # 1
      <4>1. /\ from[n] <= page * PageSize + moves /\ n <= from[n] + 1
            /\ from[n] \in Nat /\ n \in Nat
        BY <1>2, <1>4, <2>1, <2>8, <3>2 DEF PagesInv
      <4> QED BY <2>5, <4>1
    <3> QED BY <3>1, <3>2
  <2> QED BY <2>1, <2>6, <2>7, <2>8 DEF PagesInv
<1> QED BY <1>5, <1>6, <1>7 DEF SlideInv

\* A change of the feed keeps everything.
LEMMA ChangeOK ==
    ASSUME Types, SnapInv, SlideInv, ProposalsComplete, TopicsComplete,
           \/ \E i \in Items : Arrive(i)
           \/ \E n \in DOMAIN feed : Bump(n) \/ Delete(n)
    PROVE  Types' /\ SnapInv' /\ SlideInv' /\ ProposalsComplete' /\ TopicsComplete'
<1>1. /\ UNCHANGED <<source, client, ignored>> /\ moves' = moves + 1
      /\ deleted \subseteq deleted' /\ touched \subseteq touched'
  BY DEF Arrive, Bump, Delete, Move
<1>2. Stayed' \subseteq Stayed /\ Untouched' \subseteq Untouched
  BY <1>1 DEF Stayed, Untouched
<1>3. SnapInv' /\ ProposalsComplete'
  BY <1>1, <1>2 DEF SnapInv, ProposalsComplete, client, Twin
<1>4. TopicsComplete'
  <2>1. moves' < PageSize => moves < PageSize
    BY <1>1, PageAssumption DEF Types
  <2>2. deleted' = {} => deleted = {}
    BY <1>1
  <2>3. \A i : Place(i)' = Place(i)
    BY DEF Place
  <2> QED BY <1>1, <1>2, <2>1, <2>2, <2>3 DEF TopicsComplete, client
<1>5. ASSUME feed' \in Seq(Items), Stayed' \subseteq Held' PROVE Types'
  BY <1>1, <1>5 DEF Types, client
<1>6. ASSUME NEW i \in Items, Arrive(i)
      PROVE  Types' /\ SlideInv'
  <2>1. /\ Slides(i) /\ Held \subseteq Held' /\ feed' \in Seq(Items)
        /\ UNCHANGED <<touched, deleted>> /\ i \notin Held
    BY <1>6, ArriveSlides DEF Types, Slides, Arrive
  <2>2. Stayed' \subseteq Held' /\ i \notin Untouched'
    BY <1>2, <2>1 DEF Types, Untouched
  <2>3. CASE source = "discourse" /\ deleted = {}
    BY <1>1, <1>2, <1>5, <2>1, <2>2, <2>3, SlidesKeep
  <2>4. CASE ~ (source = "discourse" /\ deleted = {})
    BY <1>1, <1>5, <2>1, <2>2, <2>4 DEF SlideInv
  <2> QED BY <2>3, <2>4
<1>7. ASSUME NEW n \in DOMAIN feed, Bump(n)
      PROVE  Types' /\ SlideInv'
  <2>1. /\ Held \subseteq Held' /\ feed' \in Seq(Items)
        /\ Distinct => Slides(feed[n])
        /\ touched' = touched \cup {feed[n]} /\ deleted' = deleted
    BY <1>7, BumpSlides DEF Types, Bump
  <2>2. Stayed' \subseteq Held' /\ feed[n] \notin Untouched'
    BY <1>2, <2>1 DEF Types, Untouched
  <2>3. CASE source = "discourse" /\ deleted = {}
    BY <1>1, <1>2, <1>5, <2>1, <2>2, <2>3, SlidesKeep DEF SlideInv
  <2>4. CASE ~ (source = "discourse" /\ deleted = {})
    BY <1>1, <1>5, <2>1, <2>2, <2>4 DEF SlideInv
  <2> QED BY <2>3, <2>4
<1>8. ASSUME NEW n \in DOMAIN feed, Delete(n)
      PROVE  Types' /\ SlideInv'
  <2>1. feed' = RemoveAt(feed, n) /\ deleted' = deleted \cup {feed[n]} /\ deleted' # {}
    BY <1>8 DEF Delete
  <2>2. feed' \in Seq(Items) /\ Held \ {feed[n]} \subseteq Held'
    BY <2>1, DeleteLoses DEF Types, Held
  <2>3. Stayed' \subseteq Held'
    BY <1>2, <2>1, <2>2 DEF Types, Stayed
  <2> QED BY <1>5, <2>1, <2>2, <2>3 DEF SlideInv
<1> QED BY <1>3, <1>4, <1>6, <1>7, <1>8

\* A page of topics leaves no gap, and is the last one only for a reason.
LEMMA FetchTopicsOK ==
    ASSUME Types, SlideInv, FetchTopics
    PROVE  Types' /\ SlideInv' /\ TopicsComplete'
<1> DEFINE batch == PageOfFeed(page)
           fresh == {n \in batch : feed[n] \notin seen}
           top   == page * PageSize
<1>1. /\ source = "discourse" /\ pc = "list" /\ UNCHANGED <<source, feed, cursor, observed>>
      /\ \E kept \in Foremost(fresh, Limit - Cardinality(collected)) :
            collected' = collected \cup {feed[n] : n \in kept}
      /\ seen' = seen \cup {feed[n] : n \in batch}
      /\ IF fresh = {}
         THEN pc' = "done" /\ UNCHANGED page
         ELSE /\ page' = page + 1
              /\ pc' = IF page' = MaxPages \/ Cardinality(collected') >= Limit
                       THEN "done" ELSE "list"
  BY DEF FetchTopics
<1>2. PICK kept \in Foremost(fresh, Limit - Cardinality(collected)) :
         collected' = collected \cup {feed[n] : n \in kept}
  BY <1>1
<1>3. /\ Len(feed) \in Nat /\ DOMAIN feed = 1..Len(feed) /\ IsFiniteSet(DOMAIN feed)
      /\ \A n \in DOMAIN feed : feed[n] \in Items
  BY HeldFinite, ElementOfSeq, FS_Interval DEF Types
<1>4. /\ top \in Nat /\ (page + 1) * PageSize = top + PageSize /\ PageSize \in Nat \ {0}
      /\ page \in Nat /\ moves \in Nat
  BY Turning DEF Types
<1>5. batch = {n \in DOMAIN feed : top < n /\ n <= top + PageSize}
  BY <1>4 DEF PageOfFeed
<1>6. /\ kept \subseteq fresh /\ \A m \in kept, n \in fresh \ kept : m < n
      /\ Cardinality(kept) = Lesser(Limit - Cardinality(collected), Cardinality(fresh))
  BY <1>2 DEF Foremost
<1> HIDE DEF top, batch
<1>7. /\ IsFiniteSet(fresh) /\ IsFiniteSet(kept) /\ fresh \subseteq batch /\ batch \subseteq DOMAIN feed
      /\ Cardinality(fresh) \in Nat /\ Cardinality(kept) \in Nat
  BY <1>3, <1>5, <1>6, FS_Subset, FS_CardinalityType
<1>8. /\ IsFiniteSet({feed[n] : n \in kept})
      /\ Cardinality({feed[n] : n \in kept}) \in Nat
      /\ Cardinality({feed[n] : n \in kept}) <= Cardinality(kept)
  BY <1>7, AtPlaces
<1>9. collected' \in SUBSET Items /\ IsFiniteSet(collected')
  BY <1>2, <1>3, <1>6, <1>7, <1>8, FS_Union DEF Types
<1>10. Types'
  BY <1>1, <1>4, <1>9 DEF Types, observed, Stayed, Held
<1>11. CASE deleted # {}
  BY <1>1, <1>10, <1>11 DEF SlideInv, TopicsComplete, observed
<1>12. CASE deleted = {}
  <2>1. /\ Distinct /\ InFirstOrder /\ seen = collected /\ Cardinality(collected) < Limit
        /\ \A n \in DOMAIN feed : Unread(n) => top < n
        /\ \A m, n \in DOMAIN feed : Read(m) /\ Unread(n) => m < n
        /\ \A n \in DOMAIN feed : feed[n] \in seen => n <= top + moves
    BY <1>1, <1>12 DEF SlideInv, PagesInv, top
  <2>2. Untouched' = Untouched /\ deleted' = deleted /\ moves' = moves /\ feed' = feed
    BY <1>1 DEF Untouched, Stayed, observed
  <2>3. Distinct' /\ InFirstOrder'
    BY <2>1, <2>2 DEF Distinct, InFirstOrder, Place
  <2>4. \A n \in DOMAIN feed : feed[n] \in seen' <=> feed[n] \in seen \/ n \in batch
    BY <1>1, <1>7, <2>1 DEF Distinct
  <2>5. \A n \in DOMAIN feed : n \in Nat /\ (Unread(n)' => Unread(n) /\ n \notin batch /\ top + PageSize < n)
    BY <1>3, <1>4, <1>5, <2>1, <2>2, <2>4 DEF Unread
  <2>6. \A m, n \in DOMAIN feed : Read(m)' /\ Unread(n)' => m < n
    <3> SUFFICES ASSUME NEW m \in DOMAIN feed, NEW n \in DOMAIN feed, Read(m)', Unread(n)'
                 PROVE  m < n
      OBVIOUS
    <3>1. CASE feed[m] \in seen
      BY <2>1, <2>2, <2>5, <3>1 DEF Read
    <3>2. CASE m \in batch
      BY <1>4, <1>5, <2>5, <3>2
    <3> QED BY <2>2, <2>4, <3>1, <3>2 DEF Read
  <2>7. Cardinality(collected') \in Nat /\ Cardinality(collected') <= Limit /\ Limit \in Nat
    <3>1. /\ Cardinality(collected) \in Nat /\ Limit \in Nat /\ Cardinality(collected') \in Nat
          /\ Cardinality(collected \cap {feed[n] : n \in kept}) \in Nat
      BY <1>8, <1>9, FS_CardinalityType, FS_Subset, PageAssumption DEF Types
    <3>2. Cardinality(kept) <= Limit - Cardinality(collected)
      BY <1>6, <1>7, <2>1, <3>1 DEF Lesser
    <3>3. Cardinality(collected') = Cardinality(collected) + Cardinality({feed[n] : n \in kept})
                                      - Cardinality(collected \cap {feed[n] : n \in kept})
      BY <1>2, <1>8, FS_Union DEF Types
    <3> QED BY <1>7, <1>8, <3>1, <3>2, <3>3
  <2>8. CASE pc' = "list"
    <3>1. page' * PageSize = top + PageSize /\ page' = page + 1 /\ ~ (Cardinality(collected') >= Limit)
      BY <1>1, <1>4, <2>8
    <3>2. Cardinality(collected') < Limit
      BY <2>7, <3>1
    \* There was room for all of the page.
    <3>3. kept = fresh
      <4>1. CASE Cardinality(kept) = Cardinality(fresh)
        BY <1>6, <1>7, <4>1, FS_Subset
      <4>2. CASE Cardinality(kept) = Limit - Cardinality(collected)
        <5>1. Cardinality({feed[n] : n \in kept}) = Cardinality(kept)
          <6> DEFINE f == [n \in kept |-> feed[n]]
          <6>1. f \in Surjection(kept, {feed[n] : n \in kept})
            BY DEF Surjection
          <6>2. f \in Injection(kept, {feed[n] : n \in kept})
            BY <1>6, <1>7, <2>1 DEF Injection, IsInjective, Distinct
          <6> QED BY <1>7, <6>1, <6>2, FS_Surjection
        <5>2. collected \cap {feed[n] : n \in kept} = {}
          BY <1>6, <2>1
        <5>3. Cardinality(collected') = Cardinality(collected) + Cardinality(kept)
          <6>1. /\ IsFiniteSet(collected) /\ Cardinality(collected) \in Nat
                /\ Cardinality({}) = 0 /\ Cardinality(kept) \in Nat
            BY <1>7, FS_EmptySet, FS_CardinalityType DEF Types
          <6>2. Cardinality(collected \cup {feed[n] : n \in kept})
                  = Cardinality(collected) + Cardinality({feed[n] : n \in kept})
                      - Cardinality(collected \cap {feed[n] : n \in kept})
            BY <1>8, <6>1, FS_Union
          <6>3. Cardinality(collected \cap {feed[n] : n \in kept}) = 0
            BY <5>2, <6>1
          <6> QED BY <1>2, <5>1, <6>1, <6>2, <6>3
        <5>4. Cardinality(collected) \in Nat
          BY FS_CardinalityType DEF Types
        <5> QED BY <2>7, <3>2, <4>2, <5>3, <5>4
      <4> QED BY <1>6, <4>1, <4>2 DEF Lesser
    <3>4. seen' = collected'
      BY <1>1, <1>2, <2>1, <3>3
    <3>5. \A n \in DOMAIN feed : Unread(n)' => page' * PageSize < n
      BY <2>5, <3>1
    <3>6. \A n \in DOMAIN feed : feed[n] \in seen' => n <= page' * PageSize + moves
      BY <1>4, <1>5, <2>1, <2>4, <2>5, <3>1
    <3>7. PagesInv'
      BY <2>2, <2>6, <3>2, <3>4, <3>5, <3>6 DEF PagesInv
    <3> QED BY <1>10, <2>3, <2>8, <3>7 DEF SlideInv, TopicsComplete
  <2>9. CASE pc' = "done"
    <3>1. ASSUME NEW i \in Untouched \ collected'
          PROVE  /\ \A c \in Untouched \cap collected' : Place(c) < Place(i)
                 /\ moves < PageSize => Cardinality(collected') = Limit \/ page' = MaxPages
      <4>1. PICK n \in DOMAIN feed : feed[n] = i
        BY <3>1 DEF Untouched, Types, Held, ToSet
      <4>2. Unread(n) /\ top < n /\ n \in Nat
        BY <1>2, <2>1, <2>5, <3>1, <4>1 DEF Unread
      <4>3. ASSUME NEW c \in Untouched \cap collected' PROVE Place(c) < Place(i)
        <5>1. PICK m \in DOMAIN feed : feed[m] = c
          BY <4>3 DEF Untouched, Types, Held, ToSet
        <5>2. CASE c \in collected
          <6>1. m < n
            BY <2>1, <4>2, <4>3, <5>1, <5>2 DEF Read
          <6> QED BY <2>1, <3>1, <4>1, <4>3, <5>1, <6>1 DEF InFirstOrder
        <5>3. CASE m \in kept
          <6>1. n \notin kept
            BY <1>2, <3>1, <4>1
          <6>2. CASE n \in batch
            <7>1. n \in fresh \ kept
              BY <4>2, <6>1, <6>2 DEF Unread
            <7> QED BY <1>6, <2>1, <3>1, <4>1, <4>3, <5>1, <5>3, <7>1 DEF InFirstOrder
          <6>3. CASE n \notin batch
            <7>1. m \in Nat /\ m <= top + PageSize /\ top + PageSize < n
              BY <1>4, <1>5, <1>6, <1>7, <2>5, <4>1, <4>2, <5>3, <6>3
            <7>2. m < n
              BY <1>4, <4>2, <7>1
            <7> QED BY <2>1, <3>1, <4>1, <4>3, <5>1, <7>2 DEF InFirstOrder
          <6> QED BY <6>2, <6>3
        <5>4. c \in collected \/ m \in kept
          <6>1. ASSUME NEW k \in kept, feed[k] = c PROVE m \in kept
            BY <1>6, <1>7, <2>1, <5>1, <6>1 DEF Distinct
          <6> QED BY <1>2, <4>3, <6>1
        <5> QED BY <5>2, <5>3, <5>4
      <4>4. ASSUME moves < PageSize, fresh = {} PROVE FALSE
        <5>1. n \notin batch /\ top + PageSize < n
          BY <1>4, <1>5, <2>5, <4>2, <4>4 DEF Unread
        <5>2. top + PageSize \in DOMAIN feed /\ top + PageSize \in batch
          BY <1>3, <1>4, <1>5, <4>1, <4>2, <5>1
        <5>3. feed[top + PageSize] \in seen
          BY <4>4, <5>2
        <5>4. top + PageSize <= top + moves
          BY <2>1, <5>2, <5>3
        <5> QED BY <1>4, <4>4, <5>4
      <4> QED BY <1>1, <2>7, <2>9, <4>3, <4>4
    <3>2. TopicsComplete'
      BY <2>2, <3>1 DEF TopicsComplete, Place
    <3> QED BY <1>10, <2>3, <2>9, <3>2 DEF SlideInv
  <2> QED BY <1>1, <2>8, <2>9
<1> QED BY <1>11, <1>12

-----------------------------------------------------------------------------
(* The invariant. *)

IInv == Types /\ SnapInv /\ SlideInv /\ ProposalsComplete /\ TopicsComplete

\* A listing starts with nothing collected, from the feed as it was.
LEMMA InitOK == Init => IInv
<1> SUFFICES ASSUME Init PROVE IInv
  OBVIOUS
<1>1. /\ source \in {"snapshot", "discourse"} /\ feed = First /\ pc = "list"
      /\ collected = {} /\ seen = {} /\ cursor = NoCursor /\ page = 0 /\ moves = 0
      /\ NoCursor = 0
  BY DEF Init, NoCursor
<1>2. /\ First \in Seq(Items) /\ IsInjective(First) /\ DOMAIN First = 1..Len(First)
      /\ Len(First) \in Nat
  BY FeedAssumption, LenProperties
<1>3. /\ IsFiniteSet({}) /\ Cardinality({}) = 0 /\ Limit \in Nat \ {0}
  BY FS_EmptySet, PageAssumption
<1>4. Types
  BY <1>1, <1>2, <1>3 DEF Types, Stayed, Held
<1>5. SnapInv
  BY <1>1, <1>3 DEF SnapInv
<1>6. Distinct
  BY <1>1, <1>2 DEF Distinct, IsInjective
<1>7. \A n \in DOMAIN First : Place(First[n]) = n
  BY <1>2 DEF Place, IsInjective
<1>8. InFirstOrder
  BY <1>1, <1>7 DEF InFirstOrder
<1>9. PagesInv
  <2>1. /\ 0 * PageSize = 0 /\ \A n \in DOMAIN feed : 0 < n
    BY <1>1, <1>2, PageAssumption
  <2> QED BY <1>1, <1>3, <2>1 DEF PagesInv, Unread, Read
<1> QED BY <1>1, <1>4, <1>5, <1>6, <1>8, <1>9 DEF IInv, SlideInv, ProposalsComplete, TopicsComplete

\* Every step keeps it.
LEMMA StepOK == IInv /\ [Next]_vars => IInv'
<1> SUFFICES ASSUME IInv, [Next]_vars PROVE IInv'
  OBVIOUS
<1>1. Types /\ SnapInv /\ SlideInv /\ ProposalsComplete /\ TopicsComplete
  BY DEF IInv
<1>2. CASE UNCHANGED vars
  <2>1. UNCHANGED <<source, feed, pc, collected, seen, cursor, page, moves, touched, deleted, ignored>>
    BY <1>2 DEF vars, client, observed
  <2>2. \A n : (Unread(n)' <=> Unread(n)) /\ (Read(n)' <=> Read(n)) /\ Place(n)' = Place(n)
    BY <2>1 DEF Unread, Read, Untouched, Stayed, Place
  <2>3. Types' /\ SnapInv'
    BY <1>1, <2>1 DEF Types, SnapInv, Stayed, Held, Twin
  <2>4. SlideInv'
    BY <1>1, <2>1, <2>2 DEF SlideInv, Distinct, InFirstOrder, PagesInv, Untouched, Stayed
  <2>5. ProposalsComplete' /\ TopicsComplete'
    BY <1>1, <2>1, <2>2 DEF ProposalsComplete, TopicsComplete, Untouched, Stayed
  <2> QED BY <2>3, <2>4, <2>5 DEF IInv
<1>3. CASE \/ \E i \in Items : Arrive(i)
           \/ \E n \in DOMAIN feed : Bump(n) \/ Delete(n)
  BY <1>1, <1>3, ChangeOK DEF IInv
<1>4. CASE FetchProposals
  <2>1. source' = "snapshot"
    BY <1>4 DEF FetchProposals
  <2> QED BY <1>1, <1>4, <2>1, FetchProposalsOK DEF IInv, SlideInv, TopicsComplete
<1>5. CASE FetchTopics
  <2>1. source' = "discourse"
    BY <1>5 DEF FetchTopics
  <2> QED BY <1>1, <1>5, <2>1, FetchTopicsOK DEF IInv, SnapInv, ProposalsComplete
<1>6. CASE Fail
  <2>1. /\ pc' = "failed" /\ collected' = {}
        /\ UNCHANGED <<source, feed, cursor, page, moves, touched, deleted, ignored>>
    BY <1>6 DEF Fail, observed
  <2>2. Types'
    BY <1>1, <2>1, FS_EmptySet DEF Types, Stayed, Held
  <2>3. SlideInv'
    BY <1>1, <2>1 DEF SlideInv, Distinct, InFirstOrder, Untouched, Stayed, Place
  <2> QED BY <2>1, <2>2, <2>3 DEF IInv, SnapInv, ProposalsComplete, TopicsComplete
<1> QED BY <1>2, <1>3, <1>4, <1>5, <1>6 DEF Next, Fetch

\* The invariant holds in every behaviour.
LEMMA Inductive == Spec => []IInv
BY InitOK, StepOK, PTL DEF Spec

\* A listing of proposals has the newest of those that were there throughout,
\* without a gap but for twins of one second, up to its limit, whatever arrives
\* or is deleted between its pages (the created_lt cursor of fetch_proposals).
THEOREM NoProposalIsSkipped == Spec => []ProposalsComplete
<1>1. IInv => ProposalsComplete
  BY DEF IInv
<1> QED BY <1>1, Inductive, PTL

\* A listing of topics leaves no gap among those that did not move, and stops
\* early for a reason, whatever is bumped or posted between its pages (the page
\* numbers of fetch_topics).
THEOREM NoTopicIsSkipped == Spec => []TopicsComplete
<1>1. IInv => TopicsComplete
  BY DEF IInv
<1> QED BY <1>1, Inductive, PTL
=============================================================================
