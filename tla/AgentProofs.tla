---------------------------- MODULE AgentProofs ----------------------------
(***************************************************************************)
(* Theorems about Agent for any chunks, protocols, sizes and rankings, and *)
(* whatever the models and the templates return.                           *)
(*                                                                         *)
(* Counting what is ahead of a chunk gives it a place in a set (Places),   *)
(* every place is taken (EveryPlace): from this follow what a list of      *)
(* results is (ListedFacts) and what a LIMIT keeps (NearestFacts), from    *)
(* these what one search returns, and from that the properties.            *)
(***************************************************************************)
EXTENDS Agent, FiniteSetTheorems, TLAPS

\* What is ahead of a chunk in a set is finite and fewer than the set, and a
\* farther chunk has more ahead of it.
LEMMA Places ==
    ASSUME NEW order \in Rankings, NEW S \in SUBSET DOMAIN order
    PROVE  /\ IsFiniteSet(S) /\ Cardinality(S) \in Nat
           /\ DOMAIN order \in SUBSET Chunks
           /\ \A c \in DOMAIN order : order[c] \in Nat
           /\ \A c, d \in DOMAIN order : order[c] = order[d] => c = d
           /\ \A c \in S : /\ Cardinality(Ahead(order, S, c)) \in Nat
                           /\ Cardinality(Ahead(order, S, c)) < Cardinality(S)
           /\ \A c, d \in S : order[c] < order[d] =>
                 Cardinality(Ahead(order, S, c)) < Cardinality(Ahead(order, S, d))
<1> DEFINE reached == DOMAIN order
<1>2. /\ reached \in SUBSET Chunks /\ order \in Injection(reached, 1..Cardinality(reached))
      /\ order \in [reached -> 1..Cardinality(reached)]
  BY DEF Rankings, Injection
<1> HIDE DEF reached
<1>1. /\ IsFiniteSet(S) /\ Cardinality(S) \in Nat /\ Cardinality(reached) \in Nat
  <2>1. IsFiniteSet(reached)
    BY <1>2, SizeAssumption, FS_Subset
  <2>2. S \in SUBSET reached
    BY DEF reached
  <2> QED BY <2>1, <2>2, FS_Subset, FS_CardinalityType
<1>3. \A c \in reached : order[c] \in Nat
  BY <1>1, <1>2
<1>4. \A c, d \in reached : order[c] = order[d] => c = d
  BY <1>2 DEF Injection, IsInjective
<1>5. ASSUME NEW T \in SUBSET S, NEW U \in SUBSET T, U # T
      PROVE  Cardinality(U) \in Nat /\ Cardinality(T) \in Nat /\ Cardinality(U) < Cardinality(T)
  <2>1. IsFiniteSet(T)
    BY <1>1, FS_Subset
  <2>2. IsFiniteSet(U) /\ Cardinality(U) <= Cardinality(T) /\ Cardinality(T) # Cardinality(U)
    BY <2>1, <1>5, FS_Subset
  <2> QED BY <2>1, <2>2, FS_CardinalityType
<1>6. ASSUME NEW c \in S
      PROVE  /\ Cardinality(Ahead(order, S, c)) \in Nat
             /\ Cardinality(Ahead(order, S, c)) < Cardinality(S)
  <2>1. Ahead(order, S, c) \in SUBSET S /\ c \notin Ahead(order, S, c)
    BY <1>3 DEF Ahead, reached
  <2>2. Ahead(order, S, c) # S
    BY <2>1, <1>6
  <2> QED BY <1>5, <2>1, <2>2
<1>7. ASSUME NEW c \in S, NEW d \in S, order[c] < order[d]
      PROVE  Cardinality(Ahead(order, S, c)) < Cardinality(Ahead(order, S, d))
  <2>1. c \in reached /\ d \in reached
    BY DEF reached
  <2>2. \A e \in S : order[e] \in Nat
    BY <1>3 DEF reached
  <2>3. Ahead(order, S, d) \in SUBSET S
    BY DEF Ahead
  <2>4. Ahead(order, S, c) \in SUBSET Ahead(order, S, d)
    BY <1>7, <2>1, <2>2, <1>3 DEF Ahead
  <2>5. c \in Ahead(order, S, d) /\ c \notin Ahead(order, S, c)
    BY <1>7, <2>1, <1>3 DEF Ahead
  <2>6. Ahead(order, S, c) # Ahead(order, S, d)
    BY <2>5
  <2> QED BY <1>5, <2>3, <2>4, <2>6
<1> QED BY <1>1, <1>2, <1>3, <1>4, <1>6, <1>7 DEF reached

\* Two chunks of a set have different places, and every place is taken.
LEMMA EveryPlace ==
    ASSUME NEW order \in Rankings, NEW S \in SUBSET DOMAIN order
    PROVE  /\ \A c, d \in S :
                 Cardinality(Ahead(order, S, c)) = Cardinality(Ahead(order, S, d)) => c = d
           /\ \A n \in 1..Cardinality(S) :
                 \E c \in S : Cardinality(Ahead(order, S, c)) = n - 1
<1>1. IsFiniteSet(S) /\ Cardinality(S) \in Nat
  BY Places
<1>2. \A c, d \in S :
         Cardinality(Ahead(order, S, c)) = Cardinality(Ahead(order, S, d)) => c = d
  <2> SUFFICES ASSUME NEW c \in S, NEW d \in S,
                      Cardinality(Ahead(order, S, c)) = Cardinality(Ahead(order, S, d))
               PROVE  c = d
    OBVIOUS
  <2>1. /\ order[c] \in Nat /\ order[d] \in Nat
        /\ Cardinality(Ahead(order, S, c)) \in Nat
        /\ Cardinality(Ahead(order, S, d)) \in Nat
    BY Places
  <2>2. ~ (order[c] < order[d]) /\ ~ (order[d] < order[c])
    BY <2>1, Places
  <2>3. order[c] = order[d]
    BY <2>1, <2>2
  <2> QED BY <2>3, Places
<1> DEFINE place == [c \in S |-> Cardinality(Ahead(order, S, c)) + 1]
<1>3. \A c \in S : place[c] \in 1..Cardinality(S)
  BY <1>1, Places
<1>4. place \in [S -> 1..Cardinality(S)]
  BY <1>3
<1>5. \A c, d \in S : place[c] = place[d] => c = d
  <2> SUFFICES ASSUME NEW c \in S, NEW d \in S, place[c] = place[d]
               PROVE  c = d
    OBVIOUS
  <2>1. /\ Cardinality(Ahead(order, S, c)) \in Nat
        /\ Cardinality(Ahead(order, S, d)) \in Nat
    BY Places
  <2>2. Cardinality(Ahead(order, S, c)) = Cardinality(Ahead(order, S, d))
    BY <2>1
  <2> QED BY <1>2, <2>2
<1>6. place \in Injection(S, 1..Cardinality(S))
  BY <1>4, <1>5 DEF Injection, IsInjective
<1>7. IsFiniteSet(1..Cardinality(S)) /\ Cardinality(1..Cardinality(S)) = Cardinality(S)
  BY <1>1, FS_Interval
<1>8. place \in Surjection(S, 1..Cardinality(S))
  BY <1>6, <1>7, FS_Injection
<1>9. ASSUME NEW n \in 1..Cardinality(S)
      PROVE  \E c \in S : Cardinality(Ahead(order, S, c)) = n - 1
  <2>1. PICK c \in S : place[c] = n
    BY <1>8 DEF Surjection
  <2>2. Cardinality(Ahead(order, S, c)) \in Nat
    BY Places
  <2> QED BY <2>1, <2>2
<1> QED BY <1>2, <1>9

\* A list holds its set, each chunk once, in the order of the ranking.
LEMMA ListedFacts ==
    ASSUME NEW order \in Rankings, NEW S \in SUBSET DOMAIN order
    PROVE  /\ DOMAIN Listed(order, S) = 1..Cardinality(S)
           /\ Range(Listed(order, S)) = S
           /\ Len(Listed(order, S)) = Cardinality(S)
           /\ \A i, j \in DOMAIN Listed(order, S) :
                 i < j => order[Listed(order, S)[i]] < order[Listed(order, S)[j]]
<1> DEFINE L == Listed(order, S)
<1>1. Cardinality(S) \in Nat
  BY Places
<1>2. DOMAIN L = 1..Cardinality(S)
  BY DEF Listed
<1>3. \A n \in 1..Cardinality(S) :
         L[n] \in S /\ Cardinality(Ahead(order, S, L[n])) = n - 1
  BY EveryPlace DEF Listed
<1>4. L \in [1..Cardinality(S) -> S]
  BY <1>2, <1>3 DEF Listed
<1> HIDE DEF L
<1>5. Len(L) = Cardinality(S)
  BY <1>1, <1>4
<1>6. ASSUME NEW c \in S
      PROVE  \E n \in 1..Cardinality(S) : L[n] = c
  <2>1. /\ Cardinality(Ahead(order, S, c)) \in Nat
        /\ Cardinality(Ahead(order, S, c)) < Cardinality(S)
    BY Places
  <2>2. PICK n \in 1..Cardinality(S) : n = Cardinality(Ahead(order, S, c)) + 1
    BY <1>1, <2>1
  <2>3. L[n] \in S /\ Cardinality(Ahead(order, S, L[n])) = Cardinality(Ahead(order, S, c))
    BY <1>3, <2>1, <2>2
  <2> QED BY <2>3, EveryPlace
<1>7. Range(L) = S
  BY <1>2, <1>3, <1>6 DEF Range
<1>8. ASSUME NEW i \in DOMAIN L, NEW j \in DOMAIN L, i < j
      PROVE  order[L[i]] < order[L[j]]
  <2>1. /\ L[i] \in S /\ Cardinality(Ahead(order, S, L[i])) = i - 1
        /\ L[j] \in S /\ Cardinality(Ahead(order, S, L[j])) = j - 1
    BY <1>2, <1>3
  <2>2. order[L[i]] \in Nat /\ order[L[j]] \in Nat
    BY <2>1, Places
  <2>3. i \in Nat /\ j \in Nat /\ i - 1 < j - 1
    BY <1>1, <1>2, <1>8
  <2>4. ~ (order[L[j]] < order[L[i]])
    <3>1. order[L[j]] < order[L[i]] =>
             Cardinality(Ahead(order, S, L[j])) < Cardinality(Ahead(order, S, L[i]))
      BY <2>1, Places
    <3> QED BY <2>1, <2>3, <3>1
  <2>5. order[L[i]] # order[L[j]]
    <3>1. L[i] \in DOMAIN order /\ L[j] \in DOMAIN order
      BY <2>1
    <3>2. order[L[i]] = order[L[j]] => L[i] = L[j]
      BY <3>1, Places
    <3>3. L[i] # L[j]
      BY <2>1, <2>3
    <3> QED BY <3>2, <3>3
  <2> QED BY <2>2, <2>4, <2>5
<1> QED BY <1>2, <1>5, <1>7, <1>8 DEF L

-----------------------------------------------------------------------------
(* What a LIMIT keeps and what one search returns. *)

\* A set that is not empty has a nearest chunk.
LEMMA NearestOf ==
    ASSUME NEW order \in Rankings, NEW S \in SUBSET DOMAIN order, S # {}
    PROVE  \E c \in S : /\ Cardinality(Ahead(order, S, c)) = 0
                        /\ \A d \in S : order[c] <= order[d]
<1>1. Cardinality(S) \in Nat /\ Cardinality(S) # 0
  BY Places, FS_EmptySet
<1>2. PICK c \in S : Cardinality(Ahead(order, S, c)) = 0
  <2>1. 1 \in 1..Cardinality(S)
    BY <1>1
  <2>2. PICK c \in S : Cardinality(Ahead(order, S, c)) = 1 - 1
    BY <2>1, EveryPlace
  <2> QED BY <2>2
<1>3. Ahead(order, S, c) \in SUBSET S
  BY DEF Ahead
<1>4. IsFiniteSet(S)
  BY Places
<1>5. IsFiniteSet(Ahead(order, S, c))
  BY <1>3, <1>4, FS_Subset
<1>6. Ahead(order, S, c) = {}
  BY <1>2, <1>5, FS_EmptySet
<1>7. \A d \in S : ~ (order[d] < order[c])
  BY <1>6 DEF Ahead
<1>8. \A d \in S : order[d] \in Nat
  BY Places
<1> QED BY <1>2, <1>7, <1>8

\* LIMIT k keeps the nearest: whatever is nearer than a chunk it keeps is kept,
\* and k of them are kept if one is cut.
LEMMA NearestFacts ==
    ASSUME NEW order \in Rankings, NEW S \in SUBSET DOMAIN order, NEW k \in Nat
    PROVE  /\ Nearest(order, S, k) \in SUBSET S
           /\ \A c \in Nearest(order, S, k), d \in S :
                 order[d] < order[c] => d \in Nearest(order, S, k)
           /\ \A d \in S \ Nearest(order, S, k) :
                 /\ Cardinality(Ahead(order, S, d)) >= k
                 /\ Cardinality(Nearest(order, S, k)) = k
                 /\ \A c \in Nearest(order, S, k) : order[c] < order[d]
           /\ S # {} /\ k # 0 => Nearest(order, S, k) # {}
<1> DEFINE N == Nearest(order, S, k)
<1>1. \A c : c \in N <=> c \in S /\ Cardinality(Ahead(order, S, c)) < k
  BY DEF Nearest
<1>2. N \in SUBSET S
  BY <1>1
<1> HIDE DEF N
<1>3. \A c \in S : order[c] \in Nat /\ Cardinality(Ahead(order, S, c)) \in Nat
  BY Places
<1>4. ASSUME NEW c \in N, NEW d \in S, order[d] < order[c]
      PROVE  d \in N
  <2>1. c \in S /\ Cardinality(Ahead(order, S, c)) < k
    BY <1>1
  <2>2. Cardinality(Ahead(order, S, d)) < Cardinality(Ahead(order, S, c))
    BY <1>4, <2>1, Places
  <2>3. Cardinality(Ahead(order, S, d)) < k
    BY <1>3, <2>1, <2>2
  <2> QED BY <1>1, <2>3
<1>5. ASSUME NEW d \in S \ N
      PROVE  /\ Cardinality(Ahead(order, S, d)) >= k
             /\ Cardinality(N) = k
             /\ \A c \in N : order[c] < order[d]
  <2>1. Cardinality(Ahead(order, S, d)) >= k
    BY <1>1, <1>3
  <2>2. Cardinality(S) \in Nat /\ k < Cardinality(S) /\ IsFiniteSet(S)
    <3>1. /\ Cardinality(S) \in Nat /\ IsFiniteSet(S)
          /\ Cardinality(Ahead(order, S, d)) < Cardinality(S)
      BY Places
    <3> QED BY <1>3, <2>1, <3>1
  <2> DEFINE place == [c \in N |-> Cardinality(Ahead(order, S, c)) + 1]
  <2>3. \A c \in N : place[c] \in 1..k
    BY <1>1, <1>3
  <2>4. ASSUME NEW n \in 1..k
        PROVE  \E c \in N : place[c] = n
    <3>1. n \in 1..Cardinality(S) /\ n - 1 < k
      BY <2>2
    <3>2. PICK c \in S : Cardinality(Ahead(order, S, c)) = n - 1
      BY <3>1, EveryPlace
    <3>3. c \in N
      BY <1>1, <3>1, <3>2
    <3> QED BY <3>2, <3>3
  <2>5. \A c, e \in N : place[c] = place[e] => c = e
    <3>1. \A c, e \in S :
             Cardinality(Ahead(order, S, c)) = Cardinality(Ahead(order, S, e)) => c = e
      BY EveryPlace
    <3>2. \A c, e \in N : place[c] = place[e] =>
             Cardinality(Ahead(order, S, c)) = Cardinality(Ahead(order, S, e))
      <4> SUFFICES ASSUME NEW c \in N, NEW e \in N,
                          Cardinality(Ahead(order, S, c)) + 1 = Cardinality(Ahead(order, S, e)) + 1
                   PROVE  Cardinality(Ahead(order, S, c)) = Cardinality(Ahead(order, S, e))
        OBVIOUS
      <4> QED BY <1>2, <1>3
    <3> QED BY <1>2, <3>1, <3>2
  <2>6. place \in [N -> 1..k] /\ DOMAIN place = N
    BY <2>3
  <2> HIDE DEF place
  <2>7. place \in Surjection(N, 1..k) /\ place \in Injection(N, 1..k)
    BY <2>4, <2>5, <2>6 DEF Surjection, Injection, IsInjective
  <2>8. IsFiniteSet(N)
    BY <1>2, <2>2, FS_Subset
  <2>9. Cardinality(1..k) = Cardinality(N)
    BY <2>7, <2>8, FS_Surjection
  <2>10. Cardinality(N) = k
    BY <2>9, FS_Interval
  <2>11. ASSUME NEW c \in N
         PROVE  order[c] < order[d]
    <3>1. c \in S /\ Cardinality(Ahead(order, S, c)) < Cardinality(Ahead(order, S, d))
      BY <1>1, <1>3, <2>1
    <3>2. ~ (order[d] < order[c])
      BY <1>3, <3>1, Places
    <3>3. order[d] # order[c]
      BY <3>1, <1>3, Places
    <3> QED BY <1>3, <3>1, <3>2, <3>3
  <2> QED BY <2>1, <2>10, <2>11
<1>6. S # {} /\ k # 0 => N # {}
  BY <1>1, NearestOf
<1> QED BY <1>2, <1>4, <1>5, <1>6 DEF N

\* What satisfies the filters of a search, of what the index reached.
Hits(order, protocol, source) == {c \in DOMAIN order : Matches(c, protocol, source)}

\* A search returns chunks that satisfy the filters, each the nearest of its
\* document, one at least if there are any; and a document it does not return
\* is behind k others, or the over-fetch did not reach it.
LEMMA SearchFacts ==
    ASSUME NEW order \in Rankings, NEW k \in Nat \ {0}, NEW protocol, NEW source,
           NEW found, found = Search(order, k, protocol, source)
    PROVE  /\ found \in SUBSET Hits(order, protocol, source)
           /\ \A c \in found, d \in Hits(order, protocol, source) :
                 Document(c) = Document(d) => order[c] <= order[d]
           /\ Hits(order, protocol, source) # {} => found # {}
           /\ \A d \in Hits(order, protocol, source) :
                 \/ \E c \in found : Document(c) = Document(d)
                 \/ Cardinality(found) = k /\ \A c \in found : order[c] < order[d]
                 \/ Cardinality(Ahead(order, Hits(order, protocol, source), d)) >= k * FetchMultiplier
<1> DEFINE H == Hits(order, protocol, source)
           most == k * FetchMultiplier
           F == Nearest(order, H, most)
           C == Capped(order, F)
<1>1. found = Nearest(order, C, k)
  BY DEF Search, Hits
<1>2. H \in SUBSET DOMAIN order
  BY DEF Hits
<1>3. most \in Nat /\ most # 0
  <2>1. FetchMultiplier \in Nat \ {0}
    BY SizeAssumption
  <2> QED BY <2>1
<1>4. \A c : c \in C <=> c \in F /\ \A d \in F : Document(d) = Document(c) => order[c] <= order[d]
  BY DEF Capped
<1> HIDE DEF most
<1>5. F \in SUBSET H
  BY <1>2, <1>3, NearestFacts
<1>6. \A c \in F, d \in H : order[d] < order[c] => d \in F
  BY <1>2, <1>3, NearestFacts
<1>7. \A d \in H \ F : Cardinality(Ahead(order, H, d)) >= most
  BY <1>2, <1>3, NearestFacts
<1>8. H # {} => F # {}
  BY <1>2, <1>3, NearestFacts
<1> HIDE DEF H, F, C
<1>9. C \in SUBSET DOMAIN order /\ C \in SUBSET F
  BY <1>2, <1>4, <1>5
<1>10. /\ found \in SUBSET C
       /\ \A d \in C \ found : Cardinality(found) = k /\ \A c \in found : order[c] < order[d]
       /\ C # {} => found # {}
  BY <1>1, <1>9, NearestFacts
<1>11. \A c \in DOMAIN order : order[c] \in Nat
  BY Places
<1>12. ASSUME NEW d \in F
       PROVE  \E c \in C : Document(c) = Document(d) /\ order[c] <= order[d]
  <2> DEFINE D == {e \in F : Document(e) = Document(d)}
  <2>1. D \in SUBSET DOMAIN order /\ d \in D
    BY <1>2, <1>5
  <2>2. PICK c \in D : \A e \in D : order[c] <= order[e]
    BY <2>1, NearestOf
  <2>3. c \in C
    BY <1>4, <2>2
  <2> QED BY <2>1, <2>2, <2>3
<1>13. ASSUME NEW c \in found, NEW d \in H, Document(c) = Document(d)
       PROVE  order[c] <= order[d]
  <2>1. c \in C /\ c \in F /\ c \in DOMAIN order /\ d \in DOMAIN order
    BY <1>2, <1>9, <1>10
  <2>2. d \in F => order[c] <= order[d]
    BY <1>4, <1>13, <2>1
  <2>3. d \notin F => ~ (order[d] < order[c])
    BY <1>6, <2>1
  <2> QED BY <1>11, <2>1, <2>2, <2>3
<1>14. ASSUME NEW d \in H
       PROVE  \/ \E c \in found : Document(c) = Document(d)
              \/ Cardinality(found) = k /\ \A c \in found : order[c] < order[d]
              \/ Cardinality(Ahead(order, H, d)) >= most
  <2>1. CASE d \notin F
    BY <1>7, <2>1
  <2>2. CASE d \in F
    <3>1. PICK c \in C : Document(c) = Document(d) /\ order[c] <= order[d]
      BY <1>12, <2>2
    <3>2. CASE c \in found
      BY <3>1, <3>2
    <3>3. CASE c \notin found
      <4>1. Cardinality(found) = k /\ \A e \in found : order[e] < order[c]
        BY <1>10, <3>3
      <4>2. \A e \in found : order[e] \in Nat
        BY <1>9, <1>10, <1>11
      <4>3. order[c] \in Nat /\ order[d] \in Nat
        BY <1>2, <1>9, <1>11
      <4> QED BY <3>1, <4>1, <4>2, <4>3
    <3> QED BY <3>2, <3>3
  <2> QED BY <2>1, <2>2
<1>15. found \in SUBSET H
  BY <1>5, <1>9, <1>10
<1>16. H # {} => found # {}
  BY <1>8, <1>10, <1>12
<1> QED BY <1>13, <1>14, <1>15, <1>16 DEF H, most

-----------------------------------------------------------------------------
(* The inductive invariant: what the chunks in the state are. *)

Decisions == [route : Executions, scope : {"one", "all"}, protocol : Protocols \cup {None},
              source : Sources \cup {None}]

\* The proposals that narrow the search, and what is left of it.
Ids == rows \ {NoId}
Kept == IF Ids = {} THEN Found(rank) ELSE Narrow(Found(rank), Ids)

\* Where the question is tells what it has.
Underway ==
    /\ decision \in Decisions
    /\ rows \in SUBSET Proposals \/ rows = {NoId}
    /\ pc \in Executions => decision.route = pc
    /\ pc = "router" => rows = {}
    /\ pc \in Executions \cup {"router"} => rank = <<>> /\ chunks = <<>>
    /\ decision.route = "vector" => rows = {}

\* No search yet, or one, whose result the state holds.
Searched == \/ rank = <<>> /\ chunks = <<>>
            \/ rank \in Rankings /\ chunks = Listed(rank, Kept)

IInv == Underway /\ Searched /\ Grounded

\* One search asks for at least one chunk.
LEMMA KFacts == K \in Nat \ {0} /\ KPerProtocol \in Nat \ {0}
BY SizeAssumption DEF K

\* What the filters of a search let pass, for one protocol and for all.
LEMMA HitsFacts ==
    ASSUME NEW order, NEW protocol \in Protocols \cup {None}, NEW source
    PROVE  /\ Hits(order, protocol, source) \in SUBSET Hits(order, None, source)
           /\ \A c \in Hits(order, None, source) :
                 protocol \in {None, ProtocolOf[c]} => c \in Hits(order, protocol, source)
           /\ protocol # None =>
                 \A c \in Hits(order, protocol, source) : ProtocolOf[c] = protocol
BY DEF Hits, Matches

\* What a search or a fan-out found is in the store.
LEMMA FoundInStore ==
    ASSUME NEW order \in Rankings
    PROVE  Found(order) \in SUBSET DOMAIN order
<1>1. ASSUME NEW k \in Nat \ {0}, NEW protocol, NEW source
      PROVE  Search(order, k, protocol, source) \in SUBSET DOMAIN order
  <2>1. Search(order, k, protocol, source) \in SUBSET Hits(order, protocol, source)
    BY SearchFacts
  <2> QED BY <2>1 DEF Hits
<1> QED BY <1>1, KFacts DEF Found, FanOut

\* What is kept of it: all that is no proposal, and the proposals SQL named.
LEMMA KeptFacts ==
    ASSUME rank \in Rankings
    PROVE  /\ Kept \in SUBSET Found(rank) /\ Kept \in SUBSET DOMAIN rank
           /\ Ids = {} => Kept = Found(rank)
           /\ Ids # {} => Kept = Narrow(Found(rank), Ids)
<1>1. Found(rank) \in SUBSET DOMAIN rank
  BY FoundInStore
<1> QED BY <1>1 DEF Kept, Narrow

\* A list of nothing is empty, and only that.
LEMMA NothingListed ==
    ASSUME NEW order
    PROVE  Listed(order, {}) = <<>>
<1>1. Cardinality({}) = 0
  BY FS_EmptySet
<1>2. Listed(order, {}) = [n \in {} |-> CHOOSE c \in {} : Cardinality(Ahead(order, {}, c)) = n - 1]
  BY <1>1 DEF Listed
<1> QED BY <1>2

\* What the judge reads was retrieved.
LEMMA ContextFacts ==
    ASSUME Searched
    PROVE  /\ Context \in SUBSET Range(chunks)
           /\ rank \notin Rankings => Context = {}
           /\ rank \in Rankings => Context \in SUBSET DOMAIN rank
<1>1. Context \in SUBSET Range(chunks)
  BY DEF Context, Range
<1>2. CASE rank = <<>> /\ chunks = <<>>
  BY <1>1, <1>2 DEF Range
<1>3. CASE rank \in Rankings /\ chunks = Listed(rank, Kept)
  <2>1. Range(chunks) = Kept
    BY <1>3, KeptFacts, ListedFacts
  <2> QED BY <1>1, <1>3, <2>1, KeptFacts
<1> QED BY <1>1, <1>2, <1>3 DEF Searched

\* What the analyst can cite is what the judge called relevant.
LEMMA CitedIsRelevant ==
    ASSUME Searched, NEW scored \in SUBSET Context
    PROVE  /\ \A markers : Resolve(markers, Listed(rank, scored)) \in SUBSET scored
           /\ Listed(rank, scored) = <<>> <=> scored = {}
<1>1. CASE scored = {}
  <2>1. Listed(rank, scored) = <<>>
    BY <1>1, NothingListed
  <2> QED BY <1>1, <2>1 DEF Resolve
<1>2. CASE scored # {}
  <2>1. rank \in Rankings /\ scored \in SUBSET DOMAIN rank
    BY <1>2, ContextFacts
  <2>2. Range(Listed(rank, scored)) = scored
    BY <2>1, ListedFacts
  <2>3. \A n \in DOMAIN Listed(rank, scored) : Listed(rank, scored)[n] \in scored
    BY <2>2 DEF Range
  <2>4. Listed(rank, scored) # <<>>
    BY <1>2, <2>2 DEF Range
  <2> QED BY <1>2, <2>3, <2>4 DEF Resolve
<1> QED BY <1>1, <1>2

\* Nothing is retrieved or answered at first.
LEMMA InitIInv == Init => IInv
<1> SUFFICES ASSUME Init PROVE IInv
  OBVIOUS
<1>1. Underway
  BY DEF Init, Underway, Decisions, Executions, Sources
<1>2. Searched
  BY DEF Init, Searched
<1>3. Grounded
  BY DEF Init, Grounded
<1> QED BY <1>1, <1>2, <1>3 DEF IInv

\* A template returns proposals or rows without an id.
LEMMA RunSqlFacts ==
    ASSUME RunSql
    PROVE  rows' \in SUBSET Proposals \/ rows' = {NoId}
BY DEF RunSql, Results

\* A retrieval leaves in the state what it found, narrowed to its ids.
LEMMA RetrieveFacts ==
    ASSUME Retrieve(Ids'), UNCHANGED decision
    PROVE  Searched'
<1>1. PICK order \in Rankings :
         /\ rank' = order
         /\ chunks' = Listed(order, IF Ids' = {} THEN Found(order) ELSE Narrow(Found(order), Ids'))
  BY DEF Retrieve
<1>2. Found(order) = Found(rank)'
  BY <1>1 DEF Found, FanOut, K, Fanned
<1>3. Kept' = IF Ids' = {} THEN Found(order) ELSE Narrow(Found(order), Ids')
  BY <1>2 DEF Kept
<1> QED BY <1>1, <1>3 DEF Searched

\* Every node keeps the invariant, a failing one too.
LEMMA NextIInv == IInv /\ [Next]_vars => IInv'
<1> SUFFICES ASSUME IInv, [Next]_vars
             PROVE  IInv'
  OBVIOUS
<1> USE DEF IInv
<1>1. CASE Router
  <2>1. decision' \in Decisions /\ decision'.route = pc' /\ pc = "router"
    <3>1. PICK raw \in Raw : decision' = Normalise(raw)
      BY <1>1 DEF Router
    <3>2. Normalise(raw) \in Decisions
      BY DEF Normalise, Raw, Decisions, Executions, Sources
    <3> QED BY <1>1, <3>1, <3>2 DEF Router
  <2>2. pc' \in Executions /\ UNCHANGED <<rows, chunks, rank>>
    BY <1>1, <2>1 DEF Router, Decisions
  <2>3. Underway'
    BY <2>1, <2>2 DEF Underway, Executions
  <2>4. rank = <<>> /\ chunks = <<>>
    BY <2>1 DEF Underway
  <2>5. Searched'
    BY <2>2, <2>4 DEF Searched
  <2>6. Grounded'
    BY <2>2 DEF Grounded, Executions
  <2> QED BY <2>3, <2>5, <2>6
<1>2. CASE SqlNode
  <2>1. /\ pc = "sql" /\ pc' = "synthesis" /\ RunSql
        /\ UNCHANGED <<decision, rank, chunks>>
    BY <1>2 DEF SqlNode
  <2>2. decision.route = "sql" /\ rank = <<>> /\ chunks = <<>>
    BY <2>1 DEF Underway, Executions
  <2>3. Underway'
    BY <2>1, <2>2, RunSqlFacts DEF Underway, Executions
  <2>4. Searched' /\ Grounded'
    BY <2>1, <2>2 DEF Searched, Grounded
  <2> QED BY <2>3, <2>4
<1>3. CASE VectorNode
  <2>1. /\ pc = "vector" /\ pc' = "synthesis" /\ Retrieve({})
        /\ UNCHANGED <<decision, rows>>
    BY <1>3 DEF VectorNode
  <2>2. decision.route = "vector" /\ rows = {}
    BY <2>1 DEF Underway, Executions
  <2>3. Underway'
    BY <2>1, <2>2 DEF Underway, Executions
  <2>4. Ids' = {}
    BY <2>1, <2>2 DEF Ids
  <2>5. Searched'
    BY <2>1, <2>4, RetrieveFacts
  <2>6. Grounded'
    BY <2>1 DEF Grounded
  <2> QED BY <2>3, <2>5, <2>6
<1>4. CASE HybridNode
  <2>1. /\ pc = "hybrid" /\ pc' = "synthesis" /\ RunSql /\ Retrieve(rows' \ {NoId})
        /\ UNCHANGED decision
    BY <1>4 DEF HybridNode
  <2>2. decision.route = "hybrid"
    BY <2>1 DEF Underway, Executions
  <2>3. Underway'
    BY <2>1, <2>2, RunSqlFacts DEF Underway, Executions
  <2>4. Searched'
    BY <2>1, RetrieveFacts DEF Ids
  <2>5. Grounded'
    BY <2>1 DEF Grounded
  <2> QED BY <2>3, <2>4, <2>5
<1>5. CASE Synthesis
  <2>1. PICK scored \in SUBSET Context :
           /\ good' = scored
           /\ IF Nothing(Listed(rank, scored))
              THEN answer' = [text |-> "refusal", citations |-> {}, gap |-> TRUE]
              ELSE Analyst(Listed(rank, scored))
    BY <1>5 DEF Synthesis
  <2>2. pc' = "done" /\ UNCHANGED <<decision, rows, chunks, rank>>
    BY <1>5 DEF Synthesis
  <2>3. Underway' /\ Searched'
    BY <2>2 DEF Underway, Executions, Searched, Kept, Ids, Found, FanOut, K, Fanned
  <2>4. Context' = Context
    BY <2>2 DEF Context
  <2>5. CASE Nothing(Listed(rank, scored))
    <3>1. answer' = [text |-> "refusal", citations |-> {}, gap |-> TRUE]
      BY <2>1, <2>5
    <3>2. scored = {} /\ rows = {}
      BY <2>5, CitedIsRelevant DEF Nothing
    <3> QED BY <2>1, <2>2, <2>3, <3>1, <3>2 DEF Grounded
  <2>6. CASE ~ Nothing(Listed(rank, scored))
    <3>1. rows # {} \/ scored # {}
      BY <2>6, NothingListed DEF Nothing
    <3>2. \/ answer'.text = "prose" /\ answer'.citations \in SUBSET scored
          \/ answer'.text = "blank" /\ answer'.citations = {} /\ answer'.gap = TRUE
      <4>1. PICK markers \in {{}} \cup {{n} : n \in 1..MaxContext}, flag \in BOOLEAN :
               \/ answer' = [text |-> "prose", gap |-> flag,
                             citations |-> Resolve(markers, Listed(rank, scored))]
               \/ answer' = [text |-> "blank", citations |-> {}, gap |-> TRUE]
        BY <2>1, <2>6 DEF Analyst
      <4> QED BY <4>1, CitedIsRelevant
    <3> QED BY <2>1, <2>2, <2>3, <2>4, <3>1, <3>2 DEF Grounded
  <2> QED BY <2>3, <2>5, <2>6
<1>6. CASE NodeFails
  <2>1. pc' = "error" /\ UNCHANGED <<decision, rows, chunks, rank>>
    BY <1>6 DEF NodeFails
  <2>2. Underway'
    BY <2>1 DEF Underway, Executions
  <2>3. Searched'
    BY <2>1 DEF Searched, Kept, Ids, Found, FanOut, K, Fanned
  <2>4. Grounded'
    BY <2>1 DEF Grounded
  <2> QED BY <2>2, <2>3, <2>4
<1>7. CASE UNCHANGED vars
  BY <1>7 DEF vars, Underway, Searched, Kept, Ids, Found, FanOut, K, Fanned, Grounded, Context
<1> QED BY <1>1, <1>2, <1>3, <1>4, <1>5, <1>6, <1>7 DEF Next

\* The invariant holds in every behaviour.
LEMMA Invariant == Spec => []IInv
BY InitIInv, NextIInv, PTL DEF Spec

-----------------------------------------------------------------------------
(* The properties. *)

\* What the graph's retrieval found, whether it fanned out or not: see SearchFacts.
LEMMA FoundFacts ==
    ASSUME Underway, rank \in Rankings
    PROVE  /\ Found(rank) \in SUBSET Matching
           /\ \A c \in Found(rank), d \in Matching :
                 Document(c) = Document(d) => rank[c] <= rank[d]
           /\ ~ Fanned => \A d \in Matching :
                 \/ \E c \in Found(rank) : Document(c) = Document(d)
                 \/ Cardinality(Found(rank)) = K /\ \A c \in Found(rank) : rank[c] < rank[d]
                 \/ Cardinality(Ahead(rank, Matching, d)) >= K * FetchMultiplier
           /\ Fanned => \A d \in Matching :
                 ProtocolOf[d] \in Protocols =>
                    \E c \in Found(rank) : ProtocolOf[c] = ProtocolOf[d]
<1>1. Matching = Hits(rank, decision.protocol, decision.source)
  BY DEF Matching, Hits
<1>2. decision.protocol \in Protocols \cup {None}
  BY DEF Underway, Decisions
<1>3. CASE ~ Fanned
  <2>1. Found(rank) = Search(rank, K, decision.protocol, decision.source)
    BY <1>3 DEF Found
  <2> QED BY <1>1, <1>3, <2>1, KFacts, SearchFacts
<1>4. CASE Fanned
  <2> DEFINE hits(p) == Search(rank, KPerProtocol, p, decision.source)
  <2>1. \A c : c \in Found(rank) <=> \E p \in Protocols : c \in hits(p)
    BY <1>4 DEF Found, FanOut
  <2>2. Matching = Hits(rank, None, decision.source)
    BY <1>1, <1>4 DEF Fanned
  <2>3. ASSUME NEW p \in Protocols
        PROVE  /\ hits(p) \in SUBSET Hits(rank, p, decision.source)
               /\ \A c \in hits(p), d \in Hits(rank, p, decision.source) :
                     Document(c) = Document(d) => rank[c] <= rank[d]
               /\ Hits(rank, p, decision.source) # {} => hits(p) # {}
    BY KFacts, SearchFacts
  <2> HIDE DEF hits
  <2>4. \A p \in Protocols : p # None
    BY SizeAssumption
  <2>5. Found(rank) \in SUBSET Matching
    BY <2>1, <2>2, <2>3, HitsFacts
  <2>6. ASSUME NEW c \in Found(rank), NEW d \in Matching, Document(c) = Document(d)
        PROVE  rank[c] <= rank[d]
    <3>1. PICK p \in Protocols : c \in hits(p)
      BY <2>1
    <3>2. c \in Hits(rank, p, decision.source) /\ ProtocolOf[c] = p
      BY <2>3, <2>4, <3>1, HitsFacts
    <3>3. c \in Chunks /\ d \in Chunks
      BY <2>5, Places DEF Matching
    <3>4. ProtocolOf[d] = p
      BY <2>6, <3>2, <3>3, DocumentAssumption DEF Document
    <3>5. d \in Hits(rank, p, decision.source)
      BY <2>2, <3>4, HitsFacts
    <3> QED BY <2>3, <2>6, <3>1, <3>5
  <2>7. ASSUME NEW d \in Matching, ProtocolOf[d] \in Protocols
        PROVE  \E c \in Found(rank) : ProtocolOf[c] = ProtocolOf[d]
    <3> DEFINE p == ProtocolOf[d]
    <3>1. d \in Hits(rank, p, decision.source)
      BY <2>2, <2>7, HitsFacts
    <3>2. PICK c \in hits(p) : c \in Hits(rank, p, decision.source)
      BY <2>3, <2>7, <3>1
    <3>3. ProtocolOf[c] = p
      BY <2>4, <2>7, <3>2, HitsFacts
    <3> QED BY <2>1, <2>7, <3>2, <3>3
  <2> QED BY <1>4, <2>5, <2>6, <2>7
<1> QED BY <1>3, <1>4

\* The chunks of the state, once retrieved.
LEMMA ChunksFacts ==
    ASSUME IInv, Retrieved
    PROVE  /\ rank \in Rankings /\ Underway
           /\ Range(chunks) = Kept
           /\ Len(chunks) = Cardinality(Kept)
           /\ \A i, j \in DOMAIN chunks : i < j => Nearer(chunks[i], chunks[j])
<1>1. rank \in Rankings /\ chunks = Listed(rank, Kept) /\ Underway
  BY DEF IInv, Searched, Retrieved
<1>2. Kept \in SUBSET DOMAIN rank
  BY <1>1, KeptFacts
<1> QED BY <1>1, <1>2, ListedFacts DEF Nearer

\* Every passage satisfies the filters and is the nearest of its document, no
\* document has two, the nearest comes first, and a document that was not
\* found is behind k others or beyond the over-fetch (search, retrieve).
THEOREM PassagesAreRight == Spec => []RightPassages
<1>1. IInv => RightPassages
  <2> SUFFICES ASSUME IInv, Retrieved
               PROVE  RightPassages
    BY DEF RightPassages
  <2> DEFINE found == Found(rank)
  <2>1. /\ rank \in Rankings /\ Underway
        /\ Range(chunks) = Kept /\ Len(chunks) = Cardinality(Kept)
        /\ \A i, j \in DOMAIN chunks : i < j => Nearer(chunks[i], chunks[j])
    BY ChunksFacts
  <2>2. Kept \in SUBSET found /\ (Ids = {} => Kept = found)
    BY <2>1, KeptFacts
  <2>3. /\ found \in SUBSET Matching
        /\ \A c \in found, d \in Matching : Document(c) = Document(d) => rank[c] <= rank[d]
        /\ ~ Fanned => \A d \in Matching :
              \/ \E c \in found : Document(c) = Document(d)
              \/ Cardinality(found) = K /\ \A c \in found : rank[c] < rank[d]
              \/ Cardinality(Ahead(rank, Matching, d)) >= K * FetchMultiplier
    BY <2>1, FoundFacts
  <2>4. \A c \in Matching : rank[c] \in Nat
    BY <2>1, Places DEF Matching
  <2> HIDE DEF found
  <2>5. Range(chunks) \subseteq {c \in Chunks : /\ decision.protocol \in {None, ProtocolOf[c]}
                                                /\ decision.source \in {None, SourceOf[c]}}
    BY <2>1, <2>2, <2>3, Places DEF Matching, Matches
  <2>6. ASSUME NEW c \in Range(chunks), NEW d \in Range(chunks), Document(c) = Document(d)
        PROVE  c = d
    <3>1. c \in found /\ d \in found /\ c \in Matching /\ d \in Matching
      BY <2>1, <2>2, <2>3
    <3>2. rank[c] <= rank[d] /\ rank[d] <= rank[c]
      BY <2>3, <2>6, <3>1
    <3>3. rank[c] = rank[d] /\ c \in DOMAIN rank /\ d \in DOMAIN rank
      BY <2>4, <3>1, <3>2 DEF Matching
    <3> QED BY <2>1, <3>3, Places
  <2>7. ASSUME NEW c \in Range(chunks), NEW d \in Matching, Document(c) = Document(d)
        PROVE  ~ Nearer(d, c)
    <3>1. c \in found /\ c \in Matching
      BY <2>1, <2>2, <2>3
    <3>2. rank[c] <= rank[d]
      BY <2>3, <2>7, <3>1
    <3> QED BY <2>4, <3>1, <3>2 DEF Nearer
  <2>8. ASSUME ~ Fanned, rows \cap Proposals = {}, NEW d \in Matching
        PROVE  \/ \E c \in Range(chunks) : Document(c) = Document(d)
               \/ Len(chunks) = K /\ \A c \in Range(chunks) : Nearer(c, d)
               \/ Cardinality({c \in Matching : Nearer(c, d)}) >= K * FetchMultiplier
    <3>1. Ids = {}
      BY <2>1, <2>8 DEF Ids, Underway
    <3>2. Range(chunks) = found /\ Len(chunks) = Cardinality(found)
      BY <2>1, <2>2, <3>1
    <3>3. Ahead(rank, Matching, d) = {c \in Matching : Nearer(c, d)}
      BY DEF Ahead, Nearer
    <3> QED BY <2>3, <2>8, <3>2, <3>3 DEF Nearer
  <2> QED BY <2>1, <2>5, <2>6, <2>7, <2>8 DEF RightPassages
<1> QED BY <1>1, Invariant, PTL

\* A fanned-out question has a passage of every configured protocol of which
\* the index reached one, and of no other (the loop over PROTOCOLS in retrieve).
THEOREM FanOutIsFair == Spec => []FanOutCovers
<1>1. IInv => FanOutCovers
  <2> SUFFICES ASSUME IInv, Retrieved, Fanned, decision.route = "vector"
               PROVE  {ProtocolOf[c] : c \in Range(chunks)}
                         = Protocols \cap {ProtocolOf[c] : c \in Matching}
    BY DEF FanOutCovers
  <2>1. rank \in Rankings /\ Underway /\ Range(chunks) = Kept
    BY ChunksFacts
  <2>2. Ids = {}
    BY <2>1 DEF Underway, Ids
  <2>3. Range(chunks) = Found(rank)
    BY <2>1, <2>2, KeptFacts
  <2>4. /\ Found(rank) \in SUBSET Matching
        /\ \A d \in Matching : ProtocolOf[d] \in Protocols =>
              \E c \in Found(rank) : ProtocolOf[c] = ProtocolOf[d]
    BY <2>1, FoundFacts
  <2>5. ASSUME NEW c \in Found(rank)
        PROVE  ProtocolOf[c] \in Protocols
    <3>1. PICK p \in Protocols : c \in Search(rank, KPerProtocol, p, decision.source)
      BY <2>5 DEF Found, FanOut
    <3>2. c \in Hits(rank, p, decision.source)
      BY <2>1, <3>1, KFacts, SearchFacts
    <3>3. p # None
      BY SizeAssumption
    <3> QED BY <3>2, <3>3, HitsFacts
  <2> QED BY <2>3, <2>4, <2>5
<1> QED BY <1>1, Invariant, PTL

\* Proposals that SQL named narrow the proposals found and leave every forum
\* passage (the last filter of retrieve).
THEOREM SqlNarrows == Spec => []NarrowedToSql
<1>1. IInv => NarrowedToSql
  <2> SUFFICES ASSUME IInv, Retrieved, rows \cap Proposals # {}
               PROVE  /\ \A c \in Range(chunks) :
                            SourceOf[c] = "proposal" => DocumentOf[c] \in rows
                      /\ \A c \in Found(rank) : SourceOf[c] = "forum" => c \in Range(chunks)
    BY DEF NarrowedToSql
  <2>1. rank \in Rankings /\ Underway /\ Range(chunks) = Kept
    BY ChunksFacts
  <2>2. Ids # {} /\ Ids \in SUBSET rows
    BY IdAssumption DEF Ids
  <2>3. Range(chunks) = Narrow(Found(rank), Ids)
    BY <2>1, <2>2, KeptFacts
  <2> QED BY <2>2, <2>3 DEF Narrow
<1> QED BY <1>1, Invariant, PTL

\* Whatever the models say, a citation is a passage that was retrieved, read
\* and found relevant, and an answer without a gap has evidence (synthesis.py).
THEOREM AnswersAreGrounded == Spec => []Grounded
<1>1. IInv => Grounded
  BY DEF IInv
<1> QED BY <1>1, Invariant, PTL
=============================================================================
