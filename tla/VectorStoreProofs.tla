------------------------- MODULE VectorStoreProofs -------------------------
(***************************************************************************)
(* Theorems about VectorStore for any entities, texts, chunks and number   *)
(* of records.                                                             *)
(*                                                                         *)
(* That the table is keyed, that what a complete run covered stays stored, *)
(* and that a reference names one row, hold for any number of loaders.     *)
(* What is paid is for one loader (OneLoader): while the vector of a chunk *)
(* is neither stored nor in hand, and while the chunk waits in the work    *)
(* list, where it stands once, it was paid for no more often than lost     *)
(* (Unpaid).                                                               *)
(*                                                                         *)
(* The cutting is followed through for every document: the windows of a    *)
(* section overlap enough (WindowsKeepPhrases), its heading goes with each *)
(* of them (SectionKept), runts lose nothing where they join               *)
(* (MergeKeepsWords), and what stands in a piece above the floor stays     *)
(* kept to the last merge (MergeKeeps, ChunksKeep).  The two recursive     *)
(* functions on the way, FlattenSeq and Merged, are unrolled by StepByStep *)
(* and CountUp, induction on numbers from their well-foundedness.          *)
(***************************************************************************)
EXTENDS VectorStore, SequenceTheorems, FiniteSetTheorems, WellFoundedInduction, TLAPS

-----------------------------------------------------------------------------
(* Chunks. *)

\* A row of document_embeddings has these columns.
IsChunk(c) == c = [doc |-> c.doc, hash |-> c.hash, index |-> c.index, scheme |-> c.scheme,
                   heading |-> c.heading, title |-> c.title, from |-> c.from, to |-> c.to]

\* A silver row has these, its text is one its entity may have, and of each
\* entity one row is current.
IsRecord(r) == /\ r = [entity |-> r.entity, text |-> r.text, title |-> r.title,
                       from |-> r.from, to |-> r.to]
               /\ r.entity \in Entities
               /\ r.text \in {v.text : v \in Versions[r.entity]}

SilverOK == /\ clock \in Nat /\ \A r \in silver : IsRecord(r)
            /\ \A q, r \in Current : q.entity = r.entity => q = r

\* Chunk numbers of different posts do not meet.
LEMMA SpreadFacts ==
    ASSUME NEW n \in Nat, NEW p \in Nat, NEW q \in Nat, NEW i \in 0..(n - 1), NEW j \in 0..(n - 1),
           p * n + i = q * n + j
    PROVE  p = q /\ i = j
<1>1. ASSUME NEW a \in Nat, NEW b \in Nat, NEW k \in 0..(n - 1), NEW m \in 0..(n - 1), a < b
      PROVE  a * n + k < b * n + m
  <2>1. PICK c \in Nat : b = a + 1 + c
    <3>1. b - a - 1 \in Nat /\ b = a + 1 + (b - a - 1)
      BY <1>1
    <3> QED BY <3>1
  <2>2. b * n = a * n + n + c * n
    BY <2>1
  <2>3. c * n \in Nat /\ a * n \in Nat
    OBVIOUS
  <2> QED BY <2>2, <2>3
<1>2. ~(p < q) /\ ~(q < p)
  BY <1>1
<1>3. p = q
  BY <1>2
<1>4. p * n \in Nat
  OBVIOUS
<1> QED BY <1>3, <1>4

\* The pieces of a post are fewer than the spread of its topic's indexes.
LEMMA PiecesFacts ==
    ASSUME NEW e \in Posts, NEW s \in Schemes, NEW t \in {v.text : v \in Versions[e]},
           NEW i \in Pieces(e, s, t)
    PROVE  i \in 0..(Spread - 1)
<1>1. t \in Texts
  BY PostAssumption DEF Texts
<1>2. Pieces(e, s, t) = {j - 1 : j \in Substantive(Cuts[s][t], FALSE)}
  BY <1>1 DEF Pieces, PieceTable
<1>3. PICK j \in Substantive(Cuts[s][t], FALSE) : i = j - 1
  BY <1>2
<1>4. j \in DOMAIN Cuts[s][t]
  BY <1>3 DEF Substantive
<1>5. j \in 1..Spread
  BY <1>4, SpreadAssumption
<1> QED BY <1>3, <1>5, SpreadAssumption

\* What the loader produces are chunks, each with a document and a number of
\* its own.
LEMMA ProducedFacts ==
    ASSUME SilverOK, NEW s \in Schemes
    PROVE  /\ \A c \in Produced(s) : IsChunk(c) /\ c.scheme = s
           /\ \A c, d \in Produced(s) : c.doc = d.doc /\ c.index = d.index => c = d
<1>1. ASSUME NEW c \in Produced(s)
      PROVE  \E r \in Curated : \E i \in Pieces(r.entity, s, r.text) : c = Chunk(r.entity, r, i, s)
  BY DEF Produced
<1>2. ASSUME NEW c \in Produced(s) PROVE IsChunk(c) /\ c.scheme = s
  BY <1>1 DEF IsChunk, Chunk
<1>3. ASSUME NEW c \in Produced(s), NEW d \in Produced(s), c.doc = d.doc, c.index = d.index
      PROVE  c = d
  <2>1. PICK q \in Curated : \E i \in Pieces(q.entity, s, q.text) : c = Chunk(q.entity, q, i, s)
    BY <1>1
  <2>2. PICK i \in Pieces(q.entity, s, q.text) : c = Chunk(q.entity, q, i, s)
    BY <2>1
  <2>3. PICK r \in Curated : \E j \in Pieces(r.entity, s, r.text) : d = Chunk(r.entity, r, j, s)
    BY <1>1
  <2>4. PICK j \in Pieces(r.entity, s, r.text) : d = Chunk(r.entity, r, j, s)
    BY <2>3
  <2>5. /\ DocumentOf[q.entity] = DocumentOf[r.entity]
        /\ IndexOf(q.entity, i) = IndexOf(r.entity, j)
    BY <1>3, <2>2, <2>4 DEF Chunk
  <2>6. q \in Current /\ r \in Current /\ IsRecord(q) /\ IsRecord(r)
    BY DEF Curated, Current, SilverOK
  <2>7. q.entity = r.entity /\ i = j
    <3>1. CASE q.entity \notin Posts \/ r.entity \notin Posts
      <4>1. q.entity = r.entity
        BY <2>5, <2>6, <3>1, DocumentAssumption DEF IsRecord
      <4> QED BY <2>5, <3>1, <4>1 DEF IndexOf
    <3>2. CASE q.entity \in Posts /\ r.entity \in Posts
      <4>1. i \in 0..(Spread - 1) /\ j \in 0..(Spread - 1)
        BY <2>2, <2>4, <2>6, <3>2, PiecesFacts DEF IsRecord
      <4>2. PostId[q.entity] * Spread + i = PostId[r.entity] * Spread + j
        BY <2>5, <3>2 DEF IndexOf, ForumChunkIndex
      <4>3. PICK a \in Nat, b \in Nat, n \in Nat :
               a = PostId[q.entity] /\ b = PostId[r.entity] /\ n = Spread
        BY <3>2, PostIdAssumption, SpreadAssumption
      <4>4. i \in 0..(n - 1) /\ j \in 0..(n - 1) /\ a * n + i = b * n + j
        BY <4>1, <4>2, <4>3
      <4>5. a = b /\ i = j
        BY <4>4, SpreadFacts
      <4> QED BY <3>2, <4>3, <4>5, PostIdAssumption DEF IsInjective
    <3> QED BY <3>1, <3>2
  <2>8. q = r
    BY <2>6, <2>7 DEF SilverOK
  <2> QED BY <2>2, <2>4, <2>7, <2>8
<1> QED BY <1>2, <1>3

-----------------------------------------------------------------------------
(* The table and the loaders' work lists. *)

RowsOK == Keyed(rows) /\ \A r \in rows : IsChunk(r)

\* The state r of a loader when the keys K are stored.
RunOK(r, K) ==
    /\ DOMAIN r = {"pc", "pending", "todo", "batch", "deleted"}
    /\ r.batch \subseteq r.todo /\ r.todo \subseteq r.pending
    /\ \A c \in r.pending : IsChunk(c)
    /\ \A c, d \in r.pending : Id(c) = Id(d) => c = d
    /\ r.pc \notin {"next", "insert"} => r.todo = {}
    /\ r.pc # "insert" => r.batch = {}
    /\ r.pc \in {"next", "insert"} =>
          \A c \in r.pending : c \in r.todo \/ Key(c) \in K \cup r.deleted

LoadersOK == DOMAIN run = Loaders /\ \A l \in Loaders : RunOK(run[l], Keys(rows))

IInv == SilverOK /\ scheme \in Schemes /\ RowsOK /\ LoadersOK /\ SettledIsStored

\* The store starts empty.
LEMMA InitOK == Init => IInv
<1> SUFFICES ASSUME Init PROVE IInv
  OBVIOUS
<1>1. SilverOK /\ scheme \in Schemes /\ RowsOK /\ SettledIsStored
  BY SchemeAssumption DEF Init, SilverOK, Current, RowsOK, Keyed, SettledIsStored
<1>2. \A K : RunOK(Idle, K)
  BY DEF RunOK, Idle
<1>3. LoadersOK
  BY <1>2 DEF Init, LoadersOK
<1> QED BY <1>1, <1>3 DEF IInv

\* A new record closes the window of the one before.
LEMMA RecordOK ==
    ASSUME SilverOK, NEW e \in Entities, NEW v \in Versions[e], Record(e, v)
    PROVE  SilverOK'
<1> DEFINE new == [entity |-> e, text |-> v.text, title |-> v.title, from |-> clock + 1, to |-> Open]
           Closed(r) == IF r.entity = e /\ r.to = Open THEN [r EXCEPT !.to = clock + 1] ELSE r
<1>1. silver' = {Closed(r) : r \in silver} \cup {new} /\ clock' = clock + 1 /\ clock + 1 # Open
      /\ clock' \in Nat
  BY DEF Record, SilverOK, Open
<1>2. IsRecord(new) /\ new.entity = e
  BY DEF IsRecord
<1>3. ASSUME NEW r \in silver
      PROVE  /\ IsRecord(Closed(r)) /\ Closed(r).entity = r.entity
             /\ Closed(r).to = Open => Closed(r) = r /\ r.entity # e /\ r.to = Open
  <2>1. IsRecord(r)
    BY DEF SilverOK
  <2>2. CASE r.entity = e /\ r.to = Open
    <3>1. Closed(r) = [entity |-> r.entity, text |-> r.text, title |-> r.title,
                       from |-> r.from, to |-> clock + 1]
      BY <2>1, <2>2 DEF IsRecord
    <3> QED BY <1>1, <2>1, <3>1 DEF IsRecord
  <2> QED BY <2>1, <2>2
<1> HIDE DEF new, Closed
<1>4. \A r \in silver' : IsRecord(r)
  BY <1>1, <1>2, <1>3
<1>5. ASSUME NEW q \in Current', NEW r \in Current', q.entity = r.entity PROVE q = r
  <2>1. q \in silver' /\ r \in silver' /\ q.to = Open /\ r.to = Open
    BY DEF Current
  <2>2. \A p \in silver' : p.to = Open => p = new \/ (p \in Current /\ p.entity # e)
    BY <1>1, <1>3 DEF Current
  <2> QED BY <1>2, <1>5, <2>1, <2>2 DEF SilverOK
<1> QED BY <1>1, <1>4, <1>5 DEF SilverOK

\* Inserting chunks keeps the unique key and loses no row.
LEMMA InsertsOK ==
    ASSUME RowsOK, NEW C, \A c \in C : IsChunk(c), Inserts(C)
    PROVE  RowsOK' /\ rows \subseteq rows' /\ Keys(rows) \subseteq Keys(rows') /\ Keys(C) \subseteq Keys(rows')
BY DEF RowsOK, Inserts, Keys

\* One loader goes on, and nothing stored is lost.
LEMMA BecomeOK ==
    ASSUME LoadersOK, NEW l \in Loaders, NEW r, Become(l, r), Keys(rows) \subseteq Keys(rows'),
           RunOK(r, Keys(rows'))
    PROVE  LoadersOK'
<1>1. DOMAIN run' = Loaders /\ run'[l] = r /\ \A m \in Loaders \ {l} : run'[m] = run[m]
  BY DEF Become, LoadersOK
<1>2. \A m \in Loaders \ {l} : RunOK(run[m], Keys(rows'))
  BY DEF LoadersOK, RunOK
<1>3. \A m \in Loaders : RunOK(run'[m], Keys(rows'))
  BY <1>1, <1>2
<1> QED BY <1>1, <1>3 DEF LoadersOK

\* The loader drops from its list what is stored.
LEMMA FilterOK ==
    ASSUME IInv, NEW l \in Loaders, Filter(l)
    PROVE  IInv'
<1> DEFINE left == run[l].pending \ Known(run[l].pending)
           r == [run[l] EXCEPT !.pc = "next", !.todo = left]
<1>1. /\ Become(l, IF left = {} THEN Done ELSE r) /\ Settles(l, left) /\ run[l].pc = "filter"
      /\ UNCHANGED <<silver, clock, rows, scheme>> /\ RunOK(run[l], Keys(rows))
  BY DEF Filter, table, IInv, LoadersOK
<1>2. RunOK(Done, Keys(rows'))
  BY DEF RunOK, Done, Idle
<1>3. RunOK(r, Keys(rows'))
  <2>1. /\ DOMAIN r = DOMAIN run[l] /\ r.pc = "next" /\ r.todo = left /\ r.pending = run[l].pending
        /\ r.batch = run[l].batch /\ r.batch = {} /\ r.deleted = run[l].deleted
    BY <1>1 DEF RunOK
  <2>2. \A c \in run[l].pending : c \in left \/ Key(c) \in Keys(rows)
    BY DEF Known
  <2> QED BY <1>1, <2>1, <2>2 DEF RunOK
<1>4. LoadersOK'
  <2> HIDE DEF r
  <2> QED BY <1>1, <1>2, <1>3, BecomeOK DEF IInv
<1>5. SettledIsStored'
  BY <1>1 DEF Settles, Known, Keys, IInv, SettledIsStored
<1> QED BY <1>1, <1>4, <1>5 DEF IInv, SilverOK, Current, RowsOK

\* The endpoint answers for a batch.
LEMMA EmbedOK ==
    ASSUME IInv, NEW l \in Loaders, Embed(l)
    PROVE  IInv'
<1>1. PICK B \in Batches(run[l].todo) : Become(l, [run[l] EXCEPT !.pc = "insert", !.batch = B])
  BY DEF Embed
<1> DEFINE r == [run[l] EXCEPT !.pc = "insert", !.batch = B]
<1>2. UNCHANGED <<silver, clock, rows, scheme, settled>> /\ run[l].pc = "next"
      /\ B \subseteq run[l].todo /\ RunOK(run[l], Keys(rows))
  BY DEF Embed, table, Batches, IInv, LoadersOK
<1>3. RunOK(r, Keys(rows'))
  <2>1. /\ DOMAIN r = DOMAIN run[l] /\ r.pc = "insert" /\ r.todo = run[l].todo
        /\ r.pending = run[l].pending /\ r.batch = B /\ r.deleted = run[l].deleted
    BY <1>2 DEF RunOK
  <2> QED BY <1>2, <2>1 DEF RunOK
<1> HIDE DEF r
<1>4. LoadersOK'
  BY <1>1, <1>2, <1>3, BecomeOK DEF IInv, r
<1> QED BY <1>2, <1>4 DEF IInv, SilverOK, Current, RowsOK, SettledIsStored

\* The batch is inserted, and all of it is stored then.
LEMMA InsertOK ==
    ASSUME IInv, NEW l \in Loaders, Insert(l)
    PROVE  IInv' /\ Keys(run[l].batch) \subseteq Keys(rows') /\ rows \subseteq rows'
<1> DEFINE left == run[l].todo \ run[l].batch
           r == [run[l] EXCEPT !.pc = "next", !.todo = left, !.batch = {}]
<1>1. /\ Inserts(run[l].batch) /\ Become(l, IF left = {} THEN Done ELSE r) /\ Settles(l, left)
      /\ UNCHANGED <<silver, clock, scheme>> /\ RunOK(run[l], Keys(rows))
      /\ run[l].pc = "insert"
  BY DEF Insert, table, IInv, LoadersOK
<1>2. RowsOK' /\ rows \subseteq rows' /\ Keys(rows) \subseteq Keys(rows')
      /\ Keys(run[l].batch) \subseteq Keys(rows')
  BY <1>1, InsertsOK DEF IInv, RunOK
<1>3. RunOK(Done, Keys(rows'))
  BY DEF RunOK, Done, Idle
<1>4. \A c \in run[l].pending : c \in left \/ Key(c) \in Keys(rows') \cup run[l].deleted
  BY <1>1, <1>2 DEF RunOK, Keys
<1>5. RunOK(r, Keys(rows'))
  <2>1. /\ DOMAIN r = DOMAIN run[l] /\ r.pc = "next" /\ r.todo = left /\ r.batch = {}
        /\ r.pending = run[l].pending /\ r.deleted = run[l].deleted
    BY <1>1 DEF RunOK
  <2> QED BY <1>1, <1>4, <2>1 DEF RunOK
<1>6. LoadersOK'
  <2> HIDE DEF r
  <2> QED BY <1>1, <1>2, <1>3, <1>5, BecomeOK DEF IInv
<1>7. SettledIsStored'
  <2>1. settled \subseteq Keys(rows')
    BY <1>2 DEF IInv, SettledIsStored
  <2>2. left = {} => Keys(run[l].pending) \ run[l].deleted \subseteq Keys(rows')
    BY <1>4 DEF Keys
  <2> QED BY <1>1, <2>1, <2>2 DEF Settles, SettledIsStored
<1> QED BY <1>1, <1>2, <1>6, <1>7 DEF IInv, SilverOK, Current

\* A crash leaves part of the batch inserted.
LEMMA CrashOK ==
    ASSUME IInv, NEW l \in Loaders, Crash(l)
    PROVE  IInv' /\ rows \subseteq rows'
<1>1. PICK C \in SUBSET run[l].batch : Inserts(C)
  BY DEF Crash
<1>2. Become(l, Idle) /\ UNCHANGED <<silver, clock, scheme, settled>> /\ RunOK(run[l], Keys(rows))
  BY DEF Crash, table, IInv, LoadersOK
<1>3. RowsOK' /\ rows \subseteq rows' /\ Keys(rows) \subseteq Keys(rows')
  BY <1>1, <1>2, InsertsOK DEF IInv, RunOK
<1>4. RunOK(Idle, Keys(rows'))
  BY DEF RunOK, Idle
<1>5. LoadersOK'
  BY <1>2, <1>3, <1>4, BecomeOK DEF IInv
<1> QED BY <1>2, <1>3, <1>5 DEF IInv, SilverOK, Current, SettledIsStored

\* The work list is made of chunks of the current texts.
LEMMA LoadOK ==
    ASSUME IInv, NEW l \in Loaders, Load(l)
    PROVE  IInv'
<1> DEFINE r == [Idle EXCEPT !.pc = "filter", !.pending = Produced(scheme)]
<1>1. Become(l, r) /\ UNCHANGED <<silver, clock, rows, scheme, settled>>
  BY DEF Load, table
<1>2. /\ \A c \in Produced(scheme) : IsChunk(c)
      /\ \A c, d \in Produced(scheme) : Id(c) = Id(d) => c = d
  BY ProducedFacts DEF IInv, Id
<1>3. RunOK(r, Keys(rows'))
  BY <1>2 DEF RunOK, Idle
<1> HIDE DEF r
<1>4. LoadersOK'
  BY <1>1, <1>3, BecomeOK DEF IInv
<1> QED BY <1>1, <1>4 DEF IInv, SilverOK, Current, RowsOK, SettledIsStored

\* What is pruned is noted by the loaders that run.
LEMMA PruneDeleteOK ==
    ASSUME IInv, PruneDelete
    PROVE  IInv'
<1>1. PICK gone \in SUBSET rows :
          /\ rows' = rows \ gone /\ settled' = settled \ Keys(gone)
          /\ run' = [l \in Loaders |-> IF run[l].pc \in {"idle", "done"} THEN run[l]
                                      ELSE [run[l] EXCEPT !.deleted = @ \cup Keys(gone)]]
  BY DEF PruneDelete
<1>2. UNCHANGED <<silver, clock, scheme>>
  BY DEF PruneDelete, table
<1>3. Keys(rows) \subseteq Keys(rows') \cup Keys(gone)
  BY <1>1 DEF Keys
<1>4. ASSUME NEW l \in Loaders PROVE RunOK(run'[l], Keys(rows'))
  <2> DEFINE r == [run[l] EXCEPT !.deleted = @ \cup Keys(gone)]
  <2>1. RunOK(run[l], Keys(rows))
    BY DEF IInv, LoadersOK
  <2>2. CASE run[l].pc \in {"idle", "done"}
    <3>1. run'[l] = run[l]
      BY <1>1, <2>2
    <3>2. run[l].pc \notin {"next", "insert"}
      BY <2>2
    <3> QED BY <2>1, <3>1, <3>2 DEF RunOK
  <2>3. CASE run[l].pc \notin {"idle", "done"}
    <3>1. run'[l] = r
      BY <1>1, <2>3
    <3>2. /\ DOMAIN r = DOMAIN run[l] /\ r.pc = run[l].pc /\ r.todo = run[l].todo
          /\ r.pending = run[l].pending /\ r.batch = run[l].batch
          /\ r.deleted = run[l].deleted \cup Keys(gone)
      BY <2>1 DEF RunOK
    <3> HIDE DEF r
    <3> QED BY <1>3, <2>1, <3>1, <3>2 DEF RunOK
  <2> QED BY <2>2, <2>3
<1>5. LoadersOK'
  BY <1>1, <1>4 DEF LoadersOK
<1>6. SettledIsStored'
  BY <1>1, <1>3 DEF IInv, SettledIsStored
<1>7. RowsOK'
  BY <1>1 DEF IInv, RowsOK, Keyed
<1> QED BY <1>2, <1>5, <1>6, <1>7 DEF IInv, SilverOK, Current

\* A title is no part of a key.
LEMMA BackfillOK ==
    ASSUME IInv, BackfillTitles
    PROVE  IInv' /\ Keys(rows') = Keys(rows)
<1>1. PICK title : rows' = {IF r.hash \in DOMAIN title THEN [r EXCEPT !.title = title[r.hash]] ELSE r :
                               r \in rows}
  BY DEF BackfillTitles
<1> DEFINE To(r) == IF r.hash \in DOMAIN title THEN [r EXCEPT !.title = title[r.hash]] ELSE r
<1>2. UNCHANGED <<silver, clock, scheme, run, settled>>
  BY DEF BackfillTitles, table
<1>3. ASSUME NEW r \in rows PROVE IsChunk(To(r)) /\ Key(To(r)) = Key(r)
  <2>1. IsChunk(r)
    BY DEF IInv, RowsOK
  <2>2. CASE r.hash \in DOMAIN title
    <3>1. To(r) = [doc |-> r.doc, hash |-> r.hash, index |-> r.index, scheme |-> r.scheme,
                   heading |-> r.heading, title |-> title[r.hash], from |-> r.from, to |-> r.to]
      BY <2>1, <2>2 DEF IsChunk
    <3> QED BY <3>1 DEF IsChunk, Key
  <2> QED BY <2>1, <2>2
<1>4. rows' = {To(r) : r \in rows}
  BY <1>1
<1> HIDE DEF To
<1>5. RowsOK'
  BY <1>3, <1>4 DEF IInv, RowsOK, Keyed
<1>6. Keys(rows') = Keys(rows)
  BY <1>3, <1>4 DEF Keys
<1>7. LoadersOK' /\ SettledIsStored'
  BY <1>2, <1>6 DEF IInv, LoadersOK, SettledIsStored
<1> QED BY <1>2, <1>5, <1>6, <1>7 DEF IInv, SilverOK, Current

\* Every step keeps the invariant.
LEMMA StepOK == IInv /\ [Next]_vars => IInv'
<1> SUFFICES ASSUME IInv, [Next]_vars PROVE IInv'
  OBVIOUS
<1>1. ASSUME UNCHANGED <<silver, clock, rows, scheme, run, settled>> PROVE IInv'
  BY <1>1 DEF IInv, SilverOK, Current, RowsOK, LoadersOK, SettledIsStored
<1>2. ASSUME NEW e \in Entities, NEW v \in Versions[e], Record(e, v) PROVE IInv'
  <2>1. UNCHANGED <<rows, scheme, run, settled>>
    BY <1>2 DEF Record
  <2> QED BY <1>2, <2>1, RecordOK DEF IInv, RowsOK, LoadersOK, SettledIsStored
<1>3. ASSUME NEW s \in Schemes, Deploy(s) PROVE IInv'
  BY <1>3 DEF Deploy, table, IInv, SilverOK, Current, RowsOK, LoadersOK, SettledIsStored
<1>4. ASSUME NEW l \in Loaders, LoaderStep(l) PROVE IInv'
  <2>1. CASE AnswerLost(l)
    BY <1>1, <2>1 DEF AnswerLost, table
  <2> QED BY <1>4, <2>1, LoadOK, FilterOK, EmbedOK, InsertOK, CrashOK DEF LoaderStep
<1>5. CASE PruneLoad \/ PruneCrash \/ UNCHANGED vars
  BY <1>1, <1>5 DEF PruneLoad, PruneCrash, vars, table
<1> QED BY <1>2, <1>3, <1>4, <1>5, PruneDeleteOK, BackfillOK DEF Next

\* The invariant holds in every behaviour.
LEMMA Inductive == Spec => []IInv
BY InitOK, StepOK, PTL DEF Spec

\* The keys that complete runs have covered stay in the table unless they are
\* pruned: however many loaders run, wherever they crash, and whatever is
\* pruned, retitled or deployed in between.
THEOREM VectorsStay == Spec => []SettledIsStored
<1>1. IInv => SettledIsStored
  BY DEF IInv
<1> QED BY <1>1, Inductive, PTL

\* Of the chunks of what is current, a document and a number name one row.
THEOREM ReferencesAreUnique == Spec => []ReferenceIsUnique
<1>1. IInv => ReferenceIsUnique
  <2> SUFFICES ASSUME IInv, NEW q \in rows, NEW r \in rows,
                      Id(q) \in Ids(Produced(scheme)), Id(r) \in Ids(Produced(scheme)),
                      q.doc = r.doc, q.index = r.index
               PROVE  q = r
    BY DEF ReferenceIsUnique
  <2>1. PICK c \in Produced(scheme), d \in Produced(scheme) : Id(c) = Id(q) /\ Id(d) = Id(r)
    BY DEF Ids
  <2>2. c.doc = d.doc /\ c.index = d.index
    BY <2>1 DEF Id
  <2>3. c = d
    BY <2>2, ProducedFacts DEF IInv
  <2>4. Key(q) = Key(r)
    BY <2>1, <2>3 DEF Id, Key
  <2> QED BY <2>4 DEF IInv, RowsOK, Keyed
<1> QED BY <1>1, Inductive, PTL

-----------------------------------------------------------------------------
(* One loader. *)

OneLoader == \A l, m \in Loaders : l = m

\* What is still to be paid for was in no complete run.
NewToDo == \A l \in Loaders : Keys(run[l].todo) \cap settled = {}

\* Nothing is to do at first.
LEMMA RerunInit == Init => NewToDo
BY DEF Init, NewToDo

\* A run in progress covers nothing until it is complete; then it has nothing
\* left to do.
LEMMA RerunStep ==
    ASSUME OneLoader
    PROVE  IInv /\ NewToDo /\ [Next]_vars => NewToDo'
<1> SUFFICES ASSUME IInv, NewToDo, [Next]_vars PROVE NewToDo'
  OBVIOUS
<1>1. CASE UNCHANGED <<run, settled>>
  BY <1>1 DEF NewToDo
<1>2. ASSUME NEW l \in Loaders, NEW r, Become(l, r),
             Keys(r.todo) \cap settled' = {}
      PROVE  NewToDo'
  <2>1. run'[l] = r /\ \A m \in Loaders : m = l
    BY <1>2 DEF Become, IInv, LoadersOK, OneLoader
  <2> QED BY <1>2, <2>1 DEF NewToDo
<1>3. ASSUME NEW l \in Loaders, Load(l) \/ Crash(l) PROVE NewToDo'
  <2> DEFINE r == [Idle EXCEPT !.pc = "filter", !.pending = Produced(scheme)]
  <2>1. Idle.todo = {} /\ r.todo = {} /\ Keys({}) = {}
    BY DEF Idle, Keys
  <2>2. Become(l, r) \/ Become(l, Idle)
    BY <1>3 DEF Load, Crash
  <2> HIDE DEF r
  <2> QED BY <1>2, <2>1, <2>2
<1>4. ASSUME NEW l \in Loaders, Filter(l) PROVE NewToDo'
  <2> DEFINE left == run[l].pending \ Known(run[l].pending)
             r == [run[l] EXCEPT !.pc = "next", !.todo = left]
  <2>1. Become(l, IF left = {} THEN Done ELSE r) /\ Settles(l, left)
    BY <1>4 DEF Filter
  <2>2. r.todo = left /\ Done.todo = {} /\ Keys({}) = {}
    BY DEF IInv, LoadersOK, RunOK, Done, Idle, Keys
  <2>3. left # {} => Keys(left) \cap settled' = {}
    BY <2>1 DEF Settles, Known, Keys, IInv, SettledIsStored
  <2> HIDE DEF r, left
  <2> QED BY <1>2, <2>1, <2>2, <2>3
<1>5. ASSUME NEW l \in Loaders, Embed(l) PROVE NewToDo'
  <2>1. PICK B : Become(l, [run[l] EXCEPT !.pc = "insert", !.batch = B]) /\ settled' = settled
    BY <1>5 DEF Embed
  <2>2. [run[l] EXCEPT !.pc = "insert", !.batch = B].todo = run[l].todo
    BY DEF IInv, LoadersOK, RunOK
  <2> QED BY <1>2, <2>1, <2>2 DEF NewToDo
<1>6. ASSUME NEW l \in Loaders, Insert(l) PROVE NewToDo'
  <2> DEFINE left == run[l].todo \ run[l].batch
             r == [run[l] EXCEPT !.pc = "next", !.todo = left, !.batch = {}]
  <2>1. Become(l, IF left = {} THEN Done ELSE r) /\ Settles(l, left)
    BY <1>6 DEF Insert
  <2>2. r.todo = left /\ Done.todo = {} /\ Keys({}) = {}
    BY DEF IInv, LoadersOK, RunOK, Done, Idle, Keys
  <2>3. left # {} => Keys(left) \cap settled' = {}
    BY <2>1 DEF Settles, Keys, NewToDo
  <2> HIDE DEF r, left
  <2> QED BY <1>2, <2>1, <2>2, <2>3
<1>7. CASE PruneDelete
  <2>1. PICK G : /\ settled' = settled \ G
                 /\ run' = [l \in Loaders |-> IF run[l].pc \in {"idle", "done"} THEN run[l]
                                ELSE [run[l] EXCEPT !.deleted = @ \cup G]]
    BY <1>7 DEF PruneDelete
  <2>2. \A l \in Loaders : run'[l].todo = run[l].todo
    BY <2>1 DEF IInv, LoadersOK, RunOK
  <2> QED BY <2>1, <2>2 DEF NewToDo
<1>8. UNCHANGED <<run, settled>> \/ PruneDelete
      \/ \E l \in Loaders : Load(l) \/ Crash(l) \/ Filter(l) \/ Embed(l) \/ Insert(l)
  BY DEF Next, LoaderStep, vars, Record, Deploy, AnswerLost, PruneLoad, PruneCrash, BackfillTitles
<1> QED BY <1>1, <1>3, <1>4, <1>5, <1>6, <1>7, <1>8

\* If runs of the loader do not overlap, what a complete run covered is in no
\* later request.
THEOREM RerunsAreFree ==
    ASSUME OneLoader
    PROVE  Spec => RerunIsFree
<1> DEFINE Free == \A l \in Loaders : run[l].pc = "next" /\ run'[l].pc = "insert" =>
                      Keys(run'[l].batch) \cap settled = {}
<1>1. IInv /\ NewToDo /\ IInv' /\ NewToDo' /\ [Next]_vars => Free
  <2> SUFFICES ASSUME IInv', NewToDo', [Next]_vars, IInv, NewToDo, NEW l \in Loaders,
                      run[l].pc = "next", run'[l].pc = "insert"
               PROVE  Keys(run'[l].batch) \cap settled = {}
    OBVIOUS
  <2>1. Keys(run'[l].batch) \subseteq Keys(run'[l].todo)
    BY DEF IInv, LoadersOK, RunOK, Keys
  <2>2. CASE settled' = settled
    BY <2>1, <2>2 DEF NewToDo
  <2>3. ASSUME NEW m \in Loaders, Filter(m) \/ Insert(m) PROVE FALSE
    BY <2>3 DEF OneLoader, Filter, Insert
  <2>4. CASE PruneDelete
    <3>1. run'[l].pc = run[l].pc
      BY <2>4 DEF PruneDelete, IInv, LoadersOK, RunOK
    <3> QED BY <3>1
  <2>5. settled' = settled \/ PruneDelete \/ \E m \in Loaders : Filter(m) \/ Insert(m)
    BY DEF Next, LoaderStep, vars, Record, Deploy, AnswerLost, PruneLoad, PruneCrash,
           BackfillTitles, Load, Embed, Crash
  <2> QED BY <2>2, <2>3, <2>4, <2>5
<1>2. Spec => []NewToDo
  BY RerunInit, RerunStep, Inductive, PTL DEF Spec
<1> QED BY <1>1, <1>2, Inductive, PTL DEF Spec, RerunIsFree

\* An id is in the batch in hand; it waits in the work list; its vector is yet
\* to be paid for.
KeyOf(c)   == <<c[2], c[3], c[4]>>
InHand(c)  == \E l \in Loaders : c \in Ids(run[l].batch)
Waiting(c) == \E l \in Loaders : c \in Ids(run[l].todo \ run[l].batch)
Unpaid(c)  == Waiting(c) \/ (KeyOf(c) \notin Keys(rows) /\ ~InHand(c))

PaidInv == /\ paid \in [AllIds -> Nat] /\ excused \in [AllIds -> Nat]
           /\ \A c \in AllIds : /\ paid[c] <= 1 + excused[c]
                                /\ Unpaid(c) => paid[c] <= excused[c]

\* The identity of a chunk gives its key back.
LEMMA IdFacts == \A c : KeyOf(Id(c)) = Key(c)
BY DEF KeyOf, Id, Key

\* Nothing is paid at first.
LEMMA PaidInit == Init => PaidInv
BY DEF Init, PaidInv

\* A step on which no id becomes unpaid, or which excuses those that do.
LEMMA PaidSame ==
    ASSUME PaidInv, UNCHANGED money, \A c \in AllIds : Unpaid(c)' => Unpaid(c)
    PROVE  PaidInv'
BY DEF PaidInv, money

\* Loading and filtering pay for nothing.
LEMMA PaidFilter ==
    ASSUME OneLoader, IInv, PaidInv, NEW l \in Loaders, Filter(l) \/ Load(l)
    PROVE  PaidInv'
<1> DEFINE left == run[l].pending \ Known(run[l].pending)
           r == [run[l] EXCEPT !.pc = "next", !.todo = left]
           i == [Idle EXCEPT !.pc = "filter", !.pending = Produced(scheme)]
<1>1. /\ Become(l, IF left = {} THEN Done ELSE r) \/ Become(l, i)
      /\ UNCHANGED money /\ rows' = rows /\ run[l].pc # "insert"
  BY DEF Filter, Load, table
<1>2. \A m \in Loaders : m = l
  BY DEF OneLoader
<1>3. run[l].batch = {} /\ RunOK(run[l], Keys(rows))
  BY <1>1 DEF IInv, LoadersOK, RunOK
<1>4. /\ r.batch = {} /\ r.todo = left /\ Done.batch = {} /\ Done.todo = {}
      /\ i.batch = {} /\ i.todo = {}
  BY <1>3 DEF RunOK, Done, Idle
<1>5. run'[l].batch = {} /\ run'[l].todo \subseteq left
  <2> HIDE DEF r, i, left
  <2> QED BY <1>1, <1>4 DEF Become, IInv, LoadersOK
<1>6. \A c \in Ids(left) : KeyOf(c) \notin Keys(rows)
  BY IdFacts DEF Ids, Known
<1>7. \A c : ~InHand(c) /\ ~InHand(c)'
  BY <1>2, <1>3, <1>5 DEF InHand, Ids
<1>8. \A c : Waiting(c)' => c \in Ids(left)
  <2> HIDE DEF left
  <2> QED BY <1>2, <1>5 DEF Waiting, Ids
<1>9. \A c \in AllIds : Unpaid(c)' => Unpaid(c)
  <2> HIDE DEF left
  <2> QED BY <1>1, <1>6, <1>7, <1>8 DEF Unpaid
<1> QED BY <1>1, <1>9, PaidSame

\* An answered batch was yet to be paid for, and is in hand afterwards.
LEMMA PaidEmbed ==
    ASSUME OneLoader, IInv, PaidInv, NEW l \in Loaders, Embed(l)
    PROVE  PaidInv'
<1>1. PICK B \in SUBSET run[l].todo :
          Become(l, [run[l] EXCEPT !.pc = "insert", !.batch = B]) /\ paid' = More(paid, Ids(B))
  BY DEF Embed, Batches
<1>2. excused' = excused /\ rows' = rows /\ run[l].pc = "next"
  BY DEF Embed, table
<1>3. run[l].batch = {} /\ run'[l].batch = B /\ run'[l].todo = run[l].todo
      /\ \A m \in Loaders : m = l
  BY <1>1, <1>2 DEF IInv, LoadersOK, RunOK, Become, OneLoader
<1>4. \A c \in AllIds : c \in Ids(B) => Unpaid(c)
  BY <1>1, <1>3 DEF Unpaid, Waiting, Ids
<1>5. \A c : InHand(c)' <=> c \in Ids(B)
  BY <1>3 DEF InHand
<1>6. \A c : Waiting(c)' => Waiting(c)
  BY <1>3 DEF Waiting, Ids
<1>7. \A c : ~InHand(c)
  BY <1>3 DEF InHand, Ids
<1>8. ASSUME NEW c \in AllIds, Unpaid(c)' PROVE Unpaid(c)
  BY <1>2, <1>5, <1>6, <1>7, <1>8 DEF Unpaid
<1>9. ASSUME NEW c \in AllIds, c \in Ids(B) PROVE ~Unpaid(c)'
  <2>1. PICK x \in B : c = Id(x)
    BY <1>9 DEF Ids
  <2>2. \A y \in run[l].todo : Id(y) = Id(x) => y = x
    BY <1>1 DEF IInv, LoadersOK, RunOK
  <2>3. ~Waiting(c)'
    BY <1>3, <2>1, <2>2 DEF Waiting, Ids
  <2> QED BY <1>5, <1>9, <2>3 DEF Unpaid
<1>10. paid' \in [AllIds -> Nat] /\ \A c \in AllIds : paid'[c] = IF c \in Ids(B) THEN paid[c] + 1 ELSE paid[c]
  BY <1>1 DEF More, PaidInv
<1> QED BY <1>2, <1>4, <1>8, <1>9, <1>10 DEF PaidInv

\* A lost answer is paid for and excused.
LEMMA PaidLost ==
    ASSUME PaidInv, NEW l \in Loaders, AnswerLost(l)
    PROVE  PaidInv'
<1>1. PICK C : paid' = More(paid, C) /\ excused' = More(excused, C)
  BY DEF AnswerLost
<1>2. UNCHANGED <<rows, run>>
  BY DEF AnswerLost, table
<1>3. \A c : Unpaid(c)' <=> Unpaid(c)
  BY <1>2 DEF Unpaid, Waiting, InHand
<1> QED BY <1>1, <1>3 DEF PaidInv, More

\* What was paid for is stored.
LEMMA PaidInsert ==
    ASSUME OneLoader, IInv, PaidInv, NEW l \in Loaders, Insert(l)
    PROVE  PaidInv'
<1> DEFINE left == run[l].todo \ run[l].batch
           r == [run[l] EXCEPT !.pc = "next", !.todo = left, !.batch = {}]
<1>1. Become(l, IF left = {} THEN Done ELSE r) /\ UNCHANGED money
  BY DEF Insert
<1>2. Keys(run[l].batch) \subseteq Keys(rows') /\ Keys(rows) \subseteq Keys(rows')
  BY InsertOK DEF Keys
<1>3. RunOK(run[l], Keys(rows)) /\ \A m \in Loaders : m = l
  BY DEF IInv, LoadersOK, OneLoader
<1>4. r.batch = {} /\ r.todo = left /\ Done.batch = {} /\ Done.todo = {}
  BY <1>3 DEF RunOK, Done, Idle
<1>5. run'[l].batch = {} /\ run'[l].todo \subseteq left
  <2> HIDE DEF r, left
  <2> QED BY <1>1, <1>4 DEF Become, IInv, LoadersOK
<1>6. \A c : Waiting(c)' => Waiting(c)
  BY <1>3, <1>5 DEF Waiting, Ids
<1>7. \A c : InHand(c) => KeyOf(c) \in Keys(rows')
  BY <1>2, <1>3, IdFacts DEF InHand, Ids, Keys
<1>8. \A c \in AllIds : Unpaid(c)' => Unpaid(c)
  BY <1>2, <1>6, <1>7 DEF Unpaid
<1> QED BY <1>1, <1>8, PaidSame

\* What a crash loses of a batch is excused.
LEMMA PaidCrash ==
    ASSUME OneLoader, IInv, PaidInv, NEW l \in Loaders, Crash(l)
    PROVE  PaidInv'
<1> DEFINE lost == {c \in run[l].batch : Key(c) \notin Keys(rows')}
<1>1. Become(l, Idle) /\ excused' = More(excused, Ids(lost)) /\ paid' = paid
  BY DEF Crash
<1>2. Keys(rows) \subseteq Keys(rows')
  BY CrashOK DEF Keys
<1>3. /\ run'[l].batch = {} /\ run'[l].todo = {} /\ \A m \in Loaders : m = l
  BY <1>1 DEF Become, Idle, IInv, LoadersOK, OneLoader
<1>4. \A c : ~Waiting(c)'
  BY <1>3 DEF Waiting, Ids
<1>5. ASSUME NEW c \in AllIds, Unpaid(c)' PROVE Unpaid(c) \/ c \in Ids(lost)
  <2>1. KeyOf(c) \notin Keys(rows')
    BY <1>4, <1>5 DEF Unpaid
  <2>2. InHand(c) => c \in Ids(lost)
    BY <1>3, <2>1, IdFacts DEF InHand, Ids
  <2> QED BY <1>2, <2>1, <2>2 DEF Unpaid
<1> HIDE DEF lost
<1>6. excused' \in [AllIds -> Nat]
      /\ \A c \in AllIds : excused'[c] = IF c \in Ids(lost) THEN excused[c] + 1 ELSE excused[c]
  BY <1>1 DEF More, PaidInv
<1> QED BY <1>1, <1>5, <1>6 DEF PaidInv

\* A vector that is deleted may be paid for again.
LEMMA PaidPrune ==
    ASSUME IInv, PaidInv, PruneDelete
    PROVE  PaidInv'
<1>1. PICK gone \in SUBSET rows :
          /\ rows' = rows \ gone
          /\ excused' = More(excused, {c \in AllIds : paid[c] > excused[c] /\ KeyOf(c) \in Keys(gone)})
          /\ run' = [l \in Loaders |-> IF run[l].pc \in {"idle", "done"} THEN run[l]
                                      ELSE [run[l] EXCEPT !.deleted = @ \cup Keys(gone)]]
          /\ paid' = paid
  BY DEF PruneDelete, KeyOf
<1>2. \A l \in Loaders : run'[l].todo = run[l].todo /\ run'[l].batch = run[l].batch
  BY <1>1 DEF IInv, LoadersOK, RunOK
<1>3. Keys(rows) \subseteq Keys(rows') \cup Keys(gone)
  BY <1>1 DEF Keys
<1>4. \A c : Unpaid(c)' => Unpaid(c) \/ KeyOf(c) \in Keys(gone)
  BY <1>2, <1>3 DEF Unpaid, Waiting, InHand
<1>5. excused' \in [AllIds -> Nat]
      /\ \A c \in AllIds : excused'[c] = IF paid[c] > excused[c] /\ KeyOf(c) \in Keys(gone)
                                         THEN excused[c] + 1 ELSE excused[c]
  BY <1>1 DEF More, PaidInv
<1> QED BY <1>1, <1>4, <1>5 DEF PaidInv

\* With one loader every step keeps the bills.
LEMMA PaidStep ==
    ASSUME OneLoader
    PROVE  IInv /\ PaidInv /\ [Next]_vars => PaidInv'
<1> SUFFICES ASSUME IInv, PaidInv, [Next]_vars PROVE PaidInv'
  OBVIOUS
<1>1. ASSUME UNCHANGED money, run' = run, Keys(rows') = Keys(rows) PROVE PaidInv'
  <2>1. \A c : Unpaid(c)' <=> Unpaid(c)
    BY <1>1 DEF Unpaid, Waiting, InHand
  <2> QED BY <1>1, <2>1, PaidSame
<1>2. CASE BackfillTitles
  BY <1>1, <1>2, BackfillOK DEF BackfillTitles
<1>3. ASSUME NEW l \in Loaders, LoaderStep(l) PROVE PaidInv'
  BY <1>3, PaidFilter, PaidEmbed, PaidLost, PaidInsert, PaidCrash DEF LoaderStep
<1>4. CASE UNCHANGED <<rows, run, paid, excused>>
  BY <1>1, <1>4 DEF money
<1>5. \/ UNCHANGED <<rows, run, paid, excused>> \/ BackfillTitles \/ PruneDelete
      \/ \E l \in Loaders : LoaderStep(l)
  BY DEF Next, vars, money, Record, Deploy, PruneLoad, PruneCrash
<1> QED BY <1>2, <1>3, <1>4, <1>5, PaidPrune

\* If runs of the loader do not overlap, a chunk is paid for once, and once
\* more for each time its vector was lost with an answer or a crash, or was
\* deleted: edits, votes, twins with the same text, changes of the chunker and
\* their reverts cost nothing.
THEOREM VectorsArePaidOnce ==
    ASSUME OneLoader
    PROVE  Spec => []PaidOncePerLoss
<1>1. PaidInv => PaidOncePerLoss
  BY DEF PaidInv, PaidOncePerLoss
<1>2. Spec => []PaidInv
  BY PaidInit, PaidStep, Inductive, PTL DEF Spec
<1> QED BY <1>1, <1>2, PTL

-----------------------------------------------------------------------------
(* Counting up. *)

LessRel == {p \in Nat \X Nat : p[1] < p[2]}

\* A set of numbers has a least one.
LEMMA LeastNumber ==
    ASSUME NEW T, T \subseteq Nat, T # {}
    PROVE  \E x \in T : \A y \in T : ~ (y < x)
<1>1. IsWellFoundedOn(LessRel, Nat)
  <2>1. ASSUME NEW f \in [Nat -> Nat], \A n \in Nat : <<f[n + 1], f[n]>> \in LessRel PROVE FALSE
    <3>1. \A n \in Nat : f[n] \in Nat /\ f[n + 1] \in Nat /\ f[n + 1] < f[n]
      BY <2>1 DEF LessRel
    <3> QED BY <3>1, NatLessThanWellFounded DEF IsWellFoundedOn, OpToRel
  <2> QED BY <2>1 DEF IsWellFoundedOn
<1>2. \E x \in T : \A y \in T : ~ (<<y, x>> \in LessRel)
  BY <1>1, WFMin, Zenon
<1> QED BY <1>2 DEF LessRel

\* Induction: a set with 0 and with the successor of each of its numbers has
\* them all.
LEMMA CountUp ==
    ASSUME NEW S, 0 \in S, \A n \in Nat : n \in S => n + 1 \in S
    PROVE  Nat \subseteq S
<1> SUFFICES ASSUME Nat \ S # {} PROVE FALSE
  OBVIOUS
<1>1. PICK x \in Nat \ S : \A y \in Nat \ S : ~ (y < x)
  BY LeastNumber
<1>2. x # 0
  OBVIOUS
<1>3. x - 1 \in Nat /\ x - 1 < x /\ (x - 1) + 1 = x
  BY <1>2
<1>4. x - 1 \in S
  BY <1>1, <1>3
<1> QED BY <1>3, <1>4

\* The values in X on the way from x to the n-th, by steps h.
Way(f, n, X, x, h) ==
    f \in [0..n -> X] /\ f[0] = x /\ \A k \in 1..n : f[k] = h[k][f[k - 1]]

\* What is defined step by step is defined.
LEMMA StepByStep ==
    ASSUME NEW n \in Nat, NEW X, NEW x \in X, NEW h \in [1..n -> [X -> X]]
    PROVE  \E f : Way(f, n, X, x, h)
<1> DEFINE Upto(m, f) == f \in [0..m -> X] /\ f[0] = x /\ \A k \in 1..m : f[k] = h[k][f[k - 1]]
           S == {m \in Nat : m <= n => \E f : Upto(m, f)}
<1>1. 0 \in S
  <2>1. Upto(0, [k \in 0..0 |-> x])
    OBVIOUS
  <2> QED BY <2>1
<1>2. ASSUME NEW m \in Nat, m \in S PROVE m + 1 \in S
  <2> SUFFICES ASSUME m + 1 <= n PROVE \E g : Upto(m + 1, g)
    OBVIOUS
  <2>1. PICK f : Upto(m, f)
    BY <1>2
  <2> DEFINE g == [k \in 0..(m + 1) |-> IF k = m + 1 THEN h[m + 1][f[m]] ELSE f[k]]
  <2>2. f \in [0..m -> X] /\ f[m] \in X /\ m + 1 \in 1..n
    BY <2>1
  <2>4. h[m + 1][f[m]] \in X
    BY <2>2
  <2>5. g \in [0..(m + 1) -> X]
    BY <2>2, <2>4
  <2>6. g[m + 1] = h[m + 1][f[m]] /\ \A k \in 0..m : g[k] = f[k]
    OBVIOUS
  <2>7. ASSUME NEW k \in 1..(m + 1) PROVE g[k] = h[k][g[k - 1]]
    <3>1. k - 1 \in 0..m /\ (k = m + 1 => k - 1 = m) /\ (k # m + 1 => k \in 1..m /\ k \in 0..m)
      OBVIOUS
    <3> HIDE DEF g
    <3> QED BY <2>1, <2>6, <3>1
  <2>8. g[0] = x
    BY <2>1, <2>6
  <2> HIDE DEF g
  <2>9. Upto(m + 1, g)
    BY <2>5, <2>7, <2>8
  <2> QED BY <2>9
<1> HIDE DEF S, Upto
<1>3. Nat \subseteq S
  BY <1>1, <1>2, CountUp
<1>4. n \in S /\ n <= n
  BY <1>3
<1>5. PICK f : Upto(n, f)
  BY <1>4 DEF S
<1> QED BY <1>5 DEF Upto, Way

-----------------------------------------------------------------------------
(* Sentences. *)

\* Two numbers of steps of t.
LEMMA Distribute ==
    ASSUME NEW a \in Nat, NEW b \in Nat, NEW t \in Nat
    PROVE  (a + b) * t = a * t + b * t /\ a * t \in Nat /\ b * t \in Nat
OBVIOUS

\* The number of whole steps of t in n.
LEMMA WholeSteps ==
    ASSUME NEW n \in Nat, NEW t \in Nat \ {0}
    PROVE  /\ n \div t \in Nat
           /\ (n \div t) * t <= n /\ n < (n \div t) * t + t
<1>1. n \div t \in Nat /\ n = t * (n \div t) + (n % t) /\ n % t \in 0..(t - 1)
  OBVIOUS
<1>2. t * (n \div t) = (n \div t) * t
  BY <1>1
<1> QED BY <1>1, <1>2

\* A phrase is the whole text, or a run of n words of it.
LEMMA PhraseIs ==
    ASSUME NEW Word, NEW body \in Seq(Word), NEW n \in Nat, NEW p \in Phrases(body, n + 1)
    PROVE  \/ p = body /\ Len(body) <= n + 1
           \/ \E i \in 1..(Len(body) - n) : p = SubSeq(body, i, i + n)
<1>1. Len(body) \in Nat
  BY LenProperties
<1>2. CASE Len(body) <= n + 1
  BY <1>2 DEF Phrases
<1>3. CASE ~ (Len(body) <= n + 1)
  <2>1. p \in {SubSeq(body, i, i + (n + 1) - 1) : i \in 1..(Len(body) - (n + 1) + 1)}
    BY <1>3 DEF Phrases
  <2>2. PICK i \in 1..(Len(body) - (n + 1) + 1) : p = SubSeq(body, i, i + (n + 1) - 1)
    BY <2>1
  <2>3. i + (n + 1) - 1 = i + n /\ i \in 1..(Len(body) - n)
    BY <1>1, <1>3
  <2> QED BY <2>2, <2>3
<1> QED BY <1>2, <1>3

\* A run of words within a part of a text stands in that part.
LEMMA PhraseInWindow ==
    ASSUME NEW Word, NEW body \in Seq(Word), NEW a \in 1..Len(body), NEW b \in a..Len(body),
           NEW n \in Nat, NEW i \in a..Len(body), i + n <= b
    PROVE  Within(SubSeq(body, i, i + n), SubSeq(body, a, b))
<1>1. Len(body) \in Nat /\ \A k \in 1..Len(body) : body[k] \in Word
  BY LenProperties, ElementOfSeq
<1> DEFINE p == SubSeq(body, i, i + n)
           x == SubSeq(body, a, b)
           j == i - a
<1>2. Len(p) = n + 1 /\ Len(x) = b - a + 1
  BY <1>1, SubSeqProperties
<1>3. SubSeq(x, j + 1, j + Len(p)) = p
  <2>1. /\ a + (j + 1) - 1 = i /\ a + (j + n + 1) - 1 = i + n /\ j + Len(p) = j + n + 1
        /\ j + 1 \in 1..(b - a + 1) /\ j + n + 1 \in 1..(b - a + 1)
    BY <1>1, <1>2
  <2>2. SubSeq(x, j + 1, j + n + 1) = SubSeq(body, a + (j + 1) - 1, a + (j + n + 1) - 1)
    <3> HIDE DEF j
    <3>1. a \in 1..Len(body) /\ b \in 1..Len(body) /\ j \in Int
      BY <1>1 DEF j
    <3> QED BY <2>1, <3>1, SubSeqOfSubSeq
  <2> QED BY <2>1, <2>2
<1>4. j \in 0..(Len(x) - Len(p))
  BY <1>1, <1>2
<1> HIDE DEF p, x, j
<1>5. Within(p, x)
  BY <1>3, <1>4 DEF Within
<1> QED BY <1>5 DEF p, x

\* The chunker's windows overlap enough: each run of words longer than the
\* overlap by no more than a word is whole in one of them, wherever it stands
\* (_window of chunking.py).
THEOREM WindowsKeepPhrases ==
    ASSUME NEW Word, NEW body \in Seq(Word), NEW s \in Schemes,
           NEW p \in Phrases(body, Settings[s].overlap + 1)
    PROVE  \E k \in DOMAIN Windows(s, body) : Within(p, Windows(s, body)[k])
<1> DEFINE upto(L, n) == IF n < L THEN n ELSE L
<1>1. PICK T \in Nat, O \in Nat, t \in Nat \ {0}, L \in Nat :
         /\ T = Settings[s].target /\ O = Settings[s].overlap /\ t = Step(s) /\ L = Len(body)
         /\ t = T - O /\ O + 1 <= T
  <2>1. /\ Settings[s].target \in Nat /\ Settings[s].overlap \in Nat
        /\ Settings[s].overlap < Settings[s].target
    BY SettingsAssumption DEF Schemes
  <2>2. /\ Step(s) = Settings[s].target - Settings[s].overlap /\ Step(s) \in Nat \ {0}
        /\ Settings[s].overlap + 1 <= Settings[s].target
    BY <2>1 DEF Step
  <2>3. Len(body) \in Nat
    BY LenProperties
  <2> QED BY <2>1, <2>2, <2>3
<1>2. PICK a : a = IF L <= T THEN 0 ELSE (L - T + t - 1) \div t
  OBVIOUS
<1>3. Windows(s, body) = [k \in 1..(a + 1) |-> SubSeq(body, (k - 1) * t + 1, upto(L, (k - 1) * t + T))]
  BY <1>1, <1>2 DEF Windows
<1>4. \/ p = body /\ L <= O + 1
      \/ \E i \in 1..(L - O) : p = SubSeq(body, i, i + O)
  <2>1. p \in Phrases(body, O + 1)
    BY <1>1
  <2>2. \/ p = body /\ Len(body) <= O + 1
        \/ \E i \in 1..(Len(body) - O) : p = SubSeq(body, i, i + O)
    BY <2>1, PhraseIs
  <2> QED BY <1>1, <2>2
<1> HIDE DEF upto
<1>5. CASE L <= T
  <2>1. 1 \in 1..(a + 1) /\ (1 - 1) * t = 0 /\ 0 + 1 = 1 /\ 0 + T = T
    BY <1>2, <1>5
  <2>2. upto(L, T) = L
    BY <1>5 DEF upto
  <2>3. 1 \in DOMAIN Windows(s, body) /\ Windows(s, body)[1] = SubSeq(body, 1, L)
    BY <1>3, <2>1, <2>2
  <2>4. CASE p = body
    <3>1. SubSeq(body, 1, L) = body
      BY <1>1, SubSeqFull
    <3>2. 0 \in 0..(L - L) /\ 0 + 1 = 1 /\ 0 + L = L
      OBVIOUS
    <3>3. Within(body, body)
      BY <1>1, <3>1, <3>2 DEF Within
    <3> QED BY <2>3, <2>4, <3>1, <3>3
  <2>5. ASSUME NEW i \in 1..(L - O), p = SubSeq(body, i, i + O) PROVE Within(p, SubSeq(body, 1, L))
    <3>1. 1 \in 1..L /\ L \in 1..L /\ i \in 1..L /\ i + O <= L
      OBVIOUS
    <3> QED BY <1>1, <2>5, <3>1, PhraseInWindow
  <2> QED BY <1>4, <2>3, <2>4, <2>5
<1>6. CASE T < L
  <2>1. PICK i \in 1..(L - O) : p = SubSeq(body, i, i + O)
    <3>1. ~ (L <= O + 1)
      BY <1>1, <1>6
    <3> QED BY <1>4, <3>1
  <2>2. a = (L - T + t - 1) \div t
    BY <1>2, <1>6
  <2>3. PICK q \in 0..a, m \in Nat : /\ m = q * t /\ m < i
                                     /\ i + O <= m + T \/ L <= m + T
    <3>1. PICK k \in Nat, m \in Nat : /\ k = (i - 1) \div t /\ m = k * t
                                    /\ m <= i - 1 /\ i - 1 < m + t
      <4>1. i - 1 \in Nat
        OBVIOUS
      <4>2. (i - 1) \div t \in Nat /\ ((i - 1) \div t) * t \in Nat
        BY <4>1, WholeSteps, Distribute
      <4> QED BY <4>1, <4>2, WholeSteps
    <3>2. PICK n \in Nat : /\ a \in Nat /\ n = a * t
                          /\ n <= L - T + t - 1 /\ L - T + t - 1 < n + t
      <4>1. L - T + t - 1 \in Nat
        BY <1>6
      <4>2. a \in Nat /\ a * t \in Nat
        BY <2>2, <4>1, WholeSteps, Distribute
      <4> QED BY <2>2, <4>1, <4>2, WholeSteps
    <3>3. CASE k <= a
      <4>1. m < i /\ i + O <= m + T
        <5>1. m <= i - 1 /\ i - 1 < m + t /\ t = T - O
          BY <1>1, <3>1
        <5> QED BY <5>1
      <4>2. k \in 0..a
        BY <3>1, <3>2, <3>3
      <4> QED BY <3>1, <4>1, <4>2
    <3>4. CASE a < k
      <4>1. PICK c \in Nat : k = a + c
        <5>1. k - a \in Nat /\ k = a + (k - a)
          BY <3>1, <3>2, <3>4
        <5> QED BY <5>1
      <4>2. n <= m
        <5>1. (a + c) * t = a * t + c * t /\ c * t \in Nat
          BY <3>2, Distribute
        <5> QED BY <3>1, <3>2, <4>1, <5>1
      <4>3. n < i /\ L <= n + T
        <5>1. m <= i - 1 /\ n <= m /\ L - T + t - 1 < n + t
          BY <3>1, <3>2, <4>2
        <5> QED BY <1>6, <5>1
      <4>4. a \in 0..a
        BY <3>2
      <4> QED BY <3>2, <4>3, <4>4
    <3> QED BY <3>1, <3>2, <3>3, <3>4
  <2>4. q + 1 \in 1..(a + 1) /\ (q + 1) - 1 = q
    <3>1. L - T + t - 1 \in Nat
      BY <1>6
    <3>2. a \in Nat
      BY <2>2, <3>1, WholeSteps
    <3> QED BY <3>2
  <2>5. /\ q + 1 \in DOMAIN Windows(s, body)
        /\ Windows(s, body)[q + 1] = SubSeq(body, m + 1, upto(L, m + T))
    BY <1>3, <2>3, <2>4
  <2>6. /\ m + 1 \in 1..L /\ upto(L, m + T) \in (m + 1)..L
        /\ i \in (m + 1)..L /\ i + O <= upto(L, m + T)
    <3>1. m < i /\ (i + O <= m + T \/ L <= m + T)
      BY <2>3
    <3>2. O + 1 <= T /\ i \in 1..(L - O)
      BY <1>1
    <3> QED BY <3>1, <3>2 DEF upto
  <2>7. Within(p, SubSeq(body, m + 1, upto(L, m + T)))
    BY <1>1, <2>1, <2>6, PhraseInWindow
  <2> QED BY <2>5, <2>7
<1> QED BY <1>5, <1>6

\* What stands in a text stands in it with words added before or after.
LEMMA WithinMore ==
    ASSUME NEW Word, NEW w \in Seq(Word), NEW x \in Seq(Word), NEW y \in Seq(Word)
    PROVE  /\ Within(w, x) => Within(w, x \o y)
           /\ Within(w, y) => Within(w, x \o y)
<1>1. /\ Len(w) \in Nat /\ Len(x) \in Nat /\ Len(y) \in Nat
      /\ x \o y \in Seq(Word) /\ Len(x \o y) = Len(x) + Len(y)
  BY LenProperties, ConcatProperties
<1>2. ASSUME NEW z \in Seq(Word), NEW j \in 0..(Len(z) - Len(w)), Len(w) = 0
      PROVE  SubSeq(z, j + 1, j + Len(w)) = w
  <2>1. w = <<>>
    BY <1>2, EmptySeq
  <2>2. j + 1 \in Int /\ j + Len(w) \in Int /\ j + Len(w) < j + 1
    BY <1>1, <1>2
  <2> QED BY <2>1, <2>2, SubSeqEmpty
<1>3. ASSUME NEW j \in 0..(Len(x) - Len(w)), SubSeq(x, j + 1, j + Len(w)) = w
      PROVE  Within(w, x \o y)
  <2>1. j \in 0..(Len(x \o y) - Len(w))
    BY <1>1
  <2>2. SubSeq(x \o y, j + 1, j + Len(w)) = w
    <3>1. CASE Len(w) = 0
      BY <1>1, <1>2, <2>1, <3>1
    <3>2. CASE Len(w) # 0
      <4>1. j + 1 \in 1..Len(x) /\ j + Len(w) \in 1..Len(x)
        BY <1>1, <3>2
      <4> QED BY <1>3, <4>1, SubSeqOfConcat1
    <3> QED BY <3>1, <3>2
  <2> QED BY <2>1, <2>2 DEF Within
<1>4. ASSUME NEW j \in 0..(Len(y) - Len(w)), SubSeq(y, j + 1, j + Len(w)) = w
      PROVE  Within(w, x \o y)
  <2> DEFINE k == Len(x) + j
  <2>1. k \in 0..(Len(x \o y) - Len(w))
    BY <1>1
  <2>2. SubSeq(x \o y, k + 1, k + Len(w)) = w
    <3>1. CASE Len(w) = 0
      <4> HIDE DEF k
      <4> QED BY <1>1, <1>2, <2>1, <3>1
    <3>2. CASE Len(w) # 0
      <4>1. /\ k + 1 \in (Len(x) + 1)..(Len(x) + Len(y))
            /\ k + Len(w) \in (Len(x) + 1)..(Len(x) + Len(y))
            /\ k + 1 - Len(x) = j + 1 /\ k + Len(w) - Len(x) = j + Len(w)
        BY <1>1, <3>2
      <4>2. PICK a \in (Len(x) + 1)..(Len(x) + Len(y)), b \in (Len(x) + 1)..(Len(x) + Len(y)) :
               a = k + 1 /\ b = k + Len(w)
        BY <4>1
      <4>3. SubSeq(x \o y, a, b) = SubSeq(y, a - Len(x), b - Len(x))
        BY SubSeqOfConcat2
      <4>4. a - Len(x) = j + 1 /\ b - Len(x) = j + Len(w)
        BY <4>1, <4>2
      <4> HIDE DEF k
      <4> QED BY <1>4, <4>2, <4>3, <4>4
    <3> QED BY <3>1, <3>2
  <2> HIDE DEF k
  <2> QED BY <2>1, <2>2 DEF Within
<1> QED BY <1>3, <1>4 DEF Within

\* The text of a piece is its heading, if it has one, and its body.
LEMMA PrefixedFacts ==
    ASSUME NEW p \in Piece
    PROVE  /\ p.body \in Seq(Words) /\ Prefixed(p) \in Seq(Words)
           /\ Len(p.body) \in Nat /\ Len(Prefixed(p)) \in Nat
           /\ Len(p.body) <= Len(Prefixed(p)) /\ Len(Prefixed(p)) <= Len(p.body) + 1
           /\ p.heading # NoHeading => /\ <<p.heading>> \in Seq(Words) /\ Len(<<p.heading>>) = 1
                                       /\ Prefixed(p) = <<p.heading>> \o p.body
<1>1. p.body \in Seq(Words) /\ p.heading \in Words \cup {NoHeading}
  BY DEF Piece
<1>2. Len(p.body) \in Nat
  BY <1>1, LenProperties
<1>3. CASE p.heading = NoHeading
  BY <1>1, <1>2, <1>3 DEF Prefixed
<1>4. CASE p.heading # NoHeading
  <2> DEFINE head == <<p.heading>>
  <2>1. head \in Seq(Words) /\ Len(head) = 1
    BY <1>1, <1>4
  <2>2. Prefixed(p) = head \o p.body
    BY <1>4 DEF Prefixed
  <2> HIDE DEF head
  <2>3. head \o p.body \in Seq(Words) /\ Len(head \o p.body) = 1 + Len(p.body)
    <3>1. PICK x \in Seq(Words), y \in Seq(Words) : x = head /\ y = p.body
      BY <1>1, <2>1
    <3>2. x \o y \in Seq(Words) /\ Len(x \o y) = Len(x) + Len(y)
      BY ConcatProperties
    <3> QED BY <2>1, <3>1, <3>2
  <2> QED BY <1>1, <1>2, <2>1, <2>2, <2>3 DEF head
<1> QED BY <1>3, <1>4

\* Texts joined to texts.
LEMMA Regroup ==
    ASSUME NEW x \in Seq(Words), NEW y \in Seq(Words), NEW z \in Seq(Words)
    PROVE  (x \o y) \o z = x \o (y \o z)
BY ConcatAssociative, SMTT(60)

\* A runt that joins the piece before it is not lost, and neither is that
\* piece: what stood in the new piece stands in the last one, and what stood in
\* an older one stands in it still (the merging in chunk_document of
\* chunking.py).
THEOREM MergeKeepsWords ==
    ASSUME NEW merged \in Seq(Piece), NEW p \in Piece, NEW w \in Seq(Words)
    PROVE  /\ Merge(merged, p) \in Seq(Piece) /\ Merge(merged, p) # <<>>
           /\ Len(Merge(merged, p)) = IF merged # <<>> /\ Len(p.body) < MinTokens
                                      THEN Len(merged) ELSE Len(merged) + 1
           /\ Within(w, Prefixed(p)) => Within(w, Prefixed(Last(Merge(merged, p))))
           /\ \A i \in DOMAIN merged :
                 /\ i \in DOMAIN Merge(merged, p)
                 /\ Len(Prefixed(merged[i])) <= Len(Prefixed(Merge(merged, p)[i]))
                 /\ Within(w, Prefixed(merged[i])) => Within(w, Prefixed(Merge(merged, p)[i]))
<1> DEFINE n == Len(merged)
           joined == [merged[n] EXCEPT !.body = @ \o Prefixed(p)]
<1>1. n \in Nat /\ DOMAIN merged = 1..n /\ \A i \in 1..n : merged[i] \in Piece
  BY LenProperties, ElementOfSeq
<1>2. CASE merged # <<>> /\ Len(p.body) < MinTokens
  <2>1. n \in 1..n
    BY <1>1, <1>2, EmptySeq
  <2>2. merged[n] \in Piece
    BY <1>1, <2>1
  <2>3. merged[n].body \o Prefixed(p) \in Seq(Words)
    BY <2>2, PrefixedFacts, ConcatProperties
  <2>4. joined \in Piece /\ joined.heading = merged[n].heading /\ joined.body = merged[n].body \o Prefixed(p)
    BY <2>2, <2>3 DEF Piece
  <2>5. Merge(merged, p) = [merged EXCEPT ![n] = joined]
    BY <1>2 DEF Merge
  <2> HIDE DEF joined
  <2>6. /\ Merge(merged, p) \in Seq(Piece) /\ Len(Merge(merged, p)) = n
        /\ \A i \in 1..n : Merge(merged, p)[i] = IF i = n THEN joined ELSE merged[i]
    BY <2>1, <2>4, <2>5, ExceptSeq
  <2>7. DOMAIN Merge(merged, p) = 1..n /\ Last(Merge(merged, p)) = joined /\ Merge(merged, p) # <<>>
    <3>1. DOMAIN Merge(merged, p) = 1..n
      BY <2>6, LenProperties
    <3>2. Merge(merged, p) # <<>>
      <4>1. n # 0 /\ Len(<<>>) = 0
        BY <1>1, <2>1
      <4> QED BY <2>6, <4>1
    <3> QED BY <2>1, <2>6, <3>1, <3>2 DEF Last
  <2>8. Prefixed(joined) = Prefixed(merged[n]) \o Prefixed(p)
    <3>1. CASE merged[n].heading = NoHeading
      BY <2>4, <3>1 DEF Prefixed
    <3>2. CASE merged[n].heading # NoHeading
      <4> DEFINE head == <<merged[n].heading>>
      <4>1. Prefixed(joined) = head \o (merged[n].body \o Prefixed(p))
        BY <2>4, <3>2 DEF Prefixed
      <4>2. head \in Seq(Words) /\ Prefixed(merged[n]) = head \o merged[n].body
        BY <2>2, <3>2, PrefixedFacts
      <4> HIDE DEF head
      <4>3. (head \o merged[n].body) \o Prefixed(p) = head \o (merged[n].body \o Prefixed(p))
        <5>1. merged[n].body \in Seq(Words) /\ Prefixed(p) \in Seq(Words)
          BY <2>2, PrefixedFacts
        <5> QED BY <4>2, <5>1, Regroup
      <4> QED BY <4>1, <4>2, <4>3
    <3> QED BY <3>1, <3>2
  <2>9. /\ Within(w, Prefixed(p)) => Within(w, Prefixed(joined))
        /\ Within(w, Prefixed(merged[n])) => Within(w, Prefixed(joined))
        /\ Len(Prefixed(merged[n])) <= Len(Prefixed(joined))
    <3>1. /\ Prefixed(p) \in Seq(Words) /\ Prefixed(merged[n]) \in Seq(Words)
          /\ Len(Prefixed(p)) \in Nat /\ Len(Prefixed(merged[n])) \in Nat
      BY <2>2, PrefixedFacts
    <3>2. Len(Prefixed(merged[n]) \o Prefixed(p)) = Len(Prefixed(merged[n])) + Len(Prefixed(p))
      BY <3>1, ConcatProperties
    <3> QED BY <2>8, <3>1, <3>2, WithinMore
  <2>10. \A i \in 1..n : Len(Prefixed(merged[i])) \in Nat
    BY <1>1, PrefixedFacts
  <2>11. ASSUME NEW i \in DOMAIN merged
         PROVE  /\ i \in DOMAIN Merge(merged, p)
                /\ Len(Prefixed(merged[i])) <= Len(Prefixed(Merge(merged, p)[i]))
                /\ Within(w, Prefixed(merged[i])) => Within(w, Prefixed(Merge(merged, p)[i]))
    <3>1. CASE i = n
      BY <1>1, <2>1, <2>6, <2>7, <2>9, <3>1
    <3>2. CASE i # n
      <4>1. i \in 1..n /\ Merge(merged, p)[i] = merged[i]
        BY <1>1, <2>6, <3>2
      <4>2. Len(Prefixed(merged[i])) \in Nat
        BY <2>10, <4>1
      <4> QED BY <2>7, <4>1, <4>2
    <3> QED BY <3>1, <3>2
  <2> QED BY <1>2, <2>6, <2>7, <2>9, <2>11
<1>3. CASE ~ (merged # <<>> /\ Len(p.body) < MinTokens)
  <2>1. Merge(merged, p) = Append(merged, p)
    BY <1>3 DEF Merge
  <2>2. /\ Append(merged, p) \in Seq(Piece) /\ Append(merged, p) # <<>>
        /\ Len(Append(merged, p)) = n + 1
        /\ Append(merged, p)[n + 1] = p /\ \A i \in 1..n : Append(merged, p)[i] = merged[i]
    BY AppendProperties
  <2>3. DOMAIN Append(merged, p) = 1..(n + 1) /\ Last(Append(merged, p)) = p
    BY <2>2, LenProperties DEF Last
  <2>4. \A i \in 1..n : i \in 1..(n + 1) /\ Len(Prefixed(merged[i])) \in Nat
    BY <1>1, PrefixedFacts
  <2> QED BY <1>1, <1>3, <2>1, <2>2, <2>3, <2>4
<1> QED BY <1>2, <1>3

\* A flattened sequence is built part by part.
LEMMA FlattenIs ==
    ASSUME NEW X, NEW seqs \in Seq(Seq(X))
    PROVE  \E g \in [0..Len(seqs) -> Seq(X)] :
              /\ g[0] = <<>> /\ \A k \in 1..Len(seqs) : g[k] = g[k - 1] \o seqs[k]
              /\ FlattenSeq(seqs) = g[Len(seqs)]
<1> DEFINE n == Len(seqs)
           h == [k \in 1..n |-> [x \in Seq(X) |-> x \o seqs[k]]]
<1>1. n \in Nat /\ \A k \in 1..n : seqs[k] \in Seq(X)
  BY LenProperties, ElementOfSeq
<1>2. h \in [1..n -> [Seq(X) -> Seq(X)]]
  <2>1. ASSUME NEW k \in 1..n, NEW x \in Seq(X) PROVE x \o seqs[k] \in Seq(X)
    BY <1>1, ConcatProperties
  <2> QED BY <2>1
<1>3. <<>> \in Seq(X)
  OBVIOUS
<1>4. PICK g \in [0..n -> Seq(X)] : g[0] = <<>> /\ \A k \in 1..n : g[k] = h[k][g[k - 1]]
  <2>1. PICK g : Way(g, n, Seq(X), <<>>, h)
    <3> HIDE DEF h, n
    <3> QED BY <1>1, <1>2, <1>3, StepByStep
  <2> HIDE DEF h
  <2> QED BY <2>1 DEF Way
<1>5. ASSUME NEW k \in 1..n PROVE g[k] = g[k - 1] \o seqs[k]
  <2>1. k - 1 \in 0..n
    BY <1>1
  <2>2. g[k - 1] \in Seq(X)
    BY <1>4, <2>1
  <2>3. h[k][g[k - 1]] = g[k - 1] \o seqs[k]
    BY <2>2
  <2> QED BY <1>4, <2>3
<1> HIDE DEF h
<1>6. FlattenSeq(seqs) = g[n]
  <2>1. CASE n = 0
    <3>1. FlattenSeq(seqs) = seqs
      BY <2>1 DEF FlattenSeq
    <3>2. seqs = <<>>
      BY <2>1, EmptySeq
    <3> QED BY <1>4, <2>1, <3>1, <3>2
  <2>2. CASE n # 0
    <3> DEFINE Rec(f) == f = [i \in 1..n |-> IF i = 1 THEN seqs[i] ELSE f[i - 1] \o seqs[i]]
               f0 == [i \in 1..n |-> g[i]]
    <3>1. Rec(f0)
      <4>1. ASSUME NEW i \in 1..n PROVE g[i] = IF i = 1 THEN seqs[i] ELSE f0[i - 1] \o seqs[i]
        <5>1. CASE i = 1
          <6>1. 1 \in 1..n /\ 1 - 1 = 0
            BY <5>1
          <6>3. g[1] = g[0] \o seqs[1]
            BY <1>5, <6>1
          <6>2. seqs[1] \in Seq(X)
            BY <1>1, <5>1
          <6> QED BY <1>4, <5>1, <6>3, <6>2, ConcatEmptySeq
        <5>2. CASE i # 1
          <6>1. i - 1 \in 1..n
            BY <1>1, <5>2
          <6> QED BY <1>5, <5>2, <6>1
        <5> QED BY <5>1, <5>2
      <4> QED BY <4>1
    <3> DEFINE c == CHOOSE f : Rec(f)
    <3>2. FlattenSeq(seqs) = c[n]
      BY <1>1, <2>2 DEF FlattenSeq
    <3>3. Rec(c)
      <4> HIDE DEF Rec, f0
      <4> QED BY <3>1
    <3> HIDE DEF c
    <3> DEFINE S == {m \in Nat : m <= n /\ m # 0 => c[m] = g[m]}
    <3>4. 0 \in S
      OBVIOUS
    <3>5. ASSUME NEW m \in Nat, m \in S PROVE m + 1 \in S
      <4> SUFFICES ASSUME m + 1 <= n PROVE c[m + 1] = g[m + 1]
        OBVIOUS
      <4>1. m + 1 \in 1..n /\ (m + 1) - 1 = m /\ (m + 1 = 1 <=> m = 0)
        BY <1>1
      <4>2. c[m + 1] = IF m + 1 = 1 THEN seqs[m + 1] ELSE c[(m + 1) - 1] \o seqs[m + 1]
        BY <3>3, <4>1
      <4>3. f0[m + 1] = IF m + 1 = 1 THEN seqs[m + 1] ELSE f0[(m + 1) - 1] \o seqs[m + 1]
        <5> HIDE DEF f0
        <5> QED BY <3>1, <4>1
      <4>4. f0[m + 1] = g[m + 1] /\ (m # 0 => f0[m] = g[m])
        BY <1>1, <4>1
      <4>5. m # 0 => c[m] = g[m]
        BY <1>1, <3>5
      <4> HIDE DEF f0
      <4> QED BY <4>1, <4>2, <4>3, <4>4, <4>5
    <3> HIDE DEF S
    <3>6. n \in S
      BY <1>1, <3>4, <3>5, CountUp
    <3>7. c[n] = g[n]
      BY <1>1, <2>2, <3>6 DEF S
    <3> QED BY <3>2, <3>7
  <2> QED BY <2>1, <2>2
<1> QED BY <1>4, <1>5, <1>6

\* The parts stand in x one after the other, the k-th from base[k - 1] on.
Laid(base, seqs, x) ==
    /\ base \in [0..Len(seqs) -> Nat]
    /\ \A k \in 1..Len(seqs) :
          /\ base[k] = base[k - 1] + Len(seqs[k])
          /\ \A q \in 1..Len(seqs[k]) : /\ base[k - 1] + q \in DOMAIN x
                                        /\ x[base[k - 1] + q] = seqs[k][q]

\* A flattened sequence holds its parts one after the other.
LEMMA FlattenHolds ==
    ASSUME NEW X, NEW seqs \in Seq(Seq(X))
    PROVE  FlattenSeq(seqs) \in Seq(X) /\ \E base : Laid(base, seqs, FlattenSeq(seqs))
<1> DEFINE n == Len(seqs)
<1>1. n \in Nat /\ \A k \in 1..n : seqs[k] \in Seq(X)
  BY LenProperties, ElementOfSeq
<1>2. PICK g \in [0..n -> Seq(X)] : /\ g[0] = <<>> /\ \A k \in 1..n : g[k] = g[k - 1] \o seqs[k]
                                    /\ FlattenSeq(seqs) = g[n]
  BY FlattenIs
<1> HIDE DEF n
<1>3. ASSUME NEW k \in 1..n
      PROVE  /\ k - 1 \in 0..n /\ k \in 0..n /\ Len(g[k - 1]) \in Nat /\ Len(seqs[k]) \in Nat
             /\ Len(g[k]) = Len(g[k - 1]) + Len(seqs[k])
             /\ \A r \in 1..Len(g[k]) : g[k][r] = IF r <= Len(g[k - 1]) THEN g[k - 1][r]
                                                 ELSE seqs[k][r - Len(g[k - 1])]
  <2>1. k - 1 \in 0..n /\ k \in 0..n
    BY <1>1
  <2>2. g[k - 1] \in Seq(X) /\ seqs[k] \in Seq(X)
    BY <1>1, <1>2, <2>1
  <2>3. g[k] = g[k - 1] \o seqs[k]
    BY <1>2
  <2>4. Len(g[k - 1]) \in Nat /\ Len(seqs[k]) \in Nat
    BY <2>2, LenProperties
  <2>5. /\ Len(g[k - 1] \o seqs[k]) = Len(g[k - 1]) + Len(seqs[k])
        /\ \A r \in 1..(Len(g[k - 1]) + Len(seqs[k])) :
              (g[k - 1] \o seqs[k])[r] = IF r <= Len(g[k - 1]) THEN g[k - 1][r]
                                         ELSE seqs[k][r - Len(g[k - 1])]
    BY <2>2, ConcatProperties
  <2> QED BY <2>1, <2>3, <2>4, <2>5
<1>4. ASSUME NEW k \in 1..n, NEW r \in 1..Len(g[k])
      PROVE  r \in 1..Len(g[n]) /\ g[n][r] = g[k][r]
  <2> DEFINE S == {m \in Nat : k + m <= n => r \in 1..Len(g[k + m]) /\ g[k + m][r] = g[k][r]}
  <2>1. 0 \in S
    BY <1>1
  <2>2. ASSUME NEW m \in Nat, m \in S PROVE m + 1 \in S
    <3> SUFFICES ASSUME k + (m + 1) <= n
                 PROVE  r \in 1..Len(g[k + (m + 1)]) /\ g[k + (m + 1)][r] = g[k][r]
      OBVIOUS
    <3>1. PICK j \in 1..n : j = k + (m + 1) /\ j - 1 = k + m /\ k + m <= n
      BY <1>1
    <3>2. r \in 1..Len(g[j - 1]) /\ g[j - 1][r] = g[k][r]
      BY <2>2, <3>1
    <3>3. PICK a \in Nat, b \in Nat : a = Len(g[j - 1]) /\ b = Len(seqs[j]) /\ Len(g[j]) = a + b
      BY <1>3
    <3>4. r \in 1..a
      BY <3>2, <3>3, Zenon
    <3>5. r \in 1..(a + b) /\ r <= a
      BY <3>4
    <3>6. r \in 1..Len(g[j]) /\ r <= Len(g[j - 1])
      BY <3>3, <3>5, Zenon
    <3>7. g[j][r] = g[j - 1][r]
      BY <1>3, <3>6, Zenon
    <3> QED BY <3>1, <3>2, <3>6, <3>7
  <2> HIDE DEF S
  <2>3. Nat \subseteq S
    BY <2>1, <2>2, CountUp
  <2>4. n - k \in Nat /\ k + (n - k) = n /\ n <= n
    BY <1>1
  <2>5. n - k \in S
    BY <2>3, <2>4
  <2> QED BY <2>4, <2>5 DEF S
<1> DEFINE base == [k \in 0..n |-> Len(g[k])]
<1>5. base \in [0..n -> Nat]
  <2>1. ASSUME NEW k \in 0..n PROVE Len(g[k]) \in Nat
    BY <1>2, LenProperties
  <2> QED BY <2>1
<1>6. \A k \in 1..n : base[k] = Len(g[k]) /\ base[k - 1] = Len(g[k - 1])
  BY <1>3
<1> HIDE DEF base
<1>7. g[n] \in Seq(X)
  <2>1. n \in 0..n
    BY <1>1
  <2> QED BY <1>2, <2>1
<1>8. ASSUME NEW k \in 1..n, NEW q \in 1..Len(seqs[k])
      PROVE  base[k - 1] + q \in 1..Len(g[n]) /\ g[n][base[k - 1] + q] = seqs[k][q]
  <2>1. PICK b \in Nat, a \in Nat : /\ b = base[k - 1] /\ b = Len(g[k - 1]) /\ a = Len(seqs[k])
                                   /\ Len(g[k]) = b + a
    BY <1>3, <1>6
  <2>2. q \in 1..a
    BY <2>1, Zenon
  <2>3. b + q \in 1..(b + a) /\ ~ (b + q <= b) /\ (b + q) - b = q
    BY <2>2
  <2>4. b + q \in 1..Len(g[k]) /\ ~ (b + q <= Len(g[k - 1])) /\ (b + q) - Len(g[k - 1]) = q
    BY <2>1, <2>3, Zenon
  <2>5. g[k][b + q] = seqs[k][q]
    BY <1>3, <2>4, Zenon
  <2> QED BY <1>4, <2>1, <2>4, <2>5, Zenon
<1>9. DOMAIN g[n] = 1..Len(g[n])
  BY <1>7, LenProperties
<1>10. \A k \in 1..n : /\ base[k] = base[k - 1] + Len(seqs[k])
                      /\ \A q \in 1..Len(seqs[k]) : /\ base[k - 1] + q \in DOMAIN g[n]
                                                    /\ g[n][base[k - 1] + q] = seqs[k][q]
  BY <1>3, <1>6, <1>8, <1>9
<1>11. Laid(base, seqs, g[n])
  BY <1>5, <1>10 DEF Laid, n
<1> QED BY <1>2, <1>7, <1>11 DEF n

\* The pieces are merged one after the other.
LEMMA MergedIs ==
    ASSUME NEW P \in Seq(Piece)
    PROVE  \E u \in [0..Len(P) -> Seq(Piece)] :
              /\ u[0] = <<>> /\ \A k \in 1..Len(P) : u[k] = Merge(u[k - 1], P[k])
              /\ Merged(P) = u[Len(P)]
<1> DEFINE n == Len(P)
           h == [k \in 1..n |-> [x \in Seq(Piece) |-> Merge(x, P[k])]]
           Rec(f) == f = [k \in 0..n |-> IF k = 0 THEN <<>> ELSE Merge(f[k - 1], P[k])]
<1>1. n \in Nat /\ \A k \in 1..n : P[k] \in Piece
  BY LenProperties, ElementOfSeq
<1>2. h \in [1..n -> [Seq(Piece) -> Seq(Piece)]]
  <2>1. ASSUME NEW k \in 1..n, NEW x \in Seq(Piece) PROVE Merge(x, P[k]) \in Seq(Piece)
    <3>1. <<>> \in Seq(Words)
      OBVIOUS
    <3> QED BY <1>1, <3>1, MergeKeepsWords
  <2> QED BY <2>1
<1>3. <<>> \in Seq(Piece)
  OBVIOUS
<1>4. PICK u : Way(u, n, Seq(Piece), <<>>, h)
  <2> HIDE DEF h, n
  <2> QED BY <1>1, <1>2, <1>3, StepByStep
<1>5. u \in [0..n -> Seq(Piece)] /\ u[0] = <<>>
  BY <1>4 DEF Way
<1>6. ASSUME NEW k \in 1..n PROVE u[k] = Merge(u[k - 1], P[k])
  <2>1. k - 1 \in 0..n
    BY <1>1
  <2>2. u[k - 1] \in Seq(Piece)
    BY <1>5, <2>1
  <2>3. h[k][u[k - 1]] = Merge(u[k - 1], P[k])
    BY <2>2
  <2>4. u[k] = h[k][u[k - 1]]
    <3> HIDE DEF h
    <3> QED BY <1>4 DEF Way
  <2> QED BY <2>3, <2>4
<1> HIDE DEF h
<1>7. Rec(u)
  <2>1. ASSUME NEW k \in 0..n PROVE u[k] = IF k = 0 THEN <<>> ELSE Merge(u[k - 1], P[k])
    <3>1. k # 0 => k \in 1..n
      BY <1>1
    <3> QED BY <1>5, <1>6, <3>1
  <2> QED BY <1>5, <2>1
<1> DEFINE c == CHOOSE f : Rec(f)
<1>8. Merged(P) = c[n]
  BY DEF Merged
<1>9. Rec(c)
  <2> HIDE DEF Rec
  <2> QED BY <1>7
<1> HIDE DEF c
<1> DEFINE S == {m \in Nat : m <= n => c[m] = u[m]}
<1>10. 0 \in S
  BY <1>1, <1>5, <1>9
<1>11. ASSUME NEW m \in Nat, m \in S PROVE m + 1 \in S
  <2> SUFFICES ASSUME m + 1 <= n PROVE c[m + 1] = u[m + 1]
    OBVIOUS
  <2>1. m + 1 \in 1..n /\ m + 1 \in 0..n /\ (m + 1) - 1 = m /\ m <= n /\ m + 1 # 0
    BY <1>1
  <2>2. c[m + 1] = Merge(c[(m + 1) - 1], P[m + 1])
    BY <1>9, <2>1
  <2> QED BY <1>6, <1>11, <2>1, <2>2
<1> HIDE DEF S
<1>12. Nat \subseteq S
  BY <1>10, <1>11, CountUp
<1>13. c[n] = u[n]
  BY <1>1, <1>12 DEF S
<1> QED BY <1>5, <1>6, <1>8, <1>13

\* A function on the first n numbers is a sequence of length n.
LEMMA Listed ==
    ASSUME NEW S, NEW n \in Nat, NEW f \in [1..n -> S]
    PROVE  f \in Seq(S) /\ Len(f) = n
<1>1. f \in Seq(S)
  BY SeqDef
<1>2. DOMAIN f = 1..n /\ DOMAIN f = 1..Len(f) /\ Len(f) \in Nat
  BY <1>1, LenProperties
<1>3. PICK m \in Nat : m = Len(f) /\ 1..n = 1..m
  BY <1>2
<1>4. n = m
  <2>1. n \in 1..n \/ n = 0
    OBVIOUS
  <2>2. m \in 1..m \/ m = 0
    OBVIOUS
  <2>3. n <= m /\ m <= n
    BY <1>3, <2>1, <2>2
  <2> QED BY <2>3
<1> QED BY <1>1, <1>3, <1>4

\* A text that fits the target is one window, and the windows of a text that is
\* not too short are not.
LEMMA WindowsAre ==
    ASSUME NEW s \in Schemes, NEW body \in Seq(Words)
    PROVE  /\ Windows(s, body) \in Seq(Seq(Words)) /\ 1 \in DOMAIN Windows(s, body)
           /\ Len(body) <= Settings[s].target =>
                 Len(Windows(s, body)) = 1 /\ Windows(s, body)[1] = body
           /\ Settings[s].target < Len(body) =>
                 Windows(s, body)[1] = SubSeq(body, 1, Settings[s].target)
           /\ MinBody <= Len(body) =>
                 \A k \in DOMAIN Windows(s, body) : MinBody <= Len(Windows(s, body)[k])
<1> DEFINE upto(L, n) == IF n < L THEN n ELSE L
           W == Windows(s, body)
<1>1. PICK T \in Nat, O \in Nat, t \in Nat \ {0}, L \in Nat, B \in Nat :
         /\ T = Settings[s].target /\ O = Settings[s].overlap /\ t = Step(s) /\ L = Len(body)
         /\ B = MinBody /\ t = T - O /\ O + 1 <= T /\ B <= O
  <2>1. /\ Settings[s].target \in Nat /\ Settings[s].overlap \in Nat /\ MinBody \in Nat
        /\ Settings[s].overlap < Settings[s].target /\ MinBody <= Settings[s].overlap
    BY SettingsAssumption DEF Schemes
  <2>2. /\ Step(s) = Settings[s].target - Settings[s].overlap /\ Step(s) \in Nat \ {0}
        /\ Settings[s].overlap + 1 <= Settings[s].target
    BY <2>1 DEF Step
  <2>3. Len(body) \in Nat
    BY LenProperties
  <2> QED BY <2>1, <2>2, <2>3
<1>2. PICK a : a = IF L <= T THEN 0 ELSE (L - T + t - 1) \div t
  OBVIOUS
<1>3. W = [k \in 1..(a + 1) |-> SubSeq(body, (k - 1) * t + 1, upto(L, (k - 1) * t + T))]
  BY <1>1, <1>2 DEF Windows
<1>4. a \in Nat /\ (T < L => a * t <= L - T + t - 1)
  <2>1. CASE L <= T
    BY <1>2, <2>1
  <2>2. CASE T < L
    <3>1. L - T + t - 1 \in Nat
      BY <2>2
    <3>2. a = (L - T + t - 1) \div t
      BY <1>2, <2>2
    <3> QED BY <3>1, <3>2, WholeSteps
  <2> QED BY <2>1, <2>2
<1> HIDE DEF W, upto
<1>5. ASSUME NEW k \in 1..(a + 1)
      PROVE  /\ W[k] \in Seq(Words)
             /\ B <= L => B <= Len(W[k])
  <2>1. PICK c \in Nat, m \in Nat : /\ c = k - 1 /\ c <= a /\ m = c * t
                                    /\ W[k] = SubSeq(body, m + 1, upto(L, m + T))
    <3>1. k - 1 \in Nat /\ k - 1 <= a
      BY <1>4
    <3>2. (k - 1) * t \in Nat
      BY <3>1, Distribute
    <3> QED BY <1>3, <3>1, <3>2
  <2>2. m <= a * t
    <3>1. PICK d \in Nat : a = c + d
      <4>1. a - c \in Nat /\ a = c + (a - c)
        BY <1>4, <2>1
      <4> QED BY <4>1
    <3>2. a * t = c * t + d * t /\ d * t \in Nat
      BY <3>1, Distribute
    <3> QED BY <2>1, <3>2
  <2>3. PICK b \in Nat : b = upto(L, m + T) /\ b <= L /\ (b = L \/ b = m + T)
    BY DEF upto
  <2>4. /\ SubSeq(body, m + 1, b) \in Seq(Words)
        /\ Len(SubSeq(body, m + 1, b)) = IF m + 1 <= b THEN b - (m + 1) + 1 ELSE 0
    <3>1. \A i \in (m + 1)..b : body[i] \in Words
      <4>1. ASSUME NEW i \in (m + 1)..b PROVE i \in 1..L
        BY <2>3
      <4> QED BY <1>1, <4>1, ElementOfSeq
    <3>2. m + 1 \in Int /\ b \in Int
      OBVIOUS
    <3> QED BY <3>1, <3>2, SubSeqProperties
  <2>5. B <= L => (B <= b - m)
    <3>1. CASE L <= T
      <4>1. a = 0
        BY <1>2, <3>1
      <4>2. c = 0
        BY <2>1, <4>1
      <4>3. m = 0
        BY <2>1, <4>2
      <4>4. b = L
        BY <2>3, <3>1, <4>3 DEF upto
      <4> QED BY <4>3, <4>4
    <3>2. CASE T < L
      <4>1. m <= L - T + t - 1
        <5>1. PICK n \in Nat : n = a * t /\ n <= L - T + t - 1 /\ m <= n
          <6>1. a * t \in Nat
            BY <1>4, Distribute
          <6> QED BY <1>4, <2>2, <3>2, <6>1
        <5> QED BY <5>1
      <4>2. t = T - O /\ B <= O /\ O + 1 <= T
        BY <1>1
      <4>3. L - m >= O + 1
        BY <4>1, <4>2
      <4> QED BY <2>3, <4>2, <4>3
    <3> QED BY <3>1, <3>2
  <2>6. B <= L => B <= Len(SubSeq(body, m + 1, b))
    BY <2>4, <2>5
  <2> QED BY <2>1, <2>3, <2>4, <2>6
<1>6. W \in Seq(Seq(Words)) /\ Len(W) = a + 1 /\ DOMAIN W = 1..(a + 1)
  <2>1. PICK n \in Nat : n = a + 1
    BY <1>4
  <2>2. W = [k \in 1..n |-> W[k]]
    BY <1>3, <2>1
  <2>3. \A k \in 1..n : W[k] \in Seq(Words)
    BY <1>5, <2>1
  <2>4. W \in [1..n -> Seq(Words)] /\ DOMAIN W = 1..n
    BY <2>2, <2>3
  <2> QED BY <2>1, <2>4, Listed
<1>7. 1 \in 1..(a + 1) /\ (1 - 1) * t = 0 /\ 0 + 1 = 1 /\ 0 + T = T
  BY <1>4
<1>8. W[1] = SubSeq(body, 1, upto(L, T))
  BY <1>3, <1>7
<1>9. L <= T => Len(W) = 1 /\ W[1] = body
  <2> SUFFICES ASSUME L <= T PROVE Len(W) = 1 /\ W[1] = body
    OBVIOUS
  <2>1. a = 0 /\ upto(L, T) = L
    BY <1>2 DEF upto
  <2>2. SubSeq(body, 1, L) = body
    BY <1>1, SubSeqFull
  <2> QED BY <1>6, <1>8, <2>1, <2>2
<1>10. T < L => W[1] = SubSeq(body, 1, T)
  BY <1>8 DEF upto
<1>11. B <= L => \A k \in DOMAIN W : B <= Len(W[k])
  BY <1>5, <1>6
<1> QED BY <1>1, <1>6, <1>7, <1>9, <1>10, <1>11 DEF W

\* The same of the pieces of a section.
LEMMA PiecesAre ==
    ASSUME NEW s \in Schemes, NEW p \in Piece
    PROVE  /\ PiecesOfSection(s, p) \in Seq(Piece)
           /\ Len(PiecesOfSection(s, p)) \in Nat \ {0}
           /\ Len(p.body) <= Settings[s].target =>
                 Len(PiecesOfSection(s, p)) = 1 /\ PiecesOfSection(s, p)[1] = p
           /\ MinBody <= Len(p.body) =>
                 \A k \in 1..Len(PiecesOfSection(s, p)) : MinBody <= Len(PiecesOfSection(s, p)[k].body)
           /\ Len(PiecesOfSection(s, p)) = Len(Windows(s, p.body))
           /\ \A k \in 1..Len(PiecesOfSection(s, p)) :
                 PiecesOfSection(s, p)[k] = [heading |-> p.heading, body |-> Windows(s, p.body)[k]]
<1> DEFINE W == Windows(s, p.body)
           Q == PiecesOfSection(s, p)
<1>1. p.body \in Seq(Words) /\ p.heading \in Words \cup {NoHeading}
      /\ p = [heading |-> p.heading, body |-> p.body]
  BY DEF Piece
<1>2. /\ W \in Seq(Seq(Words)) /\ 1 \in DOMAIN W
      /\ Len(p.body) <= Settings[s].target => Len(W) = 1 /\ W[1] = p.body
      /\ MinBody <= Len(p.body) => \A k \in DOMAIN W : MinBody <= Len(W[k])
  BY <1>1, WindowsAre
<1>3. Len(W) \in Nat /\ DOMAIN W = 1..Len(W) /\ \A k \in 1..Len(W) : W[k] \in Seq(Words)
  BY <1>2, LenProperties, ElementOfSeq
<1>4. Q = [k \in 1..Len(W) |-> [heading |-> p.heading, body |-> W[k]]]
  BY <1>3 DEF PiecesOfSection
<1> HIDE DEF Q, W
<1>5. Q \in [1..Len(W) -> Piece]
  <2>1. \A k \in 1..Len(W) : [heading |-> p.heading, body |-> W[k]] \in Piece
    BY <1>1, <1>3 DEF Piece
  <2> QED BY <1>4, <2>1
<1>6. Q \in Seq(Piece) /\ Len(Q) = Len(W)
  BY <1>3, <1>5, Listed
<1>7. \A k \in 1..Len(W) : Q[k] = [heading |-> p.heading, body |-> W[k]] /\ Q[k].body = W[k]
  BY <1>4
<1>8. Len(p.body) <= Settings[s].target => Len(Q) = 1 /\ Q[1] = p
  BY <1>1, <1>2, <1>3, <1>6, <1>7
<1>9. Len(Q) \in Nat \ {0}
  BY <1>2, <1>3, <1>6
<1>10. MinBody <= Len(p.body) => \A k \in 1..Len(Q) : MinBody <= Len(Q[k].body)
  BY <1>2, <1>3, <1>6, <1>7
<1> QED BY <1>6, <1>7, <1>8, <1>9, <1>10 DEF Q, W

\* A phrase of a text stands in it.
LEMMA PhraseWithin ==
    ASSUME NEW x \in Seq(Words), NEW n \in Nat, NEW p \in Phrases(x, n + 1)
    PROVE  p \in Seq(Words) /\ Within(p, x)
<1>1. PICK L \in Nat : L = Len(x)
  BY LenProperties
<1>2. SubSeq(x, 1, L) = x
  BY <1>1, SubSeqFull
<1>3. CASE p = x
  <2>1. 0 \in 0..(L - L) /\ 0 + 1 = 1 /\ 0 + L = L
    OBVIOUS
  <2> QED BY <1>1, <1>2, <1>3, <2>1 DEF Within
<1>4. ASSUME NEW i \in 1..(L - n), p = SubSeq(x, i, i + n) PROVE p \in Seq(Words) /\ Within(p, x)
  <2>1. 1 \in 1..L /\ L \in 1..L /\ i \in 1..L /\ i + n <= L /\ i \in Int /\ i + n \in Int
    OBVIOUS
  <2>2. Within(p, SubSeq(x, 1, L))
    BY <1>1, <1>4, <2>1, PhraseInWindow
  <2>3. \A k \in i..(i + n) : x[k] \in Words
    <3>1. ASSUME NEW k \in i..(i + n) PROVE k \in 1..L
      BY <2>1
    <3> QED BY <1>1, <3>1, ElementOfSeq
  <2>4. SubSeq(x, i, i + n) \in Seq(Words)
    BY <2>1, <2>3, SubSeqProperties
  <2> QED BY <1>2, <1>4, <2>2, <2>4
<1>5. p = x \/ \E i \in 1..(L - n) : p = SubSeq(x, i, i + n)
  BY <1>1, PhraseIs
<1> QED BY <1>3, <1>4, <1>5

\* The words of a text behind a heading.
LEMMA BehindHeading ==
    ASSUME NEW head \in Seq(Words), Len(head) = 1, NEW body \in Seq(Words), NEW L \in Nat, L = Len(body)
    PROVE  /\ \A j \in 1..L : \A k \in j..L : SubSeq(head \o body, j + 1, k + 1) = SubSeq(body, j, k)
           /\ \A k \in 1..L : SubSeq(head \o body, 1, k + 1) = head \o SubSeq(body, 1, k)
<1> DEFINE x == head \o body
<1>1. x \in Seq(Words) /\ Len(x) = L + 1
  <2>1. x \in Seq(Words) /\ Len(x) = Len(head) + Len(body)
    BY ConcatProperties
  <2>2. Len(head) + Len(body) = L + 1
    OBVIOUS
  <2> QED BY <2>1, <2>2
<1>2. ASSUME NEW j \in 1..L, NEW k \in j..L PROVE SubSeq(x, j + 1, k + 1) = SubSeq(body, j, k)
  <2>1. PICK a \in (Len(head) + 1)..(Len(head) + Len(body)), b \in (Len(head) + 1)..(Len(head) + Len(body)) :
            a = j + 1 /\ b = k + 1 /\ a - Len(head) = j /\ b - Len(head) = k
    OBVIOUS
  <2>2. SubSeq(x, a, b) = SubSeq(body, a - Len(head), b - Len(head))
    BY SubSeqOfConcat2
  <2> QED BY <2>1, <2>2
<1>3. SubSeq(x, 1, 1) = head
  <2>1. 1 \in 1..Len(head)
    OBVIOUS
  <2>2. SubSeq(x, 1, 1) = SubSeq(head, 1, 1)
    BY <2>1, SubSeqOfConcat1
  <2>3. SubSeq(head, 1, Len(head)) = head
    BY SubSeqFull
  <2> QED BY <2>2, <2>3
<1>4. ASSUME NEW k \in 1..L PROVE SubSeq(x, 1, k + 1) = head \o SubSeq(body, 1, k)
  <2>1. SubSeq(x, 1 + 1, k + 1) = SubSeq(body, 1, k)
    <3>1. 1 \in 1..L /\ k \in 1..L
      OBVIOUS
    <3> QED BY <1>2, <3>1
  <2> HIDE DEF x
  <2>2. 1 \in 1..(Len(x) + 1) /\ 1 \in (1 - 1)..Len(x) /\ k + 1 \in 1..Len(x)
    BY <1>1
  <2>3. SubSeq(x, 1, 1) \o SubSeq(x, 1 + 1, k + 1) = SubSeq(x, 1, k + 1)
    BY <1>1, <2>2, ConcatAdjacentSubSeq
  <2> QED BY <1>3, <2>1, <2>2, <2>3
<1> QED BY <1>2, <1>4

\* Each sentence of a section is whole in one of its pieces: the first one, if
\* it starts with the heading.
LEMMA SectionKept ==
    ASSUME NEW s \in Schemes, NEW sec \in Piece,
           NEW p \in Phrases(Prefixed(sec), Settings[s].overlap + 1)
    PROVE  \E k \in 1..Len(PiecesOfSection(s, sec)) : Within(p, Prefixed(PiecesOfSection(s, sec)[k]))
<1> DEFINE Q == PiecesOfSection(s, sec)
           W == Windows(s, sec.body)
           x == Prefixed(sec)
<1>1. PICK O \in Nat, T \in Nat, L \in Nat :
         O = Settings[s].overlap /\ T = Settings[s].target /\ O + 1 <= T /\ L = Len(sec.body)
  <2>1. Settings[s].overlap \in Nat /\ Settings[s].target \in Nat /\ Settings[s].overlap < Settings[s].target
    BY SettingsAssumption DEF Schemes
  <2>2. Len(sec.body) \in Nat /\ Settings[s].overlap + 1 <= Settings[s].target
    BY <2>1, PrefixedFacts
  <2> QED BY <2>1, <2>2
<1>2. sec.body \in Seq(Words) /\ x \in Seq(Words)
  BY PrefixedFacts
<1>3. /\ Len(Q) \in Nat \ {0} /\ (L <= T => Len(Q) = 1 /\ Q[1] = sec)
      /\ Len(Q) = Len(W) /\ \A k \in 1..Len(Q) : Q[k] = [heading |-> sec.heading, body |-> W[k]]
  BY <1>1, PiecesAre
<1>4. /\ W \in Seq(Seq(Words)) /\ 1 \in DOMAIN W /\ DOMAIN W = 1..Len(W)
      /\ (T < L => W[1] = SubSeq(sec.body, 1, T))
      /\ \A k \in DOMAIN W : W[k] \in Seq(Words)
  <2>1. W \in Seq(Seq(Words)) /\ 1 \in DOMAIN W /\ (T < L => W[1] = SubSeq(sec.body, 1, T))
    BY <1>1, <1>2, WindowsAre
  <2>2. DOMAIN W = 1..Len(W) /\ \A k \in 1..Len(W) : W[k] \in Seq(Words)
    BY <2>1, LenProperties, ElementOfSeq
  <2> QED BY <2>1, <2>2
<1>5. p \in Seq(Words) /\ Within(p, x)
  <2>1. p \in Phrases(x, O + 1)
    BY <1>1
  <2> QED BY <1>2, <2>1, PhraseWithin
<1>6. \A q \in Phrases(sec.body, O + 1) : \E k \in DOMAIN W : Within(q, W[k])
  BY <1>1, <1>2, WindowsKeepPhrases
<1>7. p \in Phrases(x, O + 1)
  BY <1>1
<1> HIDE DEF Q, W, x
<1>8. CASE L <= T
  <2>1. 1 \in 1..Len(Q) /\ Prefixed(Q[1]) = x
    BY <1>3, <1>8 DEF x
  <2> QED BY <1>5, <2>1 DEF Q
<1>9. CASE T < L /\ sec.heading = NoHeading
  <2>1. x = sec.body
    BY <1>9 DEF x, Prefixed
  <2>2. PICK k \in DOMAIN W : Within(p, W[k])
    BY <1>6, <1>7, <2>1
  <2>3. k \in 1..Len(Q)
    BY <1>3, <1>4
  <2>4. Q[k] = [heading |-> sec.heading, body |-> W[k]]
    BY <1>3, <2>3
  <2>5. Q[k].heading = sec.heading /\ Q[k].body = W[k]
    BY <2>4
  <2>6. Prefixed(Q[k]) = W[k]
    BY <1>9, <2>5 DEF Prefixed
  <2> QED BY <2>2, <2>3, <2>6 DEF Q
<1>10. CASE T < L /\ sec.heading # NoHeading
  <2> DEFINE head == <<sec.heading>>
  <2>1. head \in Seq(Words) /\ Len(head) = 1 /\ x = head \o sec.body
    BY <1>10, PrefixedFacts DEF x
  <2>2. ASSUME NEW k \in 1..Len(Q) PROVE Prefixed(Q[k]) = head \o W[k]
    <3>1. Q[k] = [heading |-> sec.heading, body |-> W[k]]
      BY <1>3
    <3>2. Q[k].heading = sec.heading /\ Q[k].body = W[k]
      BY <3>1
    <3> QED BY <1>10, <3>2 DEF Prefixed
  <2> HIDE DEF head
  <2>3. Len(x) = L + 1
    <3>1. Len(head \o sec.body) = Len(head) + Len(sec.body)
      BY <1>2, <2>1, ConcatProperties
    <3> QED BY <1>1, <2>1, <3>1
  <2>4. PICK i \in 1..(Len(x) - O) : p = SubSeq(x, i, i + O)
    <3>1. (p = x /\ Len(x) <= O + 1) \/ (\E i \in 1..(Len(x) - O) : p = SubSeq(x, i, i + O))
      BY <1>2, <1>7, PhraseIs
    <3>2. ~ (Len(x) <= O + 1)
      BY <1>1, <1>10, <2>3
    <3> QED BY <3>1, <3>2
  <2>5. LET y == head \o sec.body
        IN  /\ \A j \in 1..L : \A k \in j..L : SubSeq(y, j + 1, k + 1) = SubSeq(sec.body, j, k)
            /\ \A k \in 1..L : SubSeq(y, 1, k + 1) = head \o SubSeq(sec.body, 1, k)
    BY <1>1, <1>2, <2>1, BehindHeading
  <2>6. CASE i = 1
    <3>1. 1 \in 1..Len(Q) /\ Prefixed(Q[1]) = head \o SubSeq(sec.body, 1, T)
      BY <1>3, <1>4, <1>10, <2>2
    <3>2. 1 \in 1..Len(x) /\ T + 1 \in 1..Len(x) /\ 1 + O <= T + 1
      BY <1>1, <1>10, <2>3
    <3>3. Within(SubSeq(x, 1, 1 + O), SubSeq(x, 1, T + 1))
      <4>1. T + 1 \in 1..Len(x) /\ 1 \in 1..Len(x)
        BY <3>2
      <4> QED BY <1>2, <3>2, <4>1, PhraseInWindow
    <3>4. SubSeq(x, 1, T + 1) = head \o SubSeq(sec.body, 1, T)
      <4>1. T \in 1..L
        BY <1>1, <1>10
      <4> QED BY <2>1, <2>5, <4>1
    <3> QED BY <2>4, <2>6, <3>1, <3>3, <3>4 DEF Q
  <2>7. CASE i # 1
    <3>1. PICK j \in 1..(L - O) : j = i - 1 /\ i = j + 1 /\ i + O = (j + O) + 1
      BY <2>3, <2>7
    <3>2. SubSeq(x, i, i + O) = SubSeq(sec.body, j, j + O)
      <4>1. PICK k \in j..L : k = j + O /\ i + O = k + 1
        BY <3>1
      <4>2. SubSeq(x, j + 1, k + 1) = SubSeq(sec.body, j, k)
        <5>1. j \in 1..L
          OBVIOUS
        <5> QED BY <2>1, <2>5, <5>1
      <4> QED BY <3>1, <4>1, <4>2
    <3>3. p \in Phrases(sec.body, O + 1)
      <4>1. ~ (Len(sec.body) <= O + 1)
        BY <1>1, <1>10
      <4>2. j \in 1..(L - (O + 1) + 1) /\ j + (O + 1) - 1 = j + O
        OBVIOUS
      <4>4. j \in 1..(Len(sec.body) - (O + 1) + 1)
        BY <1>1, <4>2
      <4>3. p = SubSeq(sec.body, j, j + (O + 1) - 1)
        BY <2>4, <3>2, <4>2
      <4> QED BY <4>1, <4>3, <4>4 DEF Phrases
    <3>4. PICK k \in DOMAIN W : Within(p, W[k])
      BY <1>6, <3>3
    <3>5. Within(p, head \o W[k])
      BY <1>4, <1>5, <2>1, <3>4, WithinMore
    <3> QED BY <1>3, <1>4, <2>2, <3>4, <3>5 DEF Q
  <2> QED BY <2>6, <2>7
<1> QED BY <1>1, <1>8, <1>9, <1>10

\* The sections of a document are sections, and an empty document has none.
LEMMA SectionsAre ==
    ASSUME NEW d \in Seq(Piece)
    PROVE  Sections(d) \in Seq(Piece) /\ (d = <<>> => Sections(d) = <<>>)
<1> DEFINE headed == {i \in DOMAIN d : d[i].heading # NoHeading}
           texts == [i \in DOMAIN d |-> Prefixed(d[i])]
           parts == [i \in DOMAIN d |-> IF d[i].body = <<>> THEN <<>> ELSE <<d[i]>>]
<1>1. PICK n \in Nat : n = Len(d) /\ DOMAIN d = 1..n /\ \A i \in 1..n : d[i] \in Piece
  BY LenProperties, ElementOfSeq
<1>2. texts \in Seq(Seq(Words))
  <2>1. \A i \in 1..n : Prefixed(d[i]) \in Seq(Words)
    BY <1>1, PrefixedFacts
  <2>2. texts \in [1..n -> Seq(Words)]
    BY <1>1, <2>1
  <2> HIDE DEF texts
  <2> QED BY <2>2, Listed
<1>3. parts \in Seq(Seq(Piece)) /\ Len(parts) = n
  <2>1. \A i \in 1..n : (IF d[i].body = <<>> THEN <<>> ELSE <<d[i]>>) \in Seq(Piece)
    BY <1>1
  <2>2. parts \in [1..n -> Seq(Piece)]
    BY <1>1, <2>1
  <2> HIDE DEF parts
  <2> QED BY <2>2, Listed
<1>4. Sections(d) = IF Cardinality(headed) = 1 /\ d[Len(d)].body = <<>>
                    THEN << [heading |-> NoHeading, body |-> FlattenSeq(texts)] >>
                    ELSE FlattenSeq(parts)
  BY DEF Sections
<1>5. d = <<>> => headed = {}
  BY <1>1
<1>6. Cardinality({}) = 0
  BY FS_EmptySet
<1> HIDE DEF headed, texts, parts
<1>7. FlattenSeq(texts) \in Seq(Words) /\ FlattenSeq(parts) \in Seq(Piece)
  BY <1>2, <1>3, FlattenHolds
<1>8. << [heading |-> NoHeading, body |-> FlattenSeq(texts)] >> \in Seq(Piece)
  BY <1>7 DEF Piece
<1>9. d = <<>> => Sections(d) = <<>>
  <2> SUFFICES ASSUME d = <<>> PROVE Sections(d) = <<>>
    OBVIOUS
  <2>1. headed = {}
    BY <1>5
  <2>5. Cardinality(headed) = 0
    BY <1>6, <2>1, Zenon
  <2>4. Sections(d) = FlattenSeq(parts)
    BY <1>4, <2>5
  <2>2. Len(parts) = 0
    BY <1>1, <1>3
  <2>3. parts = <<>>
    BY <1>3, <2>2, EmptySeq
  <2> QED BY <2>2, <2>3, <2>4 DEF FlattenSeq
<1> QED BY <1>4, <1>7, <1>8, <1>9

\* Some chunk above the floor holds w.
Kept(chunks, w) == \E i \in DOMAIN chunks : /\ MinBody <= Len(Prefixed(chunks[i]))
                                            /\ Within(w, Prefixed(chunks[i]))

\* What is kept stays kept as pieces are merged; what a piece above the floor
\* holds is kept, and what a runt behind one holds.
LEMMA MergeKeeps ==
    ASSUME NEW merged \in Seq(Piece), NEW q \in Piece, NEW w \in Seq(Words)
    PROVE  /\ Kept(merged, w) => Kept(Merge(merged, q), w)
           /\ MinBody <= Len(q.body) =>
                 /\ Last(Merge(merged, q)) = q
                 /\ Within(w, Prefixed(q)) => Kept(Merge(merged, q), w)
           /\ /\ merged # <<>> /\ MinBody <= Len(Last(merged).body)
              /\ Len(q.body) < MinTokens /\ Within(w, Prefixed(q))
              => Kept(Merge(merged, q), w)
<1> DEFINE M == Merge(merged, q)
<1>1. PICK B \in Nat, R \in Nat, n \in Nat, L \in Nat :
         /\ B = MinBody /\ R = MinTokens /\ R <= B /\ n = Len(merged) /\ L = Len(q.body)
  BY SettingsAssumption, SchemeAssumption, LenProperties, PrefixedFacts DEF Schemes
<1>2. /\ M \in Seq(Piece) /\ M # <<>>
      /\ Len(M) = IF merged # <<>> /\ L < R THEN n ELSE n + 1
      /\ Within(w, Prefixed(q)) => Within(w, Prefixed(Last(M)))
      /\ \A i \in DOMAIN merged :
            /\ i \in DOMAIN M /\ Len(Prefixed(merged[i])) <= Len(Prefixed(M[i]))
            /\ Within(w, Prefixed(merged[i])) => Within(w, Prefixed(M[i]))
  BY <1>1, MergeKeepsWords
<1>3. /\ DOMAIN M = 1..Len(M) /\ DOMAIN merged = 1..n
      /\ \A i \in DOMAIN M : M[i] \in Piece /\ Len(Prefixed(M[i])) \in Nat
      /\ \A i \in DOMAIN merged : merged[i] \in Piece /\ Len(Prefixed(merged[i])) \in Nat
  BY <1>1, <1>2, LenProperties, ElementOfSeq, PrefixedFacts
<1>4. Len(M) \in Nat \ {0} /\ Len(M) \in DOMAIN M
  BY <1>2, <1>3, EmptySeq
<1>5. Kept(merged, w) => Kept(M, w)
  <2> SUFFICES ASSUME Kept(merged, w) PROVE Kept(M, w)
    OBVIOUS
  <2>1. PICK i \in DOMAIN merged : B <= Len(Prefixed(merged[i])) /\ Within(w, Prefixed(merged[i]))
    BY <1>1 DEF Kept
  <2>2. i \in DOMAIN M /\ Within(w, Prefixed(M[i])) /\ Len(Prefixed(merged[i])) <= Len(Prefixed(M[i]))
    BY <1>2, <2>1
  <2>3. B <= Len(Prefixed(M[i]))
    BY <1>3, <2>1, <2>2
  <2> QED BY <1>1, <2>2, <2>3 DEF Kept
<1>6. ASSUME B <= Len(Prefixed(Last(M))), Within(w, Prefixed(q)) PROVE Kept(M, w)
  BY <1>1, <1>2, <1>4, <1>6 DEF Kept, Last
<1>7. B <= L => Last(M) = q
  <2> SUFFICES ASSUME B <= L PROVE Last(M) = q
    OBVIOUS
  <2>1. ~ (L < R)
    BY <1>1
  <2>2. M = Append(merged, q)
    BY <1>1, <2>1 DEF Merge
  <2> HIDE DEF M
  <2>3. M[n + 1] = q /\ Len(M) = n + 1
    BY <1>1, <2>2, AppendProperties
  <2> QED BY <2>3 DEF Last
<1>8. B <= L /\ Within(w, Prefixed(q)) => Kept(M, w)
  <2>1. L <= Len(Prefixed(q)) /\ Len(Prefixed(q)) \in Nat
    BY <1>1, PrefixedFacts
  <2>2. B <= L => B <= Len(Prefixed(q))
    BY <2>1
  <2> QED BY <1>6, <1>7, <2>2
<1>9. /\ merged # <<>> /\ B <= Len(Last(merged).body) /\ L < R /\ Within(w, Prefixed(q))
      => Kept(M, w)
  <2> SUFFICES ASSUME merged # <<>>, B <= Len(Last(merged).body), L < R, Within(w, Prefixed(q))
               PROVE  Kept(M, w)
    OBVIOUS
  <2>1. Len(M) = n
    BY <1>2
  <2>2. n \in DOMAIN merged
    BY <1>3, <1>4, <2>1
  <2>3. merged[n] \in Piece /\ merged[n] = Last(merged)
    BY <1>1, <1>3, <2>2 DEF Last
  <2>4. Len(merged[n].body) \in Nat /\ Len(merged[n].body) <= Len(Prefixed(merged[n]))
        /\ Len(Prefixed(merged[n])) \in Nat
    BY <2>3, PrefixedFacts
  <2>5. Len(Prefixed(merged[n])) <= Len(Prefixed(M[n])) /\ Len(Prefixed(M[n])) \in Nat
    BY <1>2, <1>3, <2>2
  <2>6. B <= Len(Prefixed(M[n]))
    BY <2>3, <2>4, <2>5
  <2>7. M[n] = Last(M)
    BY <2>1 DEF Last
  <2> QED BY <1>6, <2>6, <2>7
<1> QED BY <1>1, <1>5, <1>7, <1>8, <1>9

\* Every sentence of a document is kept.
LEMMA ChunksKeep ==
    ASSUME NEW s \in Schemes, NEW d \in Seq(Piece), NEW p \in Sentences(s, d)
    PROVE  Kept(Chunks(s, d), p)
<1> DEFINE secs == Sections(d)
           parts == [i \in DOMAIN secs |-> PiecesOfSection(s, secs[i])]
           P == FlattenSeq(parts)
<1>1. PICK O \in Nat, T \in Nat, B \in Nat, R \in Nat :
         /\ O = Settings[s].overlap /\ T = Settings[s].target /\ B = MinBody /\ R = MinTokens
         /\ R <= B /\ B <= O /\ O < T
  BY SettingsAssumption DEF Schemes
<1>2. PICK m \in Nat : /\ secs \in Seq(Piece) /\ m = Len(secs) /\ DOMAIN secs = 1..m
                       /\ \A i \in 1..m : secs[i] \in Piece /\ Len(secs[i].body) \in Nat
                       /\ d = <<>> => m = 0
  <2>1. secs \in Seq(Piece) /\ (d = <<>> => secs = <<>>)
    BY SectionsAre
  <2> HIDE DEF secs
  <2>2. Len(secs) \in Nat /\ DOMAIN secs = 1..Len(secs) /\ \A i \in 1..Len(secs) : secs[i] \in Piece
    BY <2>1, LenProperties, ElementOfSeq
  <2>3. \A i \in 1..Len(secs) : Len(secs[i].body) \in Nat
    BY <2>2, PrefixedFacts
  <2>4. d = <<>> => Len(secs) = 0
    BY <2>1
  <2> QED BY <2>1, <2>2, <2>3, <2>4
<1>3. PICK j \in 1..m : /\ p \in Phrases(Prefixed(secs[j]), O + 1)
                        /\ \/ B <= Len(secs[j].body)
                           \/ j > 1 /\ Len(secs[j].body) < R /\ B <= Len(secs[j - 1].body)
  <2>1. PICK x \in Said(d) : p \in Phrases(x, O + 1)
    BY <1>1 DEF Sentences
  <2>2. PICK j \in DOMAIN secs : /\ x = Prefixed(secs[j])
                                 /\ \/ Len(secs[j].body) >= B
                                    \/ j > 1 /\ Len(secs[j].body) < R /\ Len(secs[j - 1].body) >= B
    BY <1>1 DEF Said
  <2> HIDE DEF secs
  <2>3. j \in 1..m /\ (j > 1 => j - 1 \in 1..m)
    BY <1>2, <2>2
  <2>4. Len(secs[j].body) \in Nat /\ (j > 1 => Len(secs[j - 1].body) \in Nat)
    BY <1>2, <2>3
  <2> QED BY <2>1, <2>2, <2>3, <2>4
<1>4. Chunks(s, d) = Merged(P)
  <2>1. d # <<>>
    BY <1>2, <1>3
  <2> QED BY <2>1 DEF Chunks, ChunkDocument
<1> HIDE DEF secs
<1>5. /\ parts \in Seq(Seq(Piece)) /\ Len(parts) = m
      /\ \A i \in 1..m : parts[i] = PiecesOfSection(s, secs[i])
  <2>1. \A i \in 1..m : PiecesOfSection(s, secs[i]) \in Seq(Piece)
    BY <1>2, PiecesAre
  <2>2. parts \in [1..m -> Seq(Piece)] /\ \A i \in 1..m : parts[i] = PiecesOfSection(s, secs[i])
    BY <1>2, <2>1
  <2> HIDE DEF parts
  <2> QED BY <2>2, Listed
<1> HIDE DEF parts
<1>6. P \in Seq(Piece) /\ \E base : Laid(base, parts, P)
  BY <1>5, FlattenHolds
<1> HIDE DEF P
<1>7. PICK base \in [0..m -> Nat] : \A i \in 1..m :
            /\ base[i] = base[i - 1] + Len(parts[i])
            /\ \A q \in 1..Len(parts[i]) : base[i - 1] + q \in DOMAIN P /\ P[base[i - 1] + q] = parts[i][q]
  BY <1>5, <1>6 DEF Laid
<1>8. PICK n \in Nat : n = Len(P) /\ DOMAIN P = 1..n /\ \A r \in 1..n : P[r] \in Piece
  BY <1>6, LenProperties, ElementOfSeq
<1>9. PICK u \in [0..n -> Seq(Piece)] : /\ \A r \in 1..n : u[r] = Merge(u[r - 1], P[r])
                                        /\ Merged(P) = u[n]
  BY <1>6, <1>8, MergedIs
<1>10. \A r \in 1..n : u[r - 1] \in Seq(Piece) /\ u[r] \in Seq(Piece)
  <2>1. \A r \in 1..n : r - 1 \in 0..n /\ r \in 0..n
    OBVIOUS
  <2> QED BY <1>9, <2>1
<1>11. p \in Seq(Words)
  <2>1. Prefixed(secs[j]) \in Seq(Words)
    BY <1>2, PrefixedFacts
  <2> QED BY <1>3, <2>1, PhraseWithin
<1>12. ASSUME NEW r \in 1..n, Kept(u[r], p) PROVE Kept(Chunks(s, d), p)
  <2> DEFINE S == {k \in Nat : r + k <= n => Kept(u[r + k], p)}
  <2>1. 0 \in S
    BY <1>12
  <2>2. ASSUME NEW k \in Nat, k \in S PROVE k + 1 \in S
    <3> SUFFICES ASSUME r + (k + 1) <= n PROVE Kept(u[r + (k + 1)], p)
      OBVIOUS
    <3>1. PICK a \in 1..n : a = r + (k + 1) /\ a - 1 = r + k /\ r + k <= n
      OBVIOUS
    <3>2. Kept(u[a - 1], p)
      BY <2>2, <3>1
    <3>3. Kept(Merge(u[a - 1], P[a]), p)
      BY <1>8, <1>10, <1>11, <3>2, MergeKeeps
    <3> QED BY <1>9, <3>1, <3>3
  <2> HIDE DEF S
  <2>3. Nat \subseteq S
    BY <2>1, <2>2, CountUp
  <2>4. n - r \in Nat /\ r + (n - r) = n /\ n <= n
    OBVIOUS
  <2>5. n - r \in S
    BY <2>3, <2>4
  <2>6. Kept(u[n], p)
    BY <2>4, <2>5 DEF S
  <2> QED BY <1>4, <1>9, <2>6
<1>13. CASE B <= Len(secs[j].body)
  <2>1. PICK k \in 1..Len(parts[j]) : Within(p, Prefixed(parts[j][k]))
    BY <1>1, <1>2, <1>3, <1>5, SectionKept
  <2>2. MinBody <= Len(parts[j][k].body)
    <3>1. secs[j] \in Piece /\ MinBody <= Len(secs[j].body)
      BY <1>1, <1>2, <1>13
    <3>2. \A q \in 1..Len(PiecesOfSection(s, secs[j])) : MinBody <= Len(PiecesOfSection(s, secs[j])[q].body)
      BY <3>1, PiecesAre
    <3> QED BY <1>5, <3>2
  <2>3. PICK r \in 1..n : P[r] = parts[j][k]
    BY <1>7, <1>8
  <2>4. Kept(Merge(u[r - 1], P[r]), p)
    BY <1>8, <1>10, <1>11, <2>1, <2>2, <2>3, MergeKeeps
  <2> QED BY <1>9, <1>12, <2>4
<1>14. CASE j > 1 /\ Len(secs[j].body) < R /\ B <= Len(secs[j - 1].body)
  <2>1. PICK i \in 1..m : i = j - 1 /\ j = i + 1
    BY <1>14
  <2>2. parts[j] = PiecesOfSection(s, secs[j]) /\ Len(parts[j]) = 1 /\ parts[j][1] = secs[j]
    <3>1. Len(secs[j].body) <= T
      <4>1. PICK L \in Nat : L = Len(secs[j].body)
        BY <1>2
      <4>2. L < R
        BY <1>14, <4>1
      <4>3. L <= T
        BY <1>1, <4>2
      <4> QED BY <4>1, <4>3
    <3>2. secs[j] \in Piece /\ Len(secs[j].body) <= Settings[s].target
      BY <1>1, <1>2, <3>1
    <3>3. Len(PiecesOfSection(s, secs[j])) = 1 /\ PiecesOfSection(s, secs[j])[1] = secs[j]
      BY <3>2, PiecesAre
    <3> QED BY <1>5, <3>3
  <2>3. PICK l \in Nat \ {0} : l = Len(parts[i]) /\ MinBody <= Len(parts[i][l].body)
    <3>1. /\ Len(PiecesOfSection(s, secs[i])) \in Nat \ {0}
          /\ \A k \in 1..Len(PiecesOfSection(s, secs[i])) : MinBody <= Len(PiecesOfSection(s, secs[i])[k].body)
      BY <1>1, <1>2, <1>14, <2>1, PiecesAre
    <3>2. PICK l \in Nat \ {0} : l = Len(PiecesOfSection(s, secs[i]))
      BY <3>1
    <3>3. l \in 1..l
      OBVIOUS
    <3> QED BY <1>5, <3>1, <3>2, <3>3
  <2>4. PICK r \in 1..n : r = base[i - 1] + l /\ r = base[i] /\ P[r] = parts[i][l]
    <3>1. l \in 1..l
      OBVIOUS
    <3>2. l \in 1..Len(parts[i])
      BY <2>3, <3>1
    <3>3. base[i - 1] + l \in DOMAIN P /\ P[base[i - 1] + l] = parts[i][l] /\ base[i] = base[i - 1] + l
      BY <1>7, <2>3, <3>2
    <3> QED BY <1>8, <3>3
  <2>5. r + 1 \in 1..n /\ P[r + 1] = secs[j]
    <3>1. 1 \in 1..Len(parts[j]) /\ j - 1 = i
      BY <2>1, <2>2
    <3> QED BY <1>7, <1>8, <2>2, <2>4, <3>1
  <2>6. u[r] # <<>> /\ Last(u[r]) = P[r]
    <3>1. MinBody <= Len(P[r].body)
      BY <2>3, <2>4
    <3>2. u[r - 1] \in Seq(Piece) /\ P[r] \in Piece
      BY <1>8, <1>10
    <3>3. Last(Merge(u[r - 1], P[r])) = P[r]
      BY <1>11, <3>1, <3>2, MergeKeeps
    <3>4. Merge(u[r - 1], P[r]) # <<>>
      BY <1>11, <3>2, MergeKeepsWords
    <3> QED BY <1>9, <3>3, <3>4
  <2>7. Within(p, Prefixed(secs[j]))
    <3>1. Prefixed(secs[j]) \in Seq(Words)
      BY <1>2, PrefixedFacts
    <3> QED BY <1>3, <3>1, PhraseWithin
  <2>8. Kept(Merge(u[r], P[r + 1]), p)
    <3>1. MinBody <= Len(Last(u[r]).body) /\ Len(P[r + 1].body) < MinTokens
      BY <1>1, <1>14, <2>3, <2>4, <2>5, <2>6
    <3>2. u[r] \in Seq(Piece) /\ P[r + 1] \in Piece
      BY <1>8, <1>10, <2>5
    <3> QED BY <1>11, <2>5, <2>6, <2>7, <3>1, <3>2, MergeKeeps
  <2>9. (r + 1) - 1 = r
    OBVIOUS
  <2>10. u[r + 1] = Merge(u[r], P[r + 1])
    BY <1>9, <2>5, <2>9
  <2> QED BY <1>12, <2>5, <2>8, <2>10
<1> QED BY <1>3, <1>13, <1>14

\* The chunks of a document are pieces.
LEMMA ChunksAre ==
    ASSUME NEW s \in Schemes, NEW d \in Seq(Piece)
    PROVE  Chunks(s, d) \in Seq(Piece)
<1> DEFINE secs == Sections(d)
           parts == [i \in DOMAIN secs |-> PiecesOfSection(s, secs[i])]
<1>1. CASE d = <<>>
  <2>1. [heading |-> NoHeading, body |-> <<>>] \in Piece
    BY DEF Piece
  <2> QED BY <1>1, <2>1 DEF Chunks
<1>2. CASE d # <<>>
  <2>1. secs \in Seq(Piece)
    BY SectionsAre
  <2>2. Chunks(s, d) = Merged(FlattenSeq(parts))
    BY <1>2 DEF Chunks, ChunkDocument
  <2> HIDE DEF secs
  <2>3. PICK m \in Nat : m = Len(secs) /\ DOMAIN secs = 1..m /\ \A i \in 1..m : secs[i] \in Piece
    BY <2>1, LenProperties, ElementOfSeq
  <2>4. parts \in [1..m -> Seq(Piece)]
    <3>1. \A i \in 1..m : PiecesOfSection(s, secs[i]) \in Seq(Piece)
      BY <2>3, PiecesAre
    <3> QED BY <2>3, <3>1
  <2> HIDE DEF parts
  <2>5. parts \in Seq(Seq(Piece))
    BY <2>4, Listed
  <2>6. PICK P \in Seq(Piece) : P = FlattenSeq(parts)
    BY <2>5, FlattenHolds
  <2>7. PICK n \in Nat : n = Len(P)
    BY LenProperties
  <2>8. PICK u \in [0..n -> Seq(Piece)] : Merged(P) = u[n]
    BY <2>7, MergedIs
  <2>9. n \in 0..n
    OBVIOUS
  <2> QED BY <2>2, <2>6, <2>8, <2>9
<1> QED BY <1>1, <1>2

\* Every sentence of a document that an entity may have stands in a chunk that
\* curation keeps: it straddles no boundary of two windows, and neither a runt
\* that joins the piece before it nor the floor takes it away (chunk_document
\* of chunking.py and is_substantive_chunk of corpus_filters.py).
THEOREM CutsKeepSentences ==
    ASSUME NEW e \in Entities, NEW s \in Schemes, NEW t \in {v.text : v \in Versions[e]},
           NEW p \in Sentences(s, Bodies[t])
    PROVE  \E i \in Pieces(e, s, t) : Within(p, Prefixed(Cuts[s][t][i + 1]))
<1>1. t \in Texts /\ Bodies[t] \in Seq(Piece)
  BY BodiesAssumption DEF Texts
<1>2. Cuts[s][t] = Chunks(s, Bodies[t])
  BY <1>1 DEF Cuts
<1>3. PICK C : C = Cuts[s][t]
  OBVIOUS
<1>4. Kept(C, p)
  BY <1>1, <1>2, <1>3, ChunksKeep
<1>5. PICK i \in DOMAIN C : MinBody <= Len(Prefixed(C[i])) /\ Within(p, Prefixed(C[i]))
  BY <1>4 DEF Kept
<1>6. C \in Seq(Piece)
  BY <1>1, <1>2, <1>3, ChunksAre
<1>7. i \in Nat /\ C[i] \in Piece /\ Len(Prefixed(C[i])) \in Nat
  <2>1. DOMAIN C = 1..Len(C) /\ Len(C) \in Nat
    BY <1>6, LenProperties
  <2>2. i \in 1..Len(C)
    BY <2>1
  <2> QED BY <1>6, <2>1, <2>2, ElementOfSeq, PrefixedFacts
<1>8. MinBody \in Nat /\ 0 < MinBody
  BY SettingsAssumption DEF Schemes
<1>9. \A proposal \in BOOLEAN : i \in Substantive(C, proposal)
  BY <1>5, <1>7, <1>8 DEF Substantive, IsSubstantive
<1>10. i - 1 \in Pieces(e, s, t)
  BY <1>1, <1>3, <1>9 DEF Pieces, PieceTable
<1>11. (i - 1) + 1 = i
  BY <1>7
<1> QED BY <1>3, <1>5, <1>10, <1>11

\* The loaders store every sentence: when complete runs have covered what is
\* current, every sentence of the current texts is in a stored chunk, however
\* many loaders crash, overlap or run beside a prune.
THEOREM SentencesAreStored == Spec => []EverySentenceStored
<1>1. IInv => EverySentenceStored
  <2> SUFFICES ASSUME IInv, Keys(Produced(scheme)) \subseteq settled,
                      NEW r \in Curated, NEW p \in Sentences(scheme, Bodies[r.text])
               PROVE  \E i \in Pieces(r.entity, scheme, r.text) :
                         /\ <<r.text, IndexOf(r.entity, i), scheme>> \in Keys(rows)
                         /\ Within(p, Prefixed(Cuts[scheme][r.text][i + 1]))
    BY DEF EverySentenceStored
  <2>1. IsRecord(r) /\ scheme \in Schemes
    BY DEF IInv, SilverOK, Curated, Current
  <2>2. PICK i \in Pieces(r.entity, scheme, r.text) : Within(p, Prefixed(Cuts[scheme][r.text][i + 1]))
    BY <2>1, CutsKeepSentences DEF IsRecord
  <2>3. Chunk(r.entity, r, i, scheme) \in Produced(scheme)
    BY <2>2 DEF Produced
  <2>4. Key(Chunk(r.entity, r, i, scheme)) = <<r.text, IndexOf(r.entity, i), scheme>>
    BY DEF Key, Chunk
  <2>5. <<r.text, IndexOf(r.entity, i), scheme>> \in Keys(rows)
    BY <2>3, <2>4 DEF Keys, IInv, SettledIsStored
  <2> QED BY <2>2, <2>5
<1> QED BY <1>1, Inductive, PTL
=============================================================================
