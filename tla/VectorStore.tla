----------------------------- MODULE VectorStore -----------------------------
(***************************************************************************)
(* The embeddings table and the programs that change it:                   *)
(*   ai_agent/chains/embeddings.py    the loader, which pays for vectors   *)
(*   scripts prune_corpus.py          deletes what curation excludes       *)
(*   backfill_citation_metadata.py    rewrites titles                      *)
(* over the silver tables, of which the loader reads the current rows.     *)
(*                                                                         *)
(* A silver row is a record of an entity (a proposal or a post): its text  *)
(* stands for content_hash.  A proposal's title is part of its text; a     *)
(* post's title is its topic's and is not.  Chunks are cut as in Chunking. *)
(***************************************************************************)
EXTENDS Chunking, FiniteSets

CONSTANTS Entities,     \* proposals and posts
          Posts,        \* the posts among them
          DocumentOf,   \* document_id: a proposal itself, the topic of a post
          PostId,       \* PostId[e] for the posts
          Spread,       \* the numbers set aside for the chunks of a post: 100
          Versions,     \* Versions[e]: the [text, title] e may have
          Boilerplate,  \* the titles is_boilerplate_topic matches
          Bodies,       \* Bodies[t]: the document that text t stands for
          Wide,         \* the titles and headings wider than their columns
          Loaders,      \* concurrent runs of the loader
          MaxBatch,     \* inputs in one embeddings request
          MaxRecords,   \* bound: silver records
          MaxWaste      \* bound: vectors lost or deleted

ASSUME PostAssumption == Posts \subseteq Entities
ASSUME PostIdAssumption == /\ IsInjective([e \in Posts |-> PostId[e]])
                           /\ \A e \in Posts : PostId[e] \in Nat
ASSUME DocumentAssumption == \A e \in Entities \ Posts, f \in Entities :
                                 DocumentOf[e] = DocumentOf[f] => e = f
ASSUME BatchAssumption == MaxBatch \in Nat \ {0}
ASSUME SchemeAssumption == 1 \in Schemes

VARIABLES silver,   \* the SCD2 rows
          clock,    \* the newest record
          rows,     \* document_embeddings
          scheme,   \* CHUNK_SCHEME of the deployed code
          run,      \* the state of each loader
          prune,    \* the state of prune_corpus.py
          \* Observers, for each chunk ever produced:
          paid,     \* how often a vector was paid for
          excused,  \* how often one was lost on the way, or deleted
          settled   \* the keys complete runs have covered, and nothing deleted

table == <<silver, clock>>
money == <<paid, excused>>
vars  == <<silver, clock, rows, scheme, run, prune, paid, excused, settled>>

Open    == 0   \* valid_to IS NULL
Texts   == UNION {{v.text : v \in Versions[e]} : e \in Entities}
Titles  == UNION {{v.title : v \in Versions[e]} : e \in Entities}

ASSUME BodiesAssumption == \A t \in Texts : Bodies[t] \in Seq(Piece)

-----------------------------------------------------------------------------
(* Chunks. *)

\* forum_chunk_index: a post's chunks are numbered apart from those of the
\* other posts of its topic, a proposal's from 0.
ForumChunkIndex(post, i) == PostId[post] * Spread + i

\* Faulty variant: a post's chunks are numbered from 0.
LocalIndex(e, i) == i

IndexOf(e, i) == IF e \in Posts THEN ForumChunkIndex(e, i) ELSE i

Cuts == [s \in Schemes |-> [t \in Texts |-> Chunks(s, Bodies[t])]]

Chunk(e, r, i, s) == [doc |-> DocumentOf[e], hash |-> r.text, index |-> IndexOf(e, i),
                      scheme |-> s, heading |-> Cuts[s][r.text][i + 1].heading,
                      title |-> r.title, from |-> r.from, to |-> r.to]

\* The chunk_index of the chunks of e, by scheme, that curation keeps.
PieceTable == [s \in Schemes |-> [t \in Texts |-> [proposal \in BOOLEAN |->
                  {i - 1 : i \in Substantive(Cuts[s][t], proposal)}]]]
Pieces(e, s, t) == PieceTable[s][t][e \notin Posts]

\* "No real post is chunked into anywhere near 100 pieces."
ASSUME SpreadAssumption ==
    /\ Spread \in Nat
    /\ \A e \in Posts, s \in Schemes : \A t \in {v.text : v \in Versions[e]} :
          DOMAIN Cuts[s][t] \subseteq 1..Spread

\* The unique constraint; what prune compares; the identity bills are kept by.
Key(c) == <<c.hash, c.index, c.scheme>>
Id(c)  == <<c.doc, c.hash, c.index, c.scheme>>
Keys(C) == {Key(c) : c \in C}
Ids(C)  == {Id(c) : c \in C}

AllIds == UNION {UNION {{<<DocumentOf[e], v.text, IndexOf(e, i), s>> : i \in Pieces(e, s, v.text)} :
                            v \in Versions[e]} :
                    e \in Entities, s \in Schemes}

\* load_silver_chunks: the substantive pieces of the current documents, posts
\* of boilerplate topics left out.
Current == {r \in silver : r.to = Open}
Curated == {r \in Current : r.entity \in Posts => r.title \notin Boilerplate}
Produced(s) == UNION {{Chunk(r.entity, r, i, s) : i \in Pieces(r.entity, s, r.text)} : r \in Curated}

Keyed(R) == \A q, r \in R : Key(q) = Key(r) => q = r

-----------------------------------------------------------------------------

\* (deleted is an observer: the keys pruned while the run went on.)
Idle == [pc |-> "idle", pending |-> {}, todo |-> {}, batch |-> {}, deleted |-> {}]
PruneIdle == [pc |-> "idle", titles |-> {}, keep |-> {}, scheme |-> 1]

Init ==
    /\ silver = {} /\ clock = 0
    /\ rows = {} /\ scheme = 1
    /\ run = [l \in Loaders |-> Idle]
    /\ prune = PruneIdle
    /\ paid = [c \in AllIds |-> 0] /\ excused = [c \in AllIds |-> 0]
    /\ settled = {}

Become(l, r) == run' = [run EXCEPT ![l] = r]
More(f, C)   == [c \in AllIds |-> IF c \in C THEN f[c] + 1 ELSE f[c]]
MayWaste(C)  == FoldFunction(+, 0, excused) + Cardinality(C) <= MaxWaste

\* A build of silver brings a record of e: new, edited, or voted on.
Record(e, v) ==
    /\ clock < MaxRecords
    /\ clock' = clock + 1
    /\ silver' = {IF r.entity = e /\ r.to = Open THEN [r EXCEPT !.to = clock + 1] ELSE r :
                     r \in silver}
                   \cup {[entity |-> e, text |-> v.text, title |-> v.title,
                          from |-> clock + 1, to |-> Open]}
    /\ UNCHANGED <<rows, scheme, run, prune, money, settled>>

\* The chunker changes, or is reverted.
Deploy(s) ==
    /\ s # scheme /\ \A l \in Loaders : run[l].pc \in {"idle", "done"}
    /\ prune.pc = "idle"
    /\ scheme' = s
    /\ UNCHANGED <<table, rows, run, prune, money, settled>>

Load(l) ==
    /\ run[l].pc \in {"idle", "done"}
    /\ Become(l, [Idle EXCEPT !.pc = "filter", !.pending = Produced(scheme)])
    /\ UNCHANGED <<table, rows, scheme, prune, money, settled>>

\* A run that has nothing left is complete.
Done == [Idle EXCEPT !.pc = "done"]
Settles(l, left) ==
    settled' = IF left = {} THEN settled \cup (Keys(run[l].pending) \ run[l].deleted)
                            ELSE settled

\* Faulty variants: a skip check without the chunk index; one without the
\* chunk scheme; none at all.
KnownByHash(C)    == {c \in C : c.hash \in {r.hash : r \in rows}}
KnownAnyScheme(C) == {c \in C : \E r \in rows : r.hash = c.hash /\ r.index = c.index}
KnownNever(C)     == {}

\* filter_already_embedded
Known(C) == {c \in C : Key(c) \in Keys(rows)}

Filter(l) ==
    /\ run[l].pc = "filter"
    /\ LET left == run[l].pending \ Known(run[l].pending)
       IN  /\ Become(l, IF left = {} THEN Done
                                    ELSE [run[l] EXCEPT !.pc = "next", !.todo = left])
           /\ Settles(l, left)
    /\ UNCHANGED <<table, rows, scheme, prune, money>>

\* batches: as many chunks as the input and token limits allow.
Batches(C) == {B \in SUBSET C : B # {} /\ Cardinality(B) <= MaxBatch}

\* embed_batch: the request is billed, and answered with the vectors.
Embed(l) ==
    /\ run[l].pc = "next"
    /\ \E B \in Batches(run[l].todo) :
        /\ Become(l, [run[l] EXCEPT !.pc = "insert", !.batch = B])
        /\ paid' = More(paid, Ids(B))
    /\ UNCHANGED <<table, rows, scheme, prune, excused, settled>>

\* The request is billed but the answer is lost; the HTTP client tries again.
AnswerLost(l) ==
    /\ run[l].pc = "next"
    /\ \E B \in Batches(run[l].todo) :
        /\ MayWaste(Ids(B))
        /\ paid' = More(paid, Ids(B)) /\ excused' = More(excused, Ids(B))
    /\ UNCHANGED <<table, rows, scheme, run, prune, settled>>

\* A value too long for its VARCHAR raises, whatever is stored already.
Fits(c) == c.heading \notin Wide /\ c.title \notin Wide

\* INSERT ... ON CONFLICT DO NOTHING of chunks C: one row for each new key.
Inserts(C) == \E I \in SUBSET C : /\ rows' = rows \cup I /\ Keyed(rows')
                                  /\ Keys(C) \subseteq Keys(rows')

Insert(l) ==
    /\ run[l].pc = "insert" /\ \A c \in run[l].batch : Fits(c)
    /\ Inserts(run[l].batch)
    /\ LET left == run[l].todo \ run[l].batch
       IN  /\ Become(l, IF left = {} THEN Done
                        ELSE [run[l] EXCEPT !.pc = "next", !.todo = left, !.batch = {}])
           /\ Settles(l, left)
    /\ UNCHANGED <<table, scheme, prune, money>>

\* The loader dies: of an insert that raises, for example.  Of the batch in hand any
\* part that fits may have been inserted.
Crash(l) ==
    /\ run[l].pc \notin {"idle", "done"}
    /\ Become(l, Idle)
    /\ \E C \in SUBSET {c \in run[l].batch : Fits(c)} :
        /\ Inserts(C)
        /\ LET lost == {c \in run[l].batch : Key(c) \notin Keys(rows')}
           IN  MayWaste(Ids(lost)) /\ excused' = More(excused, Ids(lost))
    /\ UNCHANGED <<table, scheme, prune, paid, settled>>

-----------------------------------------------------------------------------
(* prune_corpus.py --apply and backfill_citation_metadata.py *)

\* The boilerplate titles stored, then what the loader would produce.
PruneLoad ==
    /\ prune.pc = "idle"
    /\ prune' = [pc |-> "delete", scheme |-> scheme, keep |-> Ids(Produced(scheme)),
                 titles |-> {r.title : r \in rows} \cap Boilerplate]
    /\ UNCHANGED <<table, rows, scheme, run, money, settled>>

IsPost(r) == \E e \in Posts : DocumentOf[e] = r.doc

Orphan(r) == r.scheme = prune.scheme /\ Id(r) \notin prune.keep

PruneDelete ==
    /\ prune.pc = "delete"
    /\ LET gone == {r \in rows : Orphan(r) \/ (IsPost(r) /\ r.title \in prune.titles)}
           bought == {c \in AllIds : paid[c] > excused[c] /\ <<c[2], c[3], c[4]>> \in Keys(gone)}
       IN  /\ MayWaste(bought)
           /\ rows' = rows \ gone
           /\ excused' = More(excused, bought)
           /\ settled' = settled \ Keys(gone)
           /\ run' = [l \in Loaders |-> IF run[l].pc \in {"idle", "done"} THEN run[l]
                                   ELSE [run[l] EXCEPT !.deleted = @ \cup Keys(gone)]]
    /\ prune' = PruneIdle
    /\ UNCHANGED <<table, scheme, paid>>

PruneCrash ==
    /\ prune.pc = "delete"
    /\ prune' = PruneIdle
    /\ UNCHANGED <<table, rows, scheme, run, money, settled>>

\* Each row gets the title of a silver row, current or not, with its hash;
\* which one, if several share it, is left to the order Trino returns them in.
\* It is one transaction: a title that does not fit leaves everything as it was.
BackfillTitles ==
    /\ \E title \in [{r.text : r \in silver} -> Titles] :
        /\ \A t \in DOMAIN title : \E r \in silver : r.text = t /\ r.title = title[t]
        /\ \A r \in rows : r.hash \in DOMAIN title => title[r.hash] \notin Wide
        /\ rows' = {IF r.hash \in DOMAIN title THEN [r EXCEPT !.title = title[r.hash]] ELSE r :
                       r \in rows}
    /\ UNCHANGED <<table, scheme, run, prune, money, settled>>

-----------------------------------------------------------------------------

LoaderStep(l) == Load(l) \/ Filter(l) \/ Embed(l) \/ AnswerLost(l) \/ Insert(l) \/ Crash(l)

Next ==
    \/ \E e \in Entities : \E v \in Versions[e] : Record(e, v)
    \/ \E s \in Schemes : Deploy(s)
    \/ \E l \in Loaders : LoaderStep(l)
    \/ PruneLoad \/ PruneDelete \/ PruneCrash \/ BackfillTitles

Spec == Init /\ [][Next]_vars

AllFit == \A c \in Produced(scheme) : Fits(c)

\* The loader is run again and again (the daily schedule) and every so often
\* a run completes; but none has to while there is a chunk that does not fit,
\* for then every run dies of it.
Fairness == \A l \in Loaders : /\ WF_vars(Load(l))
                               /\ <>[]AllFit => []<>(run[l].pc = "done")

FairSpec == Spec /\ Fairness

-----------------------------------------------------------------------------

\* A citation names a chunk by its document and number (chunk_ref).  Among the
\* chunks of what is current, and of one topic all posts are, it names one row.
ReferenceIsUnique ==
    \A q, r \in {c \in rows : Id(c) \in Ids(Produced(scheme))} :
        q.doc = r.doc /\ q.index = r.index => q = r

\* Each chunk is paid for once, and once more for each time its vector was
\* lost with an answer or a crash, or was deleted by curation.  Re-runs, votes,
\* edits elsewhere, chunking changes and their reverts cost nothing.
PaidOncePerLoss == \A c \in AllIds : paid[c] <= 1 + excused[c]

\* "A re-run over unchanged silver makes zero API calls and costs nothing":
\* what a complete run has covered is in no later request.
RerunIsFree ==
    [][\A l \in Loaders : run[l].pc = "next" /\ run'[l].pc = "insert" =>
          Keys(run'[l].batch) \cap settled = {}]_vars

\* What a complete run has covered stays stored, whatever happens meanwhile,
\* unless it is pruned.
SettledIsStored == settled \subseteq Keys(rows)

\* Once a complete run has covered all that is current, every sentence of the
\* current texts stands in the words of one stored chunk, at a boundary of
\* chunks too; curation takes away no more than the sections under its floor.
EverySentenceStored ==
    Keys(Produced(scheme)) \subseteq settled =>
        \A r \in Curated : \A p \in Sentences(scheme, Bodies[r.text]) :
            \E i \in Pieces(r.entity, scheme, r.text) :
                /\ <<r.text, IndexOf(r.entity, i), scheme>> \in Keys(rows)
                /\ Within(p, Prefixed(Cuts[scheme][r.text][i + 1]))

\* A text that stays current is embedded in the end, while nothing current is
\* too wide to be stored: one chunk that is keeps out all that comes after it.
CurrentTextsEmbedded ==
    \A e \in Entities : \A t \in {v.text : v \in Versions[e]} :
        [](AllFit /\ \E r \in Curated : r.entity = e /\ r.text = t)
        ~> \A i \in Pieces(e, scheme, t) : <<t, IndexOf(e, i), scheme>> \in Keys(rows)

ValidAt(r, t) == r.from <= t /\ (r.to = Open \/ t < r.to)

\* The chunks a search as of t ranks.
SearchAsOf(t) == {r \in rows : r.scheme = scheme /\ ValidAt(r, t)}

\* "Retrieval can be asked historical questions without returning today's text
\* and citing it as March's" (vector_schema.sql): when all
\* that is current is stored, a search as of t finds only texts that were current at t.
HistoryIsFaithful ==
    (Keys(Produced(scheme)) \subseteq Keys(rows)) =>
        \A t \in 1..clock : \A r \in SearchAsOf(t) :
            \E s \in silver : /\ DocumentOf[s.entity] = r.doc /\ s.text = r.hash
                              /\ ValidAt(s, t)
=============================================================================
