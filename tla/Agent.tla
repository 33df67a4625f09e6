-------------------------------- MODULE Agent --------------------------------
(***************************************************************************)
(* One question on its way through the agent graph: the router, one of the *)
(* three execution nodes, synthesis (ai_agent/graph), and the search they  *)
(* share (ai_agent/chains/retrieval.py).                                   *)
(*                                                                         *)
(* The language model, the embeddings endpoint and Trino are external.      *)
(* What they say is chosen freely, junk included; what the code makes of   *)
(* it is the model.  The vector store answers from an HNSW index, which     *)
(* visits some of the chunks: a ranking of any of them stands for what it  *)
(* reached and their distances.  Every list of results the code makes is   *)
(* in the order of distance, so lists are sets until the graph's state     *)
(* holds one (Listed).                                                     *)
(***************************************************************************)
EXTENDS Naturals, Sequences, FiniteSets, Functions

CONSTANTS Protocols,       \* PROTOCOLS
          Chunks,          \* what the vector store holds
          ProtocolOf,      \* protocol_name
          SourceOf,        \* "proposal" or "forum"
          DocumentOf,      \* document_id
          Proposals,       \* proposal_ids in silver
          KNarrow, KBroad, KPerProtocol,  \* K_NARROW, K_BROAD, K_PER_PROTOCOL
          FetchMultiplier, \* FETCH_MULTIPLIER
          MaxContext,      \* MAX_CONTEXT_CHUNKS
          None             \* None

ASSUME SourceAssumption == SourceOf \in [Chunks -> {"proposal", "forum"}]

\* A space has its own proposal ids, and the loader qualifies a topic's id with
\* its protocol (embeddings.py), so a document belongs to one protocol.
ASSUME DocumentAssumption ==
    \A c, d \in Chunks : SourceOf[c] = SourceOf[d] /\ DocumentOf[c] = DocumentOf[d]
                             => ProtocolOf[c] = ProtocolOf[d]

ASSUME SizeAssumption ==
    /\ IsFiniteSet(Chunks) /\ None \notin Protocols
    /\ {KNarrow, KBroad, KPerProtocol, FetchMultiplier, MaxContext} \subseteq Nat \ {0}

VARIABLES pc,        \* the node to run next, "done" or "error"
          decision,  \* route, scope, filters
          rows,      \* rows: the proposal_id of each, NoId if it has none
          chunks,    \* chunks, in order
          answer,    \* answer, citations and data_gap
          \* Observers:
          rank,      \* the place of each chunk the index reached, the nearest lowest
          good       \* what the judge called relevant

vars == <<pc, decision, rows, chunks, answer, rank, good>>

Executions == {"sql", "vector", "hybrid"}
Sources    == {"proposal", "forum"}
NoId       == "no id"
NoAnswer   == [text |-> "none", citations |-> {}, gap |-> FALSE]

ASSUME IdAssumption == NoId \notin Proposals

Init ==
    /\ pc = "router"
    /\ decision = [route |-> "vector", scope |-> "all", protocol |-> None, source |-> None]
    /\ rows = {} /\ chunks = <<>> /\ answer = NoAnswer
    /\ rank = <<>> /\ good = {}

-----------------------------------------------------------------------------
(* The router. *)

\* Anything the model may answer: the words the code knows, or others.
Raw == [route : Executions \cup {"junk"}, scope : {"one", "all", "junk"},
        protocol : Protocols \cup {None, "junk"}, source : Sources \cup {None, "junk"}]

Normalise(raw) ==
    LET route    == IF raw.route \in Executions THEN raw.route ELSE "vector"
        protocol == IF raw.protocol \in Protocols THEN raw.protocol ELSE None
        wide     == raw.scope # "one" /\ (protocol = None \/ route = "sql")
    IN [route |-> route, scope |-> IF wide THEN "all" ELSE "one", protocol |-> protocol,
        source |-> IF raw.source \in Sources THEN raw.source ELSE None]

Router ==
    /\ pc = "router"
    /\ \E raw \in Raw : decision' = Normalise(raw)
    /\ pc' = decision'.route
    /\ UNCHANGED <<rows, chunks, answer, rank, good>>

-----------------------------------------------------------------------------
(* run_sql: the model picks a template and fills in its parameters. *)

\* What a template can return: proposals, rows without an id, or no row.
Results(template) ==
    CASE template = "listing"  -> SUBSET Proposals
      [] template = "counting" -> {{}, {NoId}}
      [] template = "rejected" -> {{}}

RunSql == \E template \in {"listing", "counting", "rejected"} : rows' \in Results(template)

SqlNode ==
    /\ pc = "sql"
    /\ RunSql
    /\ pc' = "synthesis"
    /\ UNCHANGED <<decision, chunks, answer, rank, good>>

-----------------------------------------------------------------------------
(* search and retrieve *)

Matches(c, protocol, source) ==
    protocol \in {None, ProtocolOf[c]} /\ source \in {None, SourceOf[c]}

Document(c) == <<SourceOf[c], DocumentOf[c]>>

\* What the index reached, and the distances, without ties.  A query is ordered
\* exactly among the chunks its index scan visits, which ones is up to the
\* index; the filters apply to those.  One set does for all the searches of a
\* fan-out: each of them looks at the chunks of its own protocol only.
Rankings == UNION {Injection(S, 1..Cardinality(S)) : S \in SUBSET Chunks}

\* ORDER BY distance LIMIT n: those with fewer than n nearer ones in S.
Ahead(order, S, c)   == {d \in S : order[d] < order[c]}
Nearest(order, S, n) == {c \in S : Cardinality(Ahead(order, S, c)) < n}

\* S as a list, nearest first.
Listed(order, S) ==
    [n \in 1..Cardinality(S) |-> CHOOSE c \in S : Cardinality(Ahead(order, S, c)) = n - 1]

\* _cap_per_document: the nearest chunk of each document.
Capped(order, S) ==
    {c \in S : \A d \in S : Document(d) = Document(c) => order[c] <= order[d]}

\* Faulty variant: nothing is over-fetched.
SearchExactly(order, k, protocol, source) ==
    Capped(order, Nearest(order, {c \in DOMAIN order : Matches(c, protocol, source)}, k))

\* search: over-fetch, cap, cut.
Search(order, k, protocol, source) ==
    LET hits    == {c \in DOMAIN order : Matches(c, protocol, source)}
        fetched == Nearest(order, hits, k * FetchMultiplier)
    IN Nearest(order, Capped(order, fetched), k)

K == IF decision.scope = "one" /\ decision.route = "vector" THEN KNarrow ELSE KBroad

Fanned == decision.scope = "all" /\ decision.protocol = None

\* Faulty variant: one ranked list for all protocols.
FanOutFlat(order) == Search(order, KPerProtocol, None, decision.source)

\* One search per protocol; the lists are sorted into one by distance.
FanOut(order) == UNION {Search(order, KPerProtocol, p, decision.source) : p \in Protocols}

\* Faulty variant: forum topics are held against proposal ids too.
NarrowAll(S, ids) == {c \in S : DocumentOf[c] \in ids}

Narrow(S, ids) == {c \in S : SourceOf[c] = "proposal" => DocumentOf[c] \in ids}

Found(order) ==
    IF Fanned THEN FanOut(order) ELSE Search(order, K, decision.protocol, decision.source)

Retrieve(ids) ==
    \E order \in Rankings :
        /\ rank' = order
        /\ chunks' = Listed(order, IF ids = {} THEN Found(order) ELSE Narrow(Found(order), ids))

VectorNode ==
    /\ pc = "vector"
    /\ Retrieve({})
    /\ pc' = "synthesis"
    /\ UNCHANGED <<decision, rows, answer, good>>

\* SQL first; its ids narrow the search, unless there are none.
HybridNode ==
    /\ pc = "hybrid"
    /\ RunSql
    /\ Retrieve(rows' \ {NoId})
    /\ pc' = "synthesis"
    /\ UNCHANGED <<decision, answer, good>>

-----------------------------------------------------------------------------
(* Synthesis: judge, answer, resolve the citations. *)

Context == {chunks[n] : n \in DOMAIN chunks \cap 1..MaxContext}

Nothing(relevant) == relevant = <<>> /\ rows = {}

\* Faulty variant: markers are looked up among everything retrieved.
ResolveAmongAll(markers, relevant) == {chunks[n] : n \in markers \cap DOMAIN chunks}

\* validate_citations: a marker that resolves to nothing is dropped.
Resolve(markers, relevant) == {relevant[n] : n \in markers \cap DOMAIN relevant}

\* The analyst uses a marker of the list or an invented one, or none; it may
\* set data_gap, and the answer may be blank.
Analyst(relevant) ==
    \E markers \in {{}} \cup {{n} : n \in 1..MaxContext}, flag \in BOOLEAN :
        \/ answer' = [text |-> "prose", citations |-> Resolve(markers, relevant), gap |-> flag]
        \/ answer' = [text |-> "blank", citations |-> {}, gap |-> TRUE]

Synthesis ==
    /\ pc = "synthesis"
    /\ \E scored \in SUBSET Context :
        LET relevant == Listed(rank, scored)
        IN  /\ good' = scored
            /\ IF Nothing(relevant)
               THEN answer' = [text |-> "refusal", citations |-> {}, gap |-> TRUE]
               ELSE Analyst(relevant)
    /\ pc' = "done"
    /\ UNCHANGED <<decision, rows, chunks, rank>>

\* A node raises: the model's JSON does not parse, Trino or Postgres fails, a
\* limit is no number.
NodeFails ==
    /\ pc \notin {"done", "error"}
    /\ pc' = "error"
    /\ UNCHANGED <<decision, rows, chunks, answer, rank, good>>

Next == Router \/ SqlNode \/ VectorNode \/ HybridNode \/ Synthesis \/ NodeFails

Spec == Init /\ [][Next]_vars

-----------------------------------------------------------------------------

Retrieved == rank # <<>>
Nearer(c, d) == rank[c] < rank[d]
Matching  == {c \in DOMAIN rank : Matches(c, decision.protocol, decision.source)}

\* What search promises its callers: every passage satisfies the filters, no
\* document has two, and of what the index reached each is the nearest of its
\* document, and the over-fetch finds k documents if the nearest 4k chunks hold
\* as many (retrieval.py, _cap_per_document and the comment on over-fetching).
RightPassages ==
    Retrieved =>
        /\ Range(chunks) \subseteq {c \in Chunks : /\ decision.protocol \in {None, ProtocolOf[c]}
                                                   /\ decision.source \in {None, SourceOf[c]}}
        /\ \A c, d \in Range(chunks) : Document(c) = Document(d) => c = d
        /\ \A i, j \in DOMAIN chunks : i < j => Nearer(chunks[i], chunks[j])
        /\ \A c \in Range(chunks), d \in Matching : Document(c) = Document(d) => ~Nearer(d, c)
        /\ ~Fanned /\ rows \cap Proposals = {} =>
              \A d \in Matching :
                 \/ \E c \in Range(chunks) : Document(c) = Document(d)
                 \/ Len(chunks) = K /\ \A c \in Range(chunks) : Nearer(c, d)
                 \/ Cardinality({c \in Matching : Nearer(c, d)}) >= K * FetchMultiplier

\* "Fan-out finds documents a flat search never surfaces": a question that
\* ranges over the protocols gets a passage from each of them that the index
\* reached one of, however near those of the others are.
FanOutCovers ==
    Retrieved /\ Fanned /\ decision.route = "vector" =>
        {ProtocolOf[c] : c \in Range(chunks)} = Protocols \cap {ProtocolOf[c] : c \in Matching}

\* A hybrid question whose SQL result names proposals keeps passages of those
\* proposals only, and loses no forum passage to them (nodes.py, the comment
\* on narrowing only the source the constraint ranged over).
NarrowedToSql ==
    Retrieved /\ rows \cap Proposals # {} =>
        /\ \A c \in Range(chunks) : SourceOf[c] = "proposal" => DocumentOf[c] \in rows
        /\ \A c \in Found(rank) : SourceOf[c] = "forum" => c \in Range(chunks)

\* "A fabricated citation fails a lookup instead of reaching a reader", and
\* nothing confident is written out of passages the judge called irrelevant:
\* whatever the models say, every citation is a passage that was retrieved for
\* this question, shown to the judge and found relevant, and an answer that
\* claims no gap has rows or such passages behind it.
Grounded ==
    pc = "done" =>
        /\ answer.citations \subseteq good /\ good \subseteq Context
        /\ ~answer.gap => answer.text = "prose" /\ (rows # {} \/ good # {})
        /\ answer.text = "refusal" => rows = {} /\ good = {}
=============================================================================
