------------------------------- MODULE Silver -------------------------------
(***************************************************************************)
(* data_pipeline/transformation/build_silver.py: the SCD2 tables built by  *)
(* folding the bronze objects in the order they were first observed.       *)
(*                                                                         *)
(* Bronze is the observation log: its objects are only ever added, each    *)
(* newer than the objects before it.  An object holds the entities of one  *)
(* document: a proposal is its own document, a topic holds posts.  Of each *)
(* entity it has the record (the fields record_hash covers) and the rest   *)
(* (the fields it does not cover).                                         *)
(*                                                                         *)
(* A builder is one spark-submit of the script.  It lists the bronze       *)
(* objects of both tables, then compares and merges one table after the    *)
(* other.  A listing takes many requests: of the objects that are put      *)
(* meanwhile it has any.  A MERGE is one atomic commit on the table as it  *)
(* then is.                                                                *)
(***************************************************************************)
EXTENDS Naturals, FiniteSets

CONSTANTS Docs,         \* proposals and topics
          TopicDocs,    \* the topics among them
          Configured,   \* the documents of configured spaces and hosts
          Entities,     \* proposals and posts
          Records,      \* what record_hash tells apart
          Rests,        \* what only the other columns tell apart
          Bodies,       \* Bodies[d]: what an object of d may say of its entities
          Builders,     \* concurrent builds
          MaxObjects,   \* bound: objects ever written
          MaxCode       \* bound: versions of the code ever deployed

ASSUME DocAssumption == TopicDocs \subseteq Docs /\ Configured \subseteq Docs
ASSUME BodyAssumption ==
    \A d \in Docs : \A says \in Bodies[d] :
        /\ DOMAIN says \subseteq Entities
        /\ says \in [DOMAIN says -> [record : Records, rest : Rests]]
ASSUME BoundAssumption == MaxObjects \in Nat /\ MaxCode \in Nat \ {0}

VARIABLES objects,  \* bronze: documents, when they were observed and what they said
          clock,    \* the newest observation
          code,     \* the version of the code that is deployed
          table,    \* table[k]: the rows of the proposals or of the posts table
          run       \* the state of each builder

vars == <<objects, clock, code, table, run>>

\* Tables, in the order main() merges them.
Kinds == {1, 2}
Proposals == 1
Posts     == 2

Open == 0    \* valid_to IS NULL; stamps start at 1
Object == UNION {[doc : {d}, at : 1..MaxObjects, says : Bodies[d]] : d \in Docs}
Row == [entity : Entities, record : Records, derived : Rests \X (1..MaxCode),
        from : 1..MaxObjects, to : (1..MaxObjects) \cup {Open}]
IsCurrent(r) == r.to = Open

-----------------------------------------------------------------------------
(* The fold. *)

\* The objects build_proposals and build_posts read; drop_unconfigured is
\* applied to the proposals only.
Sources(k) ==
    IF k = Posts THEN {o \in objects : o.doc \in TopicDocs}
                 ELSE {o \in objects : o.doc \in Configured \ TopicDocs}

\* What the objects say of entities, one observation each.
Observations(O) ==
    UNION {{[entity |-> e, record |-> o.says[e].record, rest |-> o.says[e].rest,
             at |-> o.at] : e \in DOMAIN o.says} : o \in O}

\* Faulty variant: the latest observation of a record is kept.
LastSeen(V) == {v \in V : \A w \in V :
                   w.entity = v.entity /\ w.record = v.record => w.at <= v.at}

\* One observation per entity and record: the first.
FirstSeen(V) == {v \in V : \A w \in V :
                   w.entity = v.entity /\ w.record = v.record => v.at <= w.at}

\* Faulty variant: a window ends at the last observation of the entity.
UntilLast(V, v) == IF \A w \in V : w.entity = v.entity => w.at <= v.at THEN Open
                   ELSE CHOOSE t \in {w.at : w \in {u \in V : u.entity = v.entity}} :
                           \A w \in V : w.entity = v.entity => w.at <= t

\* The end of v's window: the next observation of its entity (lead()).
Later(V, v)  == {w \in V : w.entity = v.entity /\ v.at < w.at}
Until(V, v)  == IF Later(V, v) = {} THEN Open
                ELSE CHOOSE t \in {w.at : w \in Later(V, v)} :
                        \A w \in Later(V, v) : t <= w.at

\* add_validity_windows, with the columns version c of the code derives.
Windows(V, c) == {[entity |-> v.entity, record |-> v.record,
                   derived |-> <<v.rest, c>>, from |-> v.at, to |-> Until(V, v)] : v \in V}

Staged(O, c) == Windows(FirstSeen(Observations(O)), c)

-----------------------------------------------------------------------------
(* The guarded MERGE. *)

SameKey(r, s) == r.entity = s.entity /\ r.record = s.record

\* Faulty variants: a guard that compares the SCD2 columns only; one that
\* counts changed rows but not new ones.
StaleWindows(S, T)   == \E s \in S : ~ \E t \in T : SameKey(s, t) /\ s.from = t.from /\ s.to = t.to
StaleMatches(S, T)   == \E s \in S, t \in T : SameKey(s, t) /\ s # t

\* Some staged row is new, or differs in any column from the row stored.
Stale(S, T) == ~ (S \subseteq T)

\* Faulty variants: rows are only added; rows are only added under new keys.
Appended(S, T)     == T \cup S
InsertedOnly(S, T) == T \cup {s \in S : \A t \in T : ~SameKey(s, t)}

\* Matched rows are replaced, new rows inserted; nothing is deleted.
Merged(S, T) == {t \in T : \A s \in S : ~SameKey(s, t)} \cup S

-----------------------------------------------------------------------------

\* (begun is the moment the listing of the current kind began.)
Idle == [pc |-> "idle", kind |-> Proposals, code |-> 1, begun |-> 0,
         listing |-> [k \in Kinds |-> {}]]

Init ==
    /\ objects = {} /\ clock = 0 /\ code = 1
    /\ table = [k \in Kinds |-> {}]
    /\ run = [b \in Builders |-> Idle]

Become(b, r) == run' = [run EXCEPT ![b] = r]
StagedBy(b)  == Staged(run[b].listing[run[b].kind], run[b].code)

\* A harvester stores what it fetched of d, if it never stored that before.
Observe(d, says) ==
    /\ clock < MaxObjects
    /\ \A o \in objects : o.doc = d => o.says # says
    /\ clock' = clock + 1
    /\ objects' = objects \cup {[doc |-> d, at |-> clock + 1, says |-> says]}
    /\ UNCHANGED <<code, table, run>>

\* The code that derives the columns changes.
Deploy ==
    /\ code < MaxCode
    /\ code' = code + 1
    /\ UNCHANGED <<objects, clock, table, run>>

Start(b) ==
    /\ run[b].pc \in {"idle", "done"}
    /\ Become(b, [Idle EXCEPT !.pc = "list", !.code = code, !.begun = clock])
    /\ UNCHANGED <<objects, clock, code, table>>

\* spark.read has listed the files of one prefix: those that were there when it
\* began, and any of those put meanwhile.
List(b) ==
    /\ run[b].pc = "list"
    /\ \E listed \in SUBSET Sources(run[b].kind) :
        /\ \A o \in Sources(run[b].kind) \ listed : run[b].begun < o.at
        /\ LET r == [run[b] EXCEPT !.listing[run[b].kind] = listed]
           IN  Become(b, IF r.kind = Posts
                         THEN [r EXCEPT !.pc = "compare", !.kind = Proposals, !.begun = 0]
                         ELSE [r EXCEPT !.kind = Posts, !.begun = clock])
    /\ UNCHANGED <<objects, clock, code, table>>

Advance(b) == Become(b, IF run[b].kind = Posts
                        THEN [run[b] EXCEPT !.pc = "done"]
                        ELSE [run[b] EXCEPT !.pc = "compare", !.kind = Posts])

\* Counting the new and the changed rows; with none, the MERGE is skipped.
Compare(b) ==
    /\ run[b].pc = "compare"
    /\ IF Stale(StagedBy(b), table[run[b].kind])
       THEN Become(b, [run[b] EXCEPT !.pc = "merge"])
       ELSE Advance(b)
    /\ UNCHANGED <<objects, clock, code, table>>

Merge(b) ==
    /\ run[b].pc = "merge"
    /\ table' = [table EXCEPT ![run[b].kind] = Merged(StagedBy(b), @)]
    /\ Advance(b)
    /\ UNCHANGED <<objects, clock, code>>

\* The job dies, or a concurrent commit makes its MERGE fail.
Crash(b) ==
    /\ run[b].pc \notin {"idle", "done"}
    /\ Become(b, Idle)
    /\ UNCHANGED <<objects, clock, code, table>>

Next ==
    \/ \E d \in Docs : \E says \in Bodies[d] : Observe(d, says)
    \/ Deploy
    \/ \E b \in Builders : Start(b) \/ List(b) \/ Compare(b) \/ Merge(b) \/ Crash(b)

Spec == Init /\ [][Next]_vars

\* Builds recur (the daily schedule), and every so often one is not disturbed.
Fairness == \A b \in Builders : WF_vars(Start(b)) /\ []<>(run[b].pc = "done")

FairSpec == Spec /\ Fairness

-----------------------------------------------------------------------------

\* A table holds one row per entity and record (its MERGE key).
Keyed(T) == \A r, s \in T : SameKey(r, s) => r = s

TypeOK ==
    /\ objects \in SUBSET Object
    /\ clock \in 0..MaxObjects
    /\ code \in 1..MaxCode
    /\ table \in [Kinds -> SUBSET Row] /\ \A k \in Kinds : Keyed(table[k])
    /\ \A b \in Builders :
        /\ run[b].pc \in {"idle", "list", "compare", "merge", "done"}
        /\ run[b].kind \in Kinds
        /\ run[b].code \in 1..MaxCode
        /\ run[b].begun \in 0..clock
        /\ run[b].listing \in [Kinds -> SUBSET objects]

\* The core SCD2 invariant (test_phase3_silver.py): at any moment, each entity
\* of a table has one row that is current.
ExactlyOneCurrent ==
    \A k \in Kinds : \A r \in table[k] :
        Cardinality({s \in table[k] : s.entity = r.entity /\ IsCurrent(s)}) = 1

ValidAt(r, t) == r.from <= t /\ (IsCurrent(r) \/ t < r.to)
AsOf(T, e, t) == {r.record : r \in {s \in T : s.entity = e /\ ValidAt(s, t)}}

\* Windows neither overlap nor leave a gap: as of any moment since an entity
\* was first observed there is one version of it, and none before.
OneVersionAtATime ==
    \A k \in Kinds, e \in Entities, t \in 1..MaxObjects :
        Cardinality({r \in table[k] : r.entity = e /\ ValidAt(r, t)}) =
            IF \E r \in table[k] : r.entity = e /\ r.from <= t THEN 1 ELSE 0

\* "Silver is a pure function of bronze": a finished build leaves in each table
\* what folding the objects it listed gives with the code it ran, whatever
\* earlier builds, crashes and code versions left there.
PureFunctionOfBronze ==
    \A b \in Builders : run[b].pc = "done" =>
        \A k \in Kinds : table[k] = Staged(run[b].listing[k], run[b].code)

\* The table has all that was observed of e up to t.  (A later observation of e may
\* be there before an earlier one, which a listing missed while both were put.)
HasPast(k, e, t) ==
    \A o \in Sources(k) : o.at <= t /\ e \in DOMAIN o.says =>
        \E r \in table[k] : r.entity = e /\ r.record = o.says[e].record /\ r.from <= o.at

\* What a table answers about a moment up to which it has all there was to
\* observe never changes, whatever is listed, folded and merged later.
PastIsSettled ==
    [][\A k \in Kinds, e \in Entities, t \in 1..clock :
          HasPast(k, e, t) => AsOf(table'[k], e, t) = AsOf(table[k], e, t)]_vars

\* Every version of an entity of a configured source gets a row in the end.
EveryVersionArrives ==
    \A d \in Configured : \A e \in Entities, c \in Records :
        (\E o \in objects : o.doc = d /\ e \in DOMAIN o.says /\ o.says[e].record = c)
        ~> (\E k \in Kinds : \E r \in table[k] : r.entity = e /\ r.record = c)
=============================================================================
