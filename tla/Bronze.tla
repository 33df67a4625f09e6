------------------------------- MODULE Bronze -------------------------------
(***************************************************************************)
(* Harvests into the bronze bucket: data_pipeline/harvest.py (run,         *)
(* harvest_snapshot, harvest_discourse) over BronzeWriter.put of           *)
(* data_pipeline/extraction/bronze.py.                                     *)
(*                                                                         *)
(* A harvester is one process of harvest.py.  It works through its units,  *)
(* a unit being one source of one protocol: it lists the unit's entities,  *)
(* then stores them one by one, in several steps other processes           *)
(* interleave with.  Snapshot entities are stored as they were listed;     *)
(* forum topics are fetched again, each just before it is stored.          *)
(*                                                                         *)
(* The store stamps an object as it is put (its mtime).  Stamps here count *)
(* the puts of an entity, whose objects are all they are compared between: *)
(* two puts of one entity are taken to be far enough apart to be ordered   *)
(* by mtime.                                                               *)
(***************************************************************************)
EXTENDS Naturals, Sequences

CONSTANTS Entities,    \* proposals and topics
          Contents,    \* what activity changes: the fields that make a version
          Original,    \* Original[e]: what e is when the first harvest starts
          Versions,    \* Versions[e]: what activity may turn e into
          Noise,       \* what the request-scoped fields of a topic hold
          Units,       \* sources of protocols
          Forums,      \* the units that are Discourse forums
          UnitOf,      \* the unit an entity belongs to
          Harvesters,  \* concurrent processes
          Plan,        \* Plan[h]: the units h works through, in order
          Reach        \* Reach[h]: the entities within h's listing limits

ASSUME UnitAssumption == /\ Forums \subseteq Units /\ UnitOf \in [Entities -> Units]
                         /\ Original \in [Entities -> Contents]
                         /\ Versions \in [Entities -> SUBSET Contents]
ASSUME PlanAssumption == /\ Plan \in [Harvesters -> Seq(Units)]
                         /\ \A h \in Harvesters : Plan[h] # <<>>
                         /\ Reach \in [Harvesters -> SUBSET Entities]

Covers(h) == {e \in Reach[h] : \E i \in 1..Len(Plan[h]) : Plan[h][i] = UnitOf[e]}

\* What one process alone harvests: all that the mapped tasks of one DAG run
\* cover (one protocol each, max_active_runs=1), and of a daily run beside a
\* backfill or a manual harvest what the other does not cover too.
Unshared == {e \in Entities : \A g, h \in Harvesters : e \in Covers(g) \cap Covers(h) => g = h}

VARIABLES upstream,  \* the live content of each entity
          objects,   \* the bucket
          stamp,     \* the last mtime the store gave an object of each entity
          run,       \* the state of each harvester
          \* Observers:
          past,      \* past[e]: the contents e ever had
          reverted   \* the entities that went back to an earlier content

source   == <<upstream, past, reverted>>
bucket   == <<objects, stamp>>
vars     == <<upstream, objects, stamp, run, past, reverted>>

NoContent == "none"
ASSUME ContentAssumption == NoContent \notin Contents

\* The fields of a response, of two kinds: those that move on real activity,
\* and the counters and sidebars a forum adds for the request.  A proposal has
\* none of the latter.
Fields(e) == IF UnitOf[e] \in Forums THEN {"activity", "telemetry"} ELSE {"activity"}

Response(e, content, noise) ==
    [f \in Fields(e) |-> IF f = "telemetry" THEN noise ELSE content]

\* VOLATILE_FIELDS: which fields of a topic are telemetry was measured.
VolatileFields == {"telemetry"}

\* Faulty variant: the put of a topic names no field to leave out.
NothingExcluded(e) == {}

\* hash_exclude, as harvest_snapshot and harvest_discourse pass it to put().
HashExclude(e) == IF UnitOf[e] \in Forums THEN VolatileFields ELSE {}

Prune(response, exclude) == [f \in DOMAIN response \ exclude |-> response[f]]

\* canonical_hash: one digest for each value of what is left after prune().
Digest(e, content, noise) == Prune(Response(e, content, noise), HashExclude(e))

Object == [entity : Entities, digest : [{"activity"} -> Contents],
           content : Contents, at : Nat]

Run == [pc : {"idle", "list", "next", "head", "put", "manifest", "done"},
        unit : Nat, todo : SUBSET Entities, got : [Entities -> Contents \cup {NoContent}],
        entity : Entities \cup {NoContent}, noise : Noise \cup {NoContent},
        failures : SUBSET (Units \cup Entities),
        missed : SUBSET Entities]   \* observer: what its listings left out

Idle == [pc |-> "idle", unit |-> 0, todo |-> {}, got |-> [e \in Entities |-> NoContent],
         entity |-> NoContent, noise |-> NoContent, failures |-> {}, missed |-> {}]

Init ==
    /\ upstream = Original
    /\ objects = {} /\ stamp = [e \in Entities |-> 0]
    /\ run = [h \in Harvesters |-> Idle]
    /\ past = [e \in Entities |-> {upstream[e]}]
    /\ reverted = {}

UnitOfRun(h) == Plan[h][run[h].unit]
InHand(h)    == run[h].got[run[h].entity]
DigestInHand(h) == Digest(run[h].entity, InHand(h), run[h].noise)
KeyInHand(h) == <<run[h].entity, DigestInHand(h)>>

\* Faulty variant: keys without the digest.
StoredByEntity(k) == \E o \in objects : o.entity = k[1]

Stored(k) == \E o \in objects : <<o.entity, o.digest>> = k

Become(h, r) == run' = [run EXCEPT ![h] = r]
LetGo(r)     == [r EXCEPT !.pc = "next", !.entity = NoContent, !.noise = NoContent]

\* Somebody edits a proposal or a topic, votes, or posts.
Edit(e, c) ==
    /\ c \in Versions[e] \ {upstream[e]}
    /\ upstream' = [upstream EXCEPT ![e] = c]
    /\ past' = [past EXCEPT ![e] = @ \cup {c}]
    /\ reverted' = IF c \in past[e] THEN reverted \cup {e} ELSE reverted
    /\ UNCHANGED <<bucket, run>>

\* harvest.py starts: a schedule, a retry or a person.
Start(h) ==
    /\ run[h].pc \in {"idle", "done"}
    /\ Become(h, [Idle EXCEPT !.pc = "list", !.unit = 1])
    /\ UNCHANGED <<source, bucket>>

\* On to the next unit, or to the manifest after the last.
NextUnit(h, r) ==
    IF r.unit < Len(Plan[h])
    THEN [r EXCEPT !.pc = "list", !.unit = @ + 1, !.todo = {}]
    ELSE [r EXCEPT !.pc = "manifest", !.todo = {}]

\* The except clauses of run(): the unit is noted as failed, the others go on.
UnitFails(h) ==
    Become(h, NextUnit(h, [LetGo(run[h]) EXCEPT !.failures = @ \cup {UnitOfRun(h)}]))

\* fetch_proposals or fetch_topics returns.  What moved while its pages were
\* fetched may be missing from the list (Listing says what may not).
List(h) ==
    /\ run[h].pc = "list"
    /\ \E listed \in SUBSET {e \in Reach[h] : UnitOf[e] = UnitOfRun(h)} :
        Become(h, [run[h] EXCEPT !.pc = "next", !.todo = listed,
                   !.got = [e \in Entities |->
                              IF e \in listed THEN upstream[e] ELSE run[h].got[e]],
                   !.missed = @ \cup ({e \in Reach[h] : UnitOf[e] = UnitOfRun(h)} \ listed)])
    /\ UNCHANGED <<source, bucket>>

ListFails(h) ==
    /\ run[h].pc = "list"
    /\ UnitFails(h)
    /\ UNCHANGED <<source, bucket>>

\* The loop reaches e.  A topic is fetched now; a proposal is what was listed.
Take(h, e) ==
    /\ run[h].pc = "next" /\ e \in run[h].todo
    /\ \E n \in IF UnitOf[e] \in Forums THEN Noise ELSE {NoContent} :
        Become(h, [run[h] EXCEPT !.pc = "head", !.todo = @ \ {e}, !.entity = e,
                   !.noise = n,
                   !.got[e] = IF UnitOf[e] \in Forums THEN upstream[e] ELSE @])
    /\ UNCHANGED <<source, bucket>>

\* Faulty variant: the bad topic is skipped without a trace.
TopicDropped(h, e) ==
    /\ run[h].pc = "next" /\ e \in run[h].todo /\ UnitOf[e] \in Forums
    /\ Become(h, [run[h] EXCEPT !.todo = @ \ {e}])
    /\ UNCHANGED <<source, bucket>>

\* client.topic raises: the topic is noted as failed and the loop continues.
TopicFails(h, e) ==
    /\ run[h].pc = "next" /\ e \in run[h].todo /\ UnitOf[e] \in Forums
    /\ Become(h, [run[h] EXCEPT !.todo = @ \ {e}, !.failures = @ \cup {e}])
    /\ UNCHANGED <<source, bucket>>

UnitDone(h) ==
    /\ run[h].pc = "next" /\ run[h].todo = {}
    /\ Become(h, NextUnit(h, run[h]))
    /\ UNCHANGED <<source, bucket>>

\* Faulty variant: an existing key is written again.
HeadIgnored(h) ==
    /\ run[h].pc = "head"
    /\ Become(h, [run[h] EXCEPT !.pc = "put"])
    /\ UNCHANGED <<source, bucket>>

\* _exists(key): nothing more to do for an object that is there.
HeadObject(h) ==
    /\ run[h].pc = "head"
    /\ Become(h, IF Stored(KeyInHand(h)) THEN LetGo(run[h]) ELSE [run[h] EXCEPT !.pc = "put"])
    /\ UNCHANGED <<source, bucket>>

\* put_object: the store replaces whatever the key held.
Overwrite(h) ==
    /\ stamp' = [stamp EXCEPT ![run[h].entity] = @ + 1]
    /\ objects' = {o \in objects : <<o.entity, o.digest>> # KeyInHand(h)}
                    \cup {[entity |-> run[h].entity,
                           digest |-> DigestInHand(h),
                           content |-> InHand(h), at |-> stamp[run[h].entity] + 1]}
    /\ UNCHANGED source

Put(h) ==
    /\ run[h].pc = "put"
    /\ Overwrite(h)
    /\ Become(h, LetGo(run[h]))

\* The store answers head or put with an error; a put may have been applied.
StoreFails(h) ==
    /\ run[h].pc \in {"head", "put"}
    /\ \/ UNCHANGED <<source, bucket>>
       \/ run[h].pc = "put" /\ Overwrite(h)
    /\ UnitFails(h)

\* write_manifest, then main() returns 1 if there were failures.
Manifest(h) ==
    /\ run[h].pc = "manifest"
    /\ Become(h, [run[h] EXCEPT !.pc = "done"])
    /\ UNCHANGED <<source, bucket>>

\* The process is killed, or write_manifest raises.
Crash(h) ==
    /\ run[h].pc \notin {"idle", "done"}
    /\ Become(h, Idle)
    /\ UNCHANGED <<source, bucket>>

Step(h) ==
    \/ Start(h) \/ List(h) \/ ListFails(h) \/ UnitDone(h)
    \/ \E e \in Entities : Take(h, e) \/ TopicFails(h, e)
    \/ HeadObject(h) \/ Put(h) \/ StoreFails(h) \/ Manifest(h) \/ Crash(h)

Next ==
    \/ \E e \in Entities, c \in Contents : Edit(e, c)
    \/ \E h \in Harvesters : Step(h)

CleanRun(h) == run[h].pc = "done" /\ run[h].failures = {}

\* Harvests recur (the daily schedule), and every so often one of them meets
\* no failure of a source, of the store or of its own, and complete listings.
Fairness ==
    \A h \in Harvesters :
        WF_vars(Start(h)) /\ []<>(CleanRun(h) /\ run[h].missed = {})

Spec     == Init /\ [][Next]_vars
FairSpec == Spec /\ Fairness

-----------------------------------------------------------------------------

TypeOK ==
    /\ upstream \in [Entities -> Contents]
    /\ past \in [Entities -> SUBSET Contents]
    /\ reverted \in SUBSET Entities
    /\ objects \in SUBSET Object
    /\ stamp \in [Entities -> Nat]
    /\ run \in [Harvesters -> Run]
    /\ \A h \in Harvesters : run[h].unit \in 0..Len(Plan[h])

\* Some process has asked for this object's key, found nothing, and is about
\* to put it.
Contested(o) ==
    \E h \in Harvesters : run[h].pc = "put" /\ KeyInHand(h) = <<o.entity, o.digest>>

\* "Bronze never overwrites", as far as the code keeps it when harvests
\* overlap: an object that no process is about to put is settled, it keeps
\* its body and its stamp from then on, and no later harvest contests it.
\* Only who asked before it was there replaces an object.
SettledStays ==
    [][\A o \in objects : ~Contested(o) => o \in objects' /\ ~Contested(o)']_vars

\* A run that ends accounts for everything its listings returned: the version
\* it fetched is in the bucket, or the report names the entity or its unit, in
\* which case the exit code is 1.  Errors in one topic or one unit hide
\* nothing in the others.
RunAccountsForAll ==
    \A h \in Harvesters : run[h].pc = "done" =>
        \A e \in Covers(h) \ run[h].missed :
            \/ \E o \in objects : o.entity = e /\ o.content = run[h].got[e]
            \/ {e, UnitOf[e]} \cap run[h].failures # {}

\* What silver will call current: after a clean run, the newest object of an
\* entity no other process harvests is the version the run fetched.  (Not
\* after a revert: content addressing cannot represent one, as build_silver.py
\* says.)
NewestIsFetched ==
    \A h \in Harvesters : CleanRun(h) =>
        \A e \in (Covers(h) \cap Unshared) \ (reverted \cup run[h].missed) :
            \E o \in objects :
                /\ o.entity = e /\ o.content = run[h].got[e]
                /\ \A p \in objects : p.entity = e => p.at <= o.at

\* The bucket implements the observation log of every entity that one process
\* harvests: objects are only ever added, each as the newest of its entity,
\* and each with a content the entity had none of.  Fetching unchanged content
\* again, with whatever telemetry, adds nothing.
Log == INSTANCE ObservationLog WITH
    Entities <- Unshared,
    known  <- [e \in Unshared |-> {o.content : o \in {p \in objects : p.entity = e}}],
    before <- [e \in Unshared |-> {pair \in Contents \X Contents :
                  \E o, p \in objects : /\ o.entity = e /\ o.content = pair[1]
                                        /\ p.entity = e /\ p.content = pair[2]
                                        /\ o.at < p.at}]

ImplementsLog == Log!Spec

\* A version that stays up is captured, whatever fails and crashes meanwhile:
\* the runs that fail leave nothing behind that hides it from a later one.
VersionsCaptured ==
    \A h \in Harvesters : \A e \in Covers(h) : \A c \in Contents :
        [](upstream[e] = c) ~> (\E o \in objects : o.entity = e /\ o.content = c)
=============================================================================
