------------------------------ MODULE Pipeline ------------------------------
(***************************************************************************)
(* The two Airflow DAGs, gov_pipeline_daily and gov_backfill: harvest each *)
(* protocol, build silver, (for a backfill) check the cost ceiling, embed. *)
(* Each DAG has one run at a time; nothing keeps the two apart.            *)
(*                                                                         *)
(* A store is the set of items that reached it; Bronze, Silver and         *)
(* VectorStore say what happens inside each.  An item is the nth text a    *)
(* protocol published, and costs one unit to embed.                        *)
(***************************************************************************)
EXTENDS Naturals, FiniteSets

CONSTANTS Protocols,    \* PROTOCOLS
          Dags,         \* "daily", "backfill" or both
          Window,       \* Window[d]: how many items of a protocol d harvests
          Retries,      \* Retries[d]: retries of default_args
          Ceiling,      \* backfill_cost_ceiling_usd
          MaxItems,     \* bound: MaxItems[p], items a protocol publishes
          MaxOrphans    \* bound: Spark jobs that outlive their task

ASSUME WindowAssumption == \A d \in Dags : Window[d] \in Nat \ {0} /\ Retries[d] \in Nat
ASSUME CeilingAssumption == Ceiling \in Nat

VARIABLES published,  \* how many items each protocol has published
          bronze, silver, embedded,  \* the items in each store
          orphans,    \* what each abandoned Spark job has read
          run,        \* the latest run of each DAG
          \* Observers:
          due,        \* the items in the window of each run when it started
          spent,      \* what the embed task of the backfill paid for and stored
          extra       \* what reached silver after its check

stores   == <<published, bronze, silver, embedded, orphans>>
observed == <<due, spent, extra>>
vars     == <<stores, run, observed>>

Items(p)   == {<<p, n>> : n \in 1..published[p]}
InWindow(d, p) == {i \in Items(p) : i[2] + Window[d] > published[p]}

\* A run: the task it is at, the protocols it has harvested, how many attempts
\* of each harvest and of the current task failed, what the task works on.
At(stage) == [stage |-> stage, harvested |-> {}, tries |-> [p \in Protocols |-> 0],
              failed |-> 0, input |-> {}]

Init ==
    /\ published = [p \in Protocols |-> 0]
    /\ bronze = {} /\ silver = {} /\ embedded = {} /\ orphans = {}
    /\ run = [d \in Dags |-> At("idle")]
    /\ due = [d \in Dags |-> {}] /\ spent = 0 /\ extra = {}

Becomes(d, r) == run' = [run EXCEPT ![d] = r]

Publish(p) ==
    /\ published[p] < MaxItems[p]
    /\ published' = [published EXCEPT ![p] = @ + 1]
    /\ UNCHANGED <<bronze, silver, embedded, orphans, run, observed>>

\* The schedule, or a trigger; max_active_runs=1.
Start(d) ==
    /\ run[d].stage \in {"idle", "success", "failed"}
    /\ Becomes(d, At("harvest"))
    /\ due' = [due EXCEPT ![d] = UNION {InWindow(d, p) : p \in Protocols}]
    /\ UNCHANGED <<stores, spent, extra>>

-----------------------------------------------------------------------------
(* harvest: one mapped task for each protocol. *)

Harvested(d, p) == p \in run[d].harvested

OutOfTries(d, p) == run[d].tries[p] > Retries[d]

Pending(d, p) == run[d].stage = "harvest" /\ ~Harvested(d, p) /\ ~OutOfTries(d, p)

Harvest(d, p) ==
    /\ Pending(d, p)
    /\ bronze' = bronze \cup InWindow(d, p)
    /\ Becomes(d, [run[d] EXCEPT !.harvested = @ \cup {p}])
    /\ UNCHANGED <<published, silver, embedded, orphans, observed>>

\* Exit code 1: whatever else it could fetch is stored.
HarvestFails(d, p) ==
    /\ Pending(d, p)
    /\ \E part \in SUBSET InWindow(d, p) : bronze' = bronze \cup part
    /\ Becomes(d, [run[d] EXCEPT !.tries[p] = @ + 1])
    /\ UNCHANGED <<published, silver, embedded, orphans, observed>>

\* Faulty variant: build_silver runs when the harvests are done, failed or not.
AllDone(d) == \A p \in Protocols : Harvested(d, p) \/ OutOfTries(d, p)

\* harvested >> build_silver(): every mapped task has to succeed.
AllSuccess(d) == run[d].harvested = Protocols

\* The run is over.
Ends(d, stage) ==
    /\ Becomes(d, At(stage))
    /\ due' = IF stage = "failed" THEN [due EXCEPT ![d] = {}] ELSE due
    /\ IF d = "backfill" THEN spent' = 0 /\ extra' = {} ELSE UNCHANGED <<spent, extra>>

\* A task failed for good: what is downstream of it never runs.
GiveUp(d) ==
    /\ run[d].stage = "harvest"
    /\ \A p \in Protocols : ~Pending(d, p)
    /\ ~AllSuccess(d)
    /\ Ends(d, "failed")
    /\ UNCHANGED stores

\* The task d is at fails: it is retried, or the run fails.
Fails(d, stage) ==
    /\ IF run[d].failed < Retries[d]
       THEN Becomes(d, [At(stage) EXCEPT !.failed = run[d].failed + 1])
            /\ UNCHANGED observed
       ELSE Ends(d, "failed")

-----------------------------------------------------------------------------
(* build_silver: docker exec spark-submit. *)

\* The job reads bronze.
SubmitJob(d) ==
    /\ \/ run[d].stage = "harvest" /\ AllSuccess(d)
       \/ run[d].stage = "build_silver"
    /\ Becomes(d, [At("spark") EXCEPT !.input = bronze,
                                      !.failed = IF run[d].stage = "harvest" THEN 0 ELSE run[d].failed])
    /\ UNCHANGED <<stores, observed>>

Merge(read) ==
    /\ silver' = silver \cup read
    /\ extra' = IF \E d \in Dags : d = "backfill" /\ run[d].stage \in {"embed", "loader"}
                THEN extra \cup (read \ silver) ELSE extra

\* Faulty variant: the check is detached from the graph.
AfterSilverUnchecked(d) == "embed"

AfterSilver(d) == IF d = "backfill" THEN "check_cost_ceiling" ELSE "embed"

JobEnds(d) ==
    /\ run[d].stage = "spark"
    /\ Merge(run[d].input)
    /\ Becomes(d, At(AfterSilver(d)))
    /\ UNCHANGED <<published, bronze, embedded, orphans, due, spent>>

JobFails(d) ==
    /\ run[d].stage = "spark"
    /\ Fails(d, "build_silver")
    /\ UNCHANGED stores

\* docker exec or the task dies; the job inside the container goes on.
TaskLosesJob(d) ==
    /\ run[d].stage = "spark"
    /\ Cardinality(orphans) < MaxOrphans
    /\ orphans' = orphans \cup {run[d].input}
    /\ Fails(d, "build_silver")
    /\ UNCHANGED <<published, bronze, silver, embedded>>

OrphanEnds ==
    /\ \E read \in orphans :
        /\ orphans' = orphans \ {read}
        /\ Merge(read) \/ UNCHANGED <<silver, extra>>
    /\ UNCHANGED <<published, bronze, embedded, run, due, spent>>

-----------------------------------------------------------------------------
(* check_cost_ceiling and embed *)

\* estimate_embedding_cost: silver's chunks that have no vector.
Estimate(d) == Cardinality(silver \ embedded)

\* An AirflowFailException: no retry.
CheckCostCeiling(d) ==
    /\ run[d].stage = "check_cost_ceiling"
    /\ IF Estimate(d) > Ceiling
       THEN Ends(d, "failed")
       ELSE Becomes(d, At("embed")) /\ UNCHANGED observed
    /\ UNCHANGED stores

\* The database or Trino cannot be reached; retries=0.
CheckFails(d) ==
    /\ run[d].stage = "check_cost_ceiling"
    /\ Ends(d, "failed")
    /\ UNCHANGED stores

\* The loader reads silver and drops what is embedded.
LoaderStarts(d) ==
    /\ run[d].stage = "embed"
    /\ Becomes(d, [run[d] EXCEPT !.stage = "loader", !.input = silver \ embedded])
    /\ UNCHANGED <<stores, observed>>

\* A batch is paid for and inserted; another loader may have inserted it.
EmbedBatch(d) ==
    /\ run[d].stage = "loader"
    /\ \E i \in run[d].input :
        /\ embedded' = embedded \cup {i}
        /\ Becomes(d, [run[d] EXCEPT !.input = @ \ {i}])
    /\ spent' = IF d = "backfill" THEN spent + 1 ELSE spent
    /\ UNCHANGED <<published, bronze, silver, orphans, due, extra>>

\* The loader fails; a batch it paid for and did not insert is paid for again.
LoaderFails(d) ==
    /\ run[d].stage = "loader"
    /\ Fails(d, "embed")
    /\ UNCHANGED stores

Succeed(d) ==
    /\ run[d].stage = "loader" /\ run[d].input = {}
    /\ Ends(d, "success")
    /\ UNCHANGED stores

Next ==
    \/ \E p \in Protocols : Publish(p)
    \/ OrphanEnds
    \/ \E d \in Dags :
        \/ Start(d) \/ GiveUp(d)
        \/ \E p \in Protocols : Harvest(d, p) \/ HarvestFails(d, p)
        \/ SubmitJob(d) \/ JobEnds(d) \/ JobFails(d) \/ TaskLosesJob(d)
        \/ CheckCostCeiling(d) \/ CheckFails(d)
        \/ LoaderStarts(d) \/ EmbedBatch(d) \/ LoaderFails(d) \/ Succeed(d)

Spec == Init /\ [][Next]_vars

-----------------------------------------------------------------------------

\* The quiet failure the DAGs are built against: a run that is shown green has
\* taken every item that was in its window when it started to the vector store,
\* whatever was retried, abandoned or run beside it; or a newer item of the
\* same protocol in its place.
GreenMeansDelivered ==
    \A d \in Dags : run[d].stage = "success" =>
        \A i \in due[d] : \E j \in embedded : j[1] = i[1] /\ j[2] >= i[2]

\* The vectors a backfill adds cost no more than the ceiling, but for those of
\* items that other jobs brought into silver after its check.
CeilingHolds == spent <= Ceiling + Cardinality(extra)
=============================================================================
