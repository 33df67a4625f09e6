--------------------------- MODULE PipelineProofs ---------------------------
(***************************************************************************)
(* Theorems about Pipeline for any protocols, DAGs, windows, retries and   *)
(* ceiling.                                                                *)
(*                                                                         *)
(* OnTheWay says where the items a run owes are at each of its stages,     *)
(* Bill what a backfill has paid for since its check: items the check has  *)
(* counted, and items that came into silver after it, each once.           *)
(***************************************************************************)
EXTENDS Pipeline, FiniteSetTheorems, TLAPS

Fields == {"stage", "harvested", "tries", "failed", "input"}

\* The stores are finite sets.
Stored == /\ IsFiniteSet(bronze) /\ IsFiniteSet(silver) /\ IsFiniteSet(extra)
          /\ \A read \in orphans : IsFiniteSet(read)

Shape == /\ published \in [Protocols -> Nat] /\ Stored
         /\ DOMAIN run = Dags /\ DOMAIN due = Dags
         /\ \A d \in Dags : DOMAIN run[d] = Fields /\ IsFiniteSet(run[d].input)

\* The item i, or a newer one of its protocol, is in the store S.
Reached(S, i) == \E j \in S : j[1] = i[1] /\ j[2] >= i[2]

\* Where the items are that the run of d owes.
OnTheWay(d) ==
    /\ \A i \in due[d] : /\ i[1] \in Protocols /\ i[2] \in Nat
                         /\ 1 <= i[2] /\ i[2] <= published[i[1]]
    /\ run[d].stage \in {"idle", "failed"} => due[d] = {}
    /\ run[d].stage = "harvest" =>
          \A i \in due[d] : i[1] \in run[d].harvested => Reached(bronze, i)
    /\ run[d].stage \in {"build_silver", "spark"} => \A i \in due[d] : Reached(bronze, i)
    /\ run[d].stage = "spark" => \A i \in due[d] : Reached(run[d].input, i)
    /\ run[d].stage \in {"check_cost_ceiling", "embed", "loader"} =>
          \A i \in due[d] : Reached(silver, i)
    /\ run[d].stage = "loader" => \A i \in due[d] : Reached(run[d].input \cup embedded, i)
    /\ run[d].stage = "success" => \A i \in due[d] : Reached(embedded, i)

IInv == Shape /\ \A d \in Dags : OnTheWay(d)

-----------------------------------------------------------------------------
(* Steps of a run. *)

\* A run enters a stage with nothing harvested and nothing read.
LEMMA AtFacts ==
    ASSUME NEW stage
    PROVE  /\ DOMAIN At(stage) = Fields /\ At(stage).stage = stage
           /\ At(stage).harvested = {} /\ At(stage).input = {}
BY DEF At, Fields

\* A window is finite, holds published items of its protocol only, and whatever
\* is published is in it or superseded by an item of it.
LEMMA InWindowFacts ==
    ASSUME Shape, NEW d \in Dags, NEW p \in Protocols
    PROVE  /\ IsFiniteSet(InWindow(d, p))
           /\ \A i \in InWindow(d, p) : i[1] = p /\ i[2] \in Nat /\ i[2] <= published[p] /\ i[2] >= 1
           /\ \A i : i[1] = p /\ i[2] \in Nat /\ i[2] <= published[p] /\ i[2] >= 1
                     => Reached(InWindow(d, p), i)
<1>1. published[p] \in Nat /\ Window[d] \in Nat /\ Window[d] > 0
  BY WindowAssumption DEF Shape
<1>2. InWindow(d, p) \in SUBSET ({p} \X (1..published[p]))
  BY DEF InWindow, Items
<1>3. IsFiniteSet({p} \X (1..published[p]))
  <2>1. IsFiniteSet(1..published[p])
    BY <1>1, FS_Interval
  <2>2. IsFiniteSet({p})
    BY FS_Singleton
  <2> QED BY <2>1, <2>2, FS_Product
<1>4. IsFiniteSet(InWindow(d, p))
  BY <1>2, <1>3, FS_Subset
<1>5. published[p] >= 1 => <<p, published[p]>> \in InWindow(d, p)
  BY <1>1 DEF InWindow, Items
<1> QED BY <1>1, <1>2, <1>4, <1>5 DEF Reached

\* A run that becomes r keeps the shape if r has it.
LEMMA BecomesFacts ==
    ASSUME Shape, NEW d \in Dags, NEW r, Becomes(d, r)
    PROVE  /\ DOMAIN run' = Dags /\ run'[d] = r
           /\ \A e \in Dags \ {d} : run'[e] = run[e]
BY DEF Shape, Becomes

\* What a store has reached, a larger one has.
LEMMA ReachedMore ==
    ASSUME NEW S, NEW T, S \subseteq T, NEW i, Reached(S, i)
    PROVE  Reached(T, i)
BY DEF Reached

\* The stores only grow, so the other runs are where they were.
Grow == /\ bronze \subseteq bronze' /\ silver \subseteq silver' /\ embedded \subseteq embedded'
        /\ published' \in [Protocols -> Nat]
        /\ \A p \in Protocols : published[p] <= published'[p]

\* A step that only adds to the stores leaves the runs it does not touch on
\* their way.
LEMMA OtherRuns ==
    ASSUME IInv, Grow, NEW e \in Dags, run'[e] = run[e], due'[e] = due[e]
    PROVE  OnTheWay(e)'
<1>1. OnTheWay(e) /\ published \in [Protocols -> Nat]
  BY DEF IInv, Shape
<1>2. ASSUME NEW i \in due[e]
      PROVE  i[1] \in Protocols /\ i[2] \in Nat /\ 1 <= i[2] /\ i[2] <= published'[i[1]]
  BY <1>1 DEF OnTheWay, Grow
<1>3. \A i : /\ Reached(bronze, i) => Reached(bronze', i)
             /\ Reached(silver, i) => Reached(silver', i)
             /\ Reached(embedded, i) => Reached(embedded', i)
             /\ Reached(run[e].input \cup embedded, i) => Reached(run[e].input \cup embedded', i)
  BY DEF Grow, Reached
<1> QED BY <1>1, <1>2, <1>3 DEF OnTheWay

\* A step of the run of d.
KeepsDue(d) == DOMAIN due' = Dags /\ \A e \in Dags \ {d} : due'[e] = due[e]

\* A step that leaves the stores alone satisfies what OtherRuns asks.
LEMMA SameStores ==
    ASSUME Shape
    PROVE  /\ UNCHANGED <<published, bronze, silver, embedded>> => Grow
           /\ \A d \in Dags : UNCHANGED due => KeepsDue(d)
           /\ UNCHANGED <<bronze, silver, orphans, extra>> => Stored'
<1>1. UNCHANGED <<published, bronze, silver, embedded>> => Grow
  BY DEF Grow, Shape
<1>2. UNCHANGED <<bronze, silver, orphans, extra>> => Stored'
  BY DEF Shape, Stored
<1>3. \A d \in Dags : UNCHANGED due => KeepsDue(d)
  BY DEF KeepsDue, Shape
<1> QED BY <1>1, <1>2, <1>3

\* The invariant after a step of run d, from what d has in hand after it.
LEMMA RunStep ==
    ASSUME IInv, NEW d \in Dags, NEW r, Becomes(d, r), DOMAIN r = Fields, IsFiniteSet(r.input),
           Grow, KeepsDue(d), Stored', OnTheWay(d)'
    PROVE  IInv'
<1>1. DOMAIN run' = Dags /\ run'[d] = r /\ \A e \in Dags \ {d} : run'[e] = run[e]
  BY BecomesFacts DEF IInv
<1>2. \A e \in Dags : DOMAIN run'[e] = Fields /\ IsFiniteSet(run'[e].input)
  BY <1>1 DEF IInv, Shape
<1>3. Shape'
  BY <1>1, <1>2 DEF Shape, Grow, KeepsDue
<1>4. \A e \in Dags : OnTheWay(e)'
  BY <1>1, OtherRuns DEF IInv, KeepsDue
<1> QED BY <1>3, <1>4 DEF IInv

\* Of a run that is over, or whose task is tried again.
LEMMA EndsOK ==
    ASSUME IInv, NEW d \in Dags, NEW stage, Ends(d, stage),
           UNCHANGED <<published, bronze, silver, embedded>>, \A o \in orphans' : IsFiniteSet(o),
           stage = "failed" \/ (stage = "success" /\ \A i \in due[d] : Reached(embedded, i))
    PROVE  IInv'
<1>1. Becomes(d, At(stage)) /\ run'[d] = At(stage)
  BY BecomesFacts DEF Ends, IInv
<1>2. KeepsDue(d) /\ due'[d] = IF stage = "failed" THEN {} ELSE due[d]
  BY DEF Ends, IInv, Shape, KeepsDue
<1>3. Stored'
  <2>1. IsFiniteSet(extra')
    BY FS_EmptySet DEF Ends, IInv, Shape, Stored
  <2> QED BY <2>1 DEF IInv, Shape, Stored
<1>4. OnTheWay(d)'
  BY <1>1, <1>2, AtFacts DEF IInv, OnTheWay
<1>5. Grow /\ IsFiniteSet(At(stage).input)
  BY SameStores, AtFacts, FS_EmptySet DEF IInv
<1> QED BY <1>1, <1>2, <1>3, <1>4, <1>5, AtFacts, RunStep

\* A task that fails, with or without an attempt left.
LEMMA FailsOK ==
    ASSUME IInv, NEW d \in Dags, NEW stage, Fails(d, stage),
           UNCHANGED <<published, bronze, silver, embedded>>, \A o \in orphans' : IsFiniteSet(o),
           \/ stage = "build_silver" /\ run[d].stage = "spark"
           \/ stage = "embed" /\ run[d].stage = "loader"
    PROVE  IInv'
<1>1. CASE Ends(d, "failed")
  BY <1>1, EndsOK
<1>2. CASE Becomes(d, [At(stage) EXCEPT !.failed = run[d].failed + 1]) /\ UNCHANGED observed
  <2> DEFINE r == [At(stage) EXCEPT !.failed = run[d].failed + 1]
  <2>1. DOMAIN r = Fields /\ r.stage = stage /\ r.input = {}
    BY AtFacts DEF Fields
  <2> HIDE DEF r
  <2>2. Becomes(d, r) /\ run'[d] = r /\ due' = due /\ extra' = extra
    BY <1>2, BecomesFacts DEF observed, IInv, r
  <2>3. Grow /\ KeepsDue(d)
    BY <2>2, SameStores DEF IInv
  <2>4. Stored'
    BY <2>2 DEF IInv, Shape, Stored
  <2>5. OnTheWay(d)'
    BY <2>1, <2>2 DEF IInv, OnTheWay
  <2>6. IsFiniteSet(r.input)
    BY <2>1, FS_EmptySet
  <2> QED BY <2>1, <2>2, <2>3, <2>4, <2>5, <2>6, RunStep
<1> QED BY <1>1, <1>2 DEF Fails

-----------------------------------------------------------------------------
(* What is due arrives. *)

\* Nothing is due before the first run.
LEMMA InitOK == Init => IInv
<1> SUFFICES ASSUME Init PROVE IInv
  OBVIOUS
<1>1. Shape
  BY AtFacts, FS_EmptySet DEF Init, Shape, Stored
<1>2. \A d \in Dags : run[d].stage = "idle" /\ due[d] = {}
  BY AtFacts DEF Init
<1> QED BY <1>1, <1>2 DEF IInv, OnTheWay

\* A run starts: what is published by then becomes due.
LEMMA StartOK ==
    ASSUME IInv, NEW d \in Dags, Start(d)
    PROVE  IInv'
<1>1. /\ Becomes(d, At("harvest")) /\ run'[d] = At("harvest")
      /\ UNCHANGED <<published, bronze, silver, embedded, orphans, extra>>
      /\ due' = [due EXCEPT ![d] = UNION {InWindow(d, p) : p \in Protocols}]
  BY BecomesFacts DEF Start, stores, IInv
<1>2. Grow /\ Stored' /\ IsFiniteSet(At("harvest").input)
  BY <1>1, SameStores, AtFacts, FS_EmptySet DEF IInv
<1>3. KeepsDue(d) /\ due'[d] = UNION {InWindow(d, p) : p \in Protocols}
  BY <1>1 DEF IInv, Shape, KeepsDue
<1>4. \A i \in due'[d] : i[1] \in Protocols /\ i[2] \in Nat /\ 1 <= i[2] /\ i[2] <= published[i[1]]
  BY <1>3, InWindowFacts DEF IInv
<1>5. OnTheWay(d)'
  BY <1>1, <1>4, AtFacts DEF OnTheWay
<1> QED BY <1>1, <1>2, <1>3, <1>5, AtFacts, RunStep

\* What a harvest fetches is no older than what was in its window before.
LEMMA HarvestOK ==
    ASSUME IInv, NEW d \in Dags, NEW p \in Protocols, Harvest(d, p) \/ HarvestFails(d, p)
    PROVE  IInv'
<1>1. run[d].stage = "harvest" /\ OnTheWay(d) /\ DOMAIN run[d] = Fields /\ IsFiniteSet(run[d].input)
  BY DEF Harvest, HarvestFails, Pending, IInv, Shape
<1>2. UNCHANGED <<published, silver, embedded, orphans, due, extra>>
  BY DEF Harvest, HarvestFails, observed
<1>3. PICK part \in SUBSET InWindow(d, p) : /\ bronze' = bronze \cup part
                                            /\ Harvest(d, p) => part = InWindow(d, p)
  BY DEF Harvest, HarvestFails
<1>4. Stored' /\ Grow /\ KeepsDue(d)
  <2>1. IsFiniteSet(part)
    BY <1>3, InWindowFacts, FS_Subset DEF IInv
  <2>2. IsFiniteSet(bronze')
    BY <1>3, <2>1, FS_Union DEF IInv, Shape, Stored
  <2>3. Stored'
    BY <1>2, <2>2 DEF IInv, Shape, Stored
  <2>4. Grow
    BY <1>2, <1>3 DEF Grow, IInv, Shape
  <2> QED BY <1>2, <2>3, <2>4, SameStores DEF IInv
<1>5. \A i : Reached(bronze, i) => Reached(bronze', i)
  BY <1>3 DEF Reached
<1>6. CASE Harvest(d, p)
  <2> DEFINE r == [run[d] EXCEPT !.harvested = @ \cup {p}]
  <2>1. DOMAIN r = Fields /\ r.stage = "harvest" /\ r.harvested = run[d].harvested \cup {p}
        /\ r.input = run[d].input
    BY <1>1 DEF Fields
  <2> HIDE DEF r
  <2>2. Becomes(d, r) /\ run'[d] = r
    BY <1>6, BecomesFacts DEF Harvest, IInv, r
  <2>3. \A i \in due[d] : i[1] = p => Reached(bronze', i)
    <3>1. \A i \in due[d] : i[1] = p => Reached(InWindow(d, p), i)
      BY <1>1, InWindowFacts DEF IInv, OnTheWay
    <3> QED BY <1>3, <1>6, <3>1 DEF Reached
  <2>4. \A i \in due[d] : i[1] \in r.harvested => Reached(bronze', i)
    BY <1>1, <1>5, <2>1, <2>3 DEF OnTheWay
  <2>5. OnTheWay(d)'
    BY <1>1, <1>2, <2>1, <2>2, <2>4 DEF OnTheWay
  <2> QED BY <1>1, <1>4, <2>1, <2>2, <2>5, RunStep
<1>7. CASE HarvestFails(d, p)
  <2> DEFINE r == [run[d] EXCEPT !.tries[p] = @ + 1]
  <2>1. DOMAIN r = Fields /\ r.stage = "harvest" /\ r.harvested = run[d].harvested
        /\ r.input = run[d].input
    BY <1>1 DEF Fields
  <2> HIDE DEF r
  <2>2. Becomes(d, r) /\ run'[d] = r
    BY <1>7, BecomesFacts DEF HarvestFails, IInv, r
  <2>3. OnTheWay(d)'
    BY <1>1, <1>2, <1>5, <2>1, <2>2 DEF OnTheWay
  <2> QED BY <1>1, <1>4, <2>1, <2>2, <2>3, RunStep
<1> QED BY <1>6, <1>7

\* The Spark job is submitted with what bronze holds.
LEMMA SubmitOK ==
    ASSUME IInv, NEW d \in Dags, SubmitJob(d)
    PROVE  IInv'
<1> DEFINE r == [At("spark") EXCEPT !.input = bronze,
                   !.failed = IF run[d].stage = "harvest" THEN 0 ELSE run[d].failed]
<1>1. DOMAIN r = Fields /\ r.stage = "spark" /\ r.input = bronze
  BY AtFacts DEF Fields
<1> HIDE DEF r
<1>2. Becomes(d, r) /\ run'[d] = r /\ UNCHANGED <<published, bronze, silver, embedded, orphans, due, extra>>
  BY BecomesFacts DEF SubmitJob, stores, observed, IInv, r
<1>3. \A i \in due[d] : Reached(bronze, i)
  BY DEF SubmitJob, AllSuccess, IInv, OnTheWay
<1>4. OnTheWay(d)'
  BY <1>1, <1>2, <1>3 DEF IInv, OnTheWay
<1>5. Grow /\ Stored' /\ KeepsDue(d)
  BY <1>2, SameStores DEF IInv
<1>6. IsFiniteSet(r.input)
  BY <1>1 DEF IInv, Shape, Stored
<1> QED BY <1>1, <1>2, <1>4, <1>5, <1>6, RunStep

\* A merge adds what the job read to silver.
LEMMA MergeFacts ==
    ASSUME Shape, NEW read, IsFiniteSet(read), Merge(read)
    PROVE  silver' = silver \cup read /\ IsFiniteSet(silver') /\ IsFiniteSet(extra')
<1>1. IsFiniteSet(silver \cup read) /\ IsFiniteSet(read \ silver)
  BY FS_Union, FS_Difference DEF Shape, Stored
<1>2. IsFiniteSet(extra \cup (read \ silver))
  BY <1>1, FS_Union DEF Shape, Stored
<1> QED BY <1>1, <1>2 DEF Merge, Shape, Stored

\* The job commits and its task succeeds.
LEMMA JobEndsOK ==
    ASSUME IInv, NEW d \in Dags, JobEnds(d)
    PROVE  IInv'
<1>1. /\ Becomes(d, At(AfterSilver(d))) /\ run'[d] = At(AfterSilver(d))
      /\ UNCHANGED <<published, bronze, embedded, orphans, due>> /\ run[d].stage = "spark"
  BY BecomesFacts DEF JobEnds, IInv
<1>2. AfterSilver(d) \in {"check_cost_ceiling", "embed"}
  BY DEF AfterSilver
<1>3. silver' = silver \cup run[d].input /\ IsFiniteSet(silver') /\ IsFiniteSet(extra')
  BY MergeFacts DEF JobEnds, IInv, Shape
<1>4. Stored'
  BY <1>1, <1>3 DEF IInv, Shape, Stored
<1>5. Grow /\ KeepsDue(d)
  BY <1>1, <1>3, SameStores DEF Grow, IInv, Shape
<1>6. \A i \in due[d] : Reached(silver', i)
  BY <1>1, <1>3 DEF IInv, OnTheWay, Reached
<1>7. OnTheWay(d)'
  BY <1>1, <1>2, <1>6, AtFacts DEF IInv, OnTheWay
<1>8. IsFiniteSet(At(AfterSilver(d)).input)
  BY AtFacts, FS_EmptySet
<1> QED BY <1>1, <1>4, <1>5, <1>7, <1>8, AtFacts, RunStep

\* The loader computes its work list, then embeds item by item.
LEMMA LoaderOK ==
    ASSUME IInv, NEW d \in Dags, LoaderStarts(d) \/ EmbedBatch(d)
    PROVE  IInv'
<1>1. DOMAIN run[d] = Fields /\ IsFiniteSet(run[d].input) /\ OnTheWay(d)
      /\ UNCHANGED <<published, bronze, silver, orphans, due, extra>>
  BY DEF LoaderStarts, EmbedBatch, stores, observed, IInv, Shape
<1>2. Stored' /\ KeepsDue(d)
  BY <1>1, SameStores DEF IInv
<1>3. CASE LoaderStarts(d)
  <2> DEFINE r == [run[d] EXCEPT !.stage = "loader", !.input = silver \ embedded]
  <2>1. DOMAIN r = Fields /\ r.stage = "loader" /\ r.input = silver \ embedded
    BY <1>1 DEF Fields
  <2> HIDE DEF r
  <2>2. Becomes(d, r) /\ run'[d] = r /\ embedded' = embedded /\ run[d].stage = "embed"
    BY <1>3, BecomesFacts DEF LoaderStarts, stores, IInv, r
  <2>3. \A i : Reached(silver, i) => Reached((silver \ embedded) \cup embedded, i)
    BY DEF Reached
  <2>4. OnTheWay(d)'
    BY <1>1, <2>1, <2>2, <2>3 DEF OnTheWay
  <2>5. Grow
    BY <1>1, <2>2, SameStores DEF IInv
  <2>6. IsFiniteSet(r.input)
    BY <2>1, FS_Difference DEF IInv, Shape, Stored
  <2> QED BY <1>1, <1>2, <2>1, <2>2, <2>4, <2>5, <2>6, RunStep
<1>4. CASE EmbedBatch(d)
  <2>1. PICK i \in run[d].input : /\ embedded' = embedded \cup {i}
                                  /\ Becomes(d, [run[d] EXCEPT !.input = @ \ {i}])
    BY <1>4 DEF EmbedBatch
  <2> DEFINE r == [run[d] EXCEPT !.input = @ \ {i}]
  <2>2. DOMAIN r = Fields /\ r.stage = "loader" /\ r.input = run[d].input \ {i}
    BY <1>1, <1>4 DEF Fields, EmbedBatch
  <2> HIDE DEF r
  <2>3. run'[d] = r /\ Becomes(d, r) /\ run[d].stage = "loader"
    BY <1>4, <2>1, BecomesFacts DEF IInv, r, EmbedBatch
  <2>4. r.input \cup embedded' = run[d].input \cup embedded
    BY <2>1, <2>2
  <2>5. OnTheWay(d)'
    BY <1>1, <2>2, <2>3, <2>4 DEF OnTheWay
  <2>6. Grow
    BY <1>1, <2>1 DEF Grow, IInv, Shape
  <2>7. IsFiniteSet(r.input)
    BY <1>1, <2>2, FS_RemoveElement
  <2> QED BY <1>1, <1>2, <2>2, <2>3, <2>5, <2>6, <2>7, RunStep
<1> QED BY <1>3, <1>4

\* A run ends green only with everything due embedded.
LEMMA SucceedOK ==
    ASSUME IInv, NEW d \in Dags, Succeed(d)
    PROVE  IInv'
<1>1. UNCHANGED <<published, bronze, silver, embedded, orphans>>
  BY DEF Succeed, stores
<1>2. run[d].input \cup embedded = embedded /\ \A i \in due[d] : Reached(embedded, i)
  BY DEF Succeed, IInv, OnTheWay
<1>3. \A o \in orphans' : IsFiniteSet(o)
  BY <1>1 DEF IInv, Shape, Stored
<1> QED BY <1>1, <1>2, <1>3, EndsOK DEF Succeed

\* The ceiling check lets the run pass to the loader or fails it.
LEMMA CheckOK ==
    ASSUME IInv, NEW d \in Dags, CheckCostCeiling(d)
    PROVE  IInv'
<1>1. UNCHANGED <<published, bronze, silver, embedded, orphans>> /\ run[d].stage = "check_cost_ceiling"
  BY DEF CheckCostCeiling, stores
<1>2. CASE Ends(d, "failed")
  <2>1. \A o \in orphans' : IsFiniteSet(o)
    BY <1>1 DEF IInv, Shape, Stored
  <2> QED BY <1>1, <1>2, <2>1, EndsOK
<1>3. CASE Becomes(d, At("embed")) /\ UNCHANGED observed
  <2>1. run'[d] = At("embed") /\ due' = due /\ extra' = extra
    BY <1>3, BecomesFacts DEF observed, IInv
  <2>2. Grow /\ Stored' /\ KeepsDue(d)
    BY <1>1, <2>1, SameStores DEF IInv
  <2>3. OnTheWay(d)'
    <3>1. OnTheWay(d) /\ \A i \in due[d] : Reached(silver, i)
      BY <1>1 DEF IInv, OnTheWay
    <3> QED BY <1>1, <2>1, <3>1, AtFacts DEF OnTheWay
  <2>4. IsFiniteSet(At("embed").input)
    BY AtFacts, FS_EmptySet
  <2> QED BY <1>3, <2>2, <2>3, <2>4, AtFacts, RunStep
<1> QED BY <1>2, <1>3 DEF CheckCostCeiling

\* Steps of no run: the stores grow at most.
LEMMA OutsideOK ==
    ASSUME IInv, OrphanEnds \/ (\E p \in Protocols : Publish(p)) \/ UNCHANGED vars
    PROVE  IInv'
<1>1. UNCHANGED <<bronze, embedded, run, due>>
  BY DEF OrphanEnds, Publish, vars, stores, observed
<1>2. ASSUME Grow, Stored' PROVE IInv'
  <2>1. Shape'
    BY <1>1, <1>2 DEF IInv, Shape, Grow
  <2> QED BY <1>1, <1>2, <2>1, OtherRuns DEF IInv
<1>3. CASE OrphanEnds
  <2>1. PICK read \in orphans : /\ orphans' = orphans \ {read}
                                /\ Merge(read) \/ UNCHANGED <<silver, extra>>
    BY <1>3 DEF OrphanEnds
  <2>2. silver \subseteq silver' /\ IsFiniteSet(silver') /\ IsFiniteSet(extra')
    BY <2>1, MergeFacts DEF IInv, Shape, Stored
  <2>3. Grow
    BY <1>1, <1>3, <2>2 DEF OrphanEnds, Grow, IInv, Shape
  <2>4. Stored'
    BY <1>1, <2>1, <2>2 DEF IInv, Shape, Stored
  <2> QED BY <1>2, <2>3, <2>4
<1>4. ASSUME NEW p \in Protocols, Publish(p) PROVE IInv'
  <2>1. UNCHANGED <<silver, orphans, extra>> /\ published' = [published EXCEPT ![p] = @ + 1]
    BY <1>4 DEF Publish, observed
  <2>2. Grow /\ Stored'
    BY <1>1, <2>1, SameStores DEF Grow, IInv, Shape
  <2> QED BY <1>2, <2>2
<1>5. CASE UNCHANGED vars
  BY <1>2, <1>5, SameStores DEF vars, stores, observed, IInv
<1> QED BY <1>3, <1>4, <1>5

\* Every step keeps the invariant.
LEMMA StepOK == IInv /\ [Next]_vars => IInv'
<1> SUFFICES ASSUME IInv, [Next]_vars PROVE IInv'
  OBVIOUS
<1>1. ASSUME NEW d \in Dags, GiveUp(d) \/ CheckFails(d) PROVE IInv'
  <2>1. UNCHANGED <<published, bronze, silver, embedded, orphans>> /\ Ends(d, "failed")
    BY <1>1 DEF GiveUp, CheckFails, stores
  <2> QED BY <2>1, EndsOK DEF IInv, Shape, Stored
<1>2. ASSUME NEW d \in Dags, JobFails(d) \/ LoaderFails(d) PROVE IInv'
  <2>1. UNCHANGED <<published, bronze, silver, embedded, orphans>>
    BY <1>2 DEF JobFails, LoaderFails, stores
  <2> QED BY <1>2, <2>1, FailsOK DEF JobFails, LoaderFails, IInv, Shape, Stored
<1>3. ASSUME NEW d \in Dags, TaskLosesJob(d) PROVE IInv'
  <2>1. UNCHANGED <<published, bronze, silver, embedded>> /\ orphans' = orphans \cup {run[d].input}
        /\ Fails(d, "build_silver") /\ run[d].stage = "spark"
    BY <1>3 DEF TaskLosesJob
  <2>2. \A o \in orphans' : IsFiniteSet(o)
    BY <2>1 DEF IInv, Shape, Stored
  <2> QED BY <2>1, <2>2, FailsOK
<1> QED BY <1>1, <1>2, <1>3, StartOK, HarvestOK, SubmitOK, JobEndsOK, LoaderOK, SucceedOK, CheckOK,
           OutsideOK DEF Next

\* The invariant holds in every behaviour.
LEMMA Inductive == Spec => []IInv
BY InitOK, StepOK, PTL DEF Spec

\* A run that is shown green has taken what was in its window when it started,
\* or something newer of the same protocol, to the vector store: for any number
\* of DAGs that run at once, with tasks retried and Spark jobs left behind.
THEOREM GreenIsDelivered == Spec => []GreenMeansDelivered
<1>1. IInv => GreenMeansDelivered
  BY DEF IInv, OnTheWay, Reached, GreenMeansDelivered
<1> QED BY <1>1, Inductive, PTL

-----------------------------------------------------------------------------
(* What a backfill may spend. *)

Embedding(d) == d = "backfill" /\ run[d].stage \in {"embed", "loader"}

\* The check has counted C; since then the items P were paid for.
Billed(d, C, P) ==
    /\ IsFiniteSet(C) /\ Cardinality(C) <= Ceiling
    /\ P \subseteq C \cup extra /\ P \subseteq embedded /\ spent = Cardinality(P)
    /\ silver \ embedded \subseteq C \cup extra
    /\ run[d].stage = "loader" => run[d].input \subseteq (C \cup extra) \ P

Bill == /\ (~\E d \in Dags : Embedding(d)) => spent = 0 /\ extra = {}
        /\ \A d \in Dags : Embedding(d) => \E C, P : Billed(d, C, P)

\* No bill is open at first.
LEMMA BillInit == Init => Bill
BY AtFacts DEF Init, Bill, Embedding

\* A backfill that is not at its embed task has spent nothing.
LEMMA BillClosed ==
    ASSUME NEW d \in Dags, d = "backfill", run'[d].stage \notin {"embed", "loader"},
           spent' = 0, extra' = {}
    PROVE  Bill'
BY DEF Bill, Embedding

\* Others bring items into silver or into the vector store.
LEMMA BillOthers ==
    ASSUME Bill, \A d \in Dags : d = "backfill" => run'[d] = run[d],
           spent' = spent, embedded \subseteq embedded',
           UNCHANGED <<silver, extra>> \/ \E read : Merge(read)
    PROVE  Bill'
<1>1. ASSUME NEW d \in Dags, Embedding(d)
      PROVE  silver' \ silver \subseteq extra' /\ extra \subseteq extra'
  BY <1>1 DEF Merge, Embedding
<1>2. (~\E d \in Dags : Embedding(d)) => extra' = extra
  BY DEF Merge, Embedding
<1>3. \A d \in Dags : Embedding(d)' <=> Embedding(d)
  BY DEF Embedding
<1>4. ASSUME NEW d \in Dags, Embedding(d)
      PROVE  \E C, P : Billed(d, C, P)'
  <2>1. PICK C, P : Billed(d, C, P)
    BY <1>4 DEF Bill
  <2>2. run'[d] = run[d]
    BY <1>4 DEF Embedding
  <2>3. Billed(d, C, P)'
    BY <1>1, <1>4, <2>1, <2>2 DEF Billed
  <2> QED BY <2>3
<1> QED BY <1>2, <1>3, <1>4 DEF Bill

\* Its own loader pays for each item once.
LEMMA BillBatch ==
    ASSUME IInv, Bill, NEW d \in Dags, d = "backfill", EmbedBatch(d)
    PROVE  Bill'
<1>1. PICK i \in run[d].input : /\ embedded' = embedded \cup {i}
                                /\ Becomes(d, [run[d] EXCEPT !.input = @ \ {i}])
  BY DEF EmbedBatch
<1>2. run[d].stage = "loader" /\ spent' = spent + 1 /\ UNCHANGED <<silver, extra>>
  BY DEF EmbedBatch
<1>3. run'[d].stage = "loader" /\ run'[d].input = run[d].input \ {i}
  BY <1>1, <1>2 DEF Becomes, IInv, Shape, Fields
<1>4. PICK C, P : Billed(d, C, P)
  BY <1>2 DEF Bill, Embedding
<1>5. i \in (C \cup extra) \ P
  BY <1>1, <1>2, <1>4 DEF Billed
<1>6. IsFiniteSet(P)
  <2>1. IsFiniteSet(C \cup extra)
    BY <1>4, FS_Union DEF Billed, IInv, Shape, Stored
  <2> QED BY <1>4, <2>1, FS_Subset DEF Billed
<1>7. Cardinality(P \cup {i}) = Cardinality(P) + 1
  BY <1>5, <1>6, FS_AddElement
<1>8. Billed(d, C, P \cup {i})'
  BY <1>1, <1>2, <1>3, <1>4, <1>5, <1>7 DEF Billed
<1>9. Embedding(d)' /\ \A e \in Dags : Embedding(e)' => e = d
  BY <1>3 DEF Embedding
<1> QED BY <1>8, <1>9 DEF Bill

\* It starts, with what is left, or is tried again.
LEMMA BillLoader ==
    ASSUME IInv, Bill, NEW d \in Dags, d = "backfill", Embedding(d),
           \/ run'[d].stage = "embed"
           \/ run'[d].stage = "loader" /\ run'[d].input = silver \ embedded,
           UNCHANGED <<silver, embedded, spent, extra>>
    PROVE  Bill'
<1>1. PICK C, P : Billed(d, C, P)
  BY DEF Bill
<1>2. Billed(d, C, P)'
  BY <1>1 DEF Billed
<1>3. Embedding(d)' /\ \A e \in Dags : Embedding(e)' => e = d
  BY DEF Embedding
<1> QED BY <1>2, <1>3 DEF Bill

\* The check opens a bill: what the loader may embed was estimated within the
\* ceiling.
LEMMA BillCheck ==
    ASSUME IInv, Bill, NEW d \in Dags, d = "backfill", CheckCostCeiling(d)
    PROVE  Bill'
<1>1. UNCHANGED <<silver, embedded>> /\ run[d].stage = "check_cost_ceiling"
  BY DEF CheckCostCeiling, stores
<1>2. CASE Ends(d, "failed")
  <2>1. run'[d].stage = "failed" /\ spent' = 0 /\ extra' = {}
    BY <1>2, AtFacts, BecomesFacts DEF Ends, IInv
  <2> QED BY <2>1, BillClosed
<1>3. CASE ~(Estimate(d) > Ceiling)
  <2>1. Becomes(d, At("embed")) /\ UNCHANGED <<spent, extra>>
    BY <1>3 DEF CheckCostCeiling, observed
  <2>2. run'[d].stage = "embed"
    BY <2>1, AtFacts, BecomesFacts DEF IInv
  <2>3. IsFiniteSet(silver \ embedded) /\ Cardinality(silver \ embedded) \in Nat
    BY FS_Difference, FS_CardinalityType DEF IInv, Shape, Stored
  <2>4. Cardinality(silver \ embedded) <= Ceiling
    BY <1>3, <2>3, CeilingAssumption DEF Estimate
  <2>5. spent = 0 /\ extra = {}
    BY <1>1 DEF Bill, Embedding
  <2>6. Billed(d, silver \ embedded, {})'
    BY <1>1, <2>1, <2>2, <2>3, <2>4, <2>5, FS_EmptySet DEF Billed
  <2>7. Embedding(d)' /\ \A e \in Dags : Embedding(e)' => e = d
    BY <2>2 DEF Embedding
  <2> QED BY <2>6, <2>7 DEF Bill
<1> QED BY <1>2, <1>3 DEF CheckCostCeiling

\* Every step keeps the bill.
LEMMA BillStep == IInv /\ Bill /\ [Next]_vars => Bill'
<1> SUFFICES ASSUME IInv, Bill, [Next]_vars PROVE Bill'
  OBVIOUS
<1>1. CASE OrphanEnds \/ (\E p \in Protocols : Publish(p)) \/ UNCHANGED vars
  <2>1. UNCHANGED <<run, spent, embedded>> /\ (UNCHANGED <<silver, extra>> \/ \E read : Merge(read))
    BY <1>1 DEF OrphanEnds, Publish, vars, stores, observed
  <2> QED BY <2>1, BillOthers
<1>2. ASSUME NEW d \in Dags, d # "backfill",
             \/ Start(d) \/ GiveUp(d)
             \/ \E p \in Protocols : Harvest(d, p) \/ HarvestFails(d, p)
             \/ SubmitJob(d) \/ JobEnds(d) \/ JobFails(d) \/ TaskLosesJob(d)
             \/ CheckCostCeiling(d) \/ CheckFails(d)
             \/ LoaderStarts(d) \/ EmbedBatch(d) \/ LoaderFails(d) \/ Succeed(d)
      PROVE  Bill'
  <2>1. \E r : Becomes(d, r)
    BY <1>2 DEF Start, GiveUp, Harvest, HarvestFails, SubmitJob, JobEnds, JobFails, TaskLosesJob,
                CheckCostCeiling, CheckFails, LoaderStarts, EmbedBatch, LoaderFails, Succeed, Ends, Fails
  <2>2. \A e \in Dags : e = "backfill" => run'[e] = run[e]
    BY <1>2, <2>1, BecomesFacts DEF IInv
  <2>3. spent' = spent /\ embedded \subseteq embedded'
    BY <1>2 DEF Start, GiveUp, Harvest, HarvestFails, SubmitJob, JobEnds, JobFails, TaskLosesJob,
                CheckCostCeiling, CheckFails, LoaderStarts, EmbedBatch, LoaderFails, Succeed, Ends, Fails,
                stores, observed
  <2>4. UNCHANGED <<silver, extra>> \/ \E read : Merge(read)
    BY <1>2 DEF Start, GiveUp, Harvest, HarvestFails, SubmitJob, JobEnds, JobFails, TaskLosesJob,
                CheckCostCeiling, CheckFails, LoaderStarts, EmbedBatch, LoaderFails, Succeed, Ends, Fails,
                stores, observed
  <2> QED BY <2>2, <2>3, <2>4, BillOthers
<1>3. ASSUME NEW d \in Dags, d = "backfill",
             \/ Start(d) \/ GiveUp(d)
             \/ \E p \in Protocols : Harvest(d, p) \/ HarvestFails(d, p)
             \/ SubmitJob(d) \/ JobEnds(d) \/ JobFails(d) \/ TaskLosesJob(d)
             \/ CheckFails(d) \/ Succeed(d)
      PROVE  Bill'
  <2>1. CASE Ends(d, "failed") \/ Ends(d, "success")
    <3>1. spent' = 0 /\ extra' = {} /\ run'[d].stage \in {"failed", "success"}
      BY <1>3, <2>1, AtFacts, BecomesFacts DEF Ends, IInv
    <3> QED BY <1>3, <3>1, BillClosed
  <2>2. CASE Start(d) \/ SubmitJob(d) \/ \E p \in Protocols : Harvest(d, p) \/ HarvestFails(d, p)
    <3>1. UNCHANGED <<spent, extra>> /\ run[d].stage \notin {"embed", "loader"}
      BY <2>2 DEF Start, SubmitJob, Harvest, HarvestFails, Pending, observed
    <3>2. run'[d].stage \in {"harvest", "spark"}
      <4>1. PICK r : Becomes(d, r) /\ r.stage \in {"harvest", "spark"}
        <5>1. ASSUME Start(d) PROVE \E r : Becomes(d, r) /\ r.stage = "harvest"
          BY <5>1, AtFacts DEF Start
        <5>2. ASSUME SubmitJob(d) PROVE \E r : Becomes(d, r) /\ r.stage = "spark"
          <6> DEFINE r == [At("spark") EXCEPT !.input = bronze,
                             !.failed = IF run[d].stage = "harvest" THEN 0 ELSE run[d].failed]
          <6>1. r.stage = "spark"
            BY AtFacts DEF Fields
          <6>2. Becomes(d, r)
            BY <5>2 DEF SubmitJob
          <6> HIDE DEF r
          <6> QED BY <6>1, <6>2
        <5>3. ASSUME NEW p \in Protocols, Harvest(d, p) PROVE \E r : Becomes(d, r) /\ r.stage = "harvest"
          BY <5>3 DEF Harvest, Pending, IInv, Shape, Fields
        <5>4. ASSUME NEW p \in Protocols, HarvestFails(d, p) PROVE \E r : Becomes(d, r) /\ r.stage = "harvest"
          BY <5>4 DEF HarvestFails, Pending, IInv, Shape, Fields
        <5> QED BY <2>2, <5>1, <5>2, <5>3, <5>4
      <4> QED BY <4>1, BecomesFacts DEF IInv
    <3>3. spent = 0 /\ extra = {}
      BY <1>3, <3>1 DEF Bill, Embedding
    <3> QED BY <1>3, <3>1, <3>2, <3>3, BillClosed
  <2>3. CASE JobEnds(d)
    <3>1. run[d].stage = "spark" /\ run'[d].stage = "check_cost_ceiling" /\ spent' = spent
      BY <1>3, <2>3, AtFacts, BecomesFacts DEF JobEnds, AfterSilver, IInv
    <3>2. spent = 0 /\ extra = {}
      BY <1>3, <3>1 DEF Bill, Embedding
    <3>3. extra' = {}
      BY <1>3, <2>3, <3>1, <3>2 DEF JobEnds, Merge
    <3> QED BY <1>3, <3>1, <3>2, <3>3, BillClosed
  <2>4. CASE Fails(d, "build_silver") /\ run[d].stage = "spark" /\ ~Ends(d, "failed")
    <3>1. Becomes(d, [At("build_silver") EXCEPT !.failed = run[d].failed + 1]) /\ UNCHANGED <<spent, extra>>
      BY <2>4 DEF Fails, observed
    <3>2. run'[d].stage = "build_silver"
      BY <3>1, AtFacts DEF Becomes, IInv, Shape, Fields
    <3>3. spent = 0 /\ extra = {}
      BY <1>3, <2>4 DEF Bill, Embedding
    <3> QED BY <1>3, <3>1, <3>2, <3>3, BillClosed
  <2> QED BY <1>3, <2>1, <2>2, <2>3, <2>4 DEF GiveUp, JobFails, TaskLosesJob, CheckFails, Succeed
<1>4. ASSUME NEW d \in Dags, d = "backfill", LoaderStarts(d) PROVE Bill'
  <2>1. run[d].stage = "embed" /\ UNCHANGED <<silver, embedded, spent, extra>>
    BY <1>4 DEF LoaderStarts, stores, observed
  <2>2. run'[d].stage = "loader" /\ run'[d].input = silver \ embedded
    BY <1>4 DEF LoaderStarts, Becomes, IInv, Shape, Fields
  <2> QED BY <1>4, <2>1, <2>2, BillLoader DEF Embedding
<1>5. ASSUME NEW d \in Dags, d = "backfill", LoaderFails(d) PROVE Bill'
  <2>1. run[d].stage = "loader" /\ UNCHANGED <<silver, embedded>>
    BY <1>5 DEF LoaderFails, stores
  <2>2. CASE Ends(d, "failed")
    <3>1. spent' = 0 /\ extra' = {} /\ run'[d].stage = "failed"
      BY <1>5, <2>2, AtFacts, BecomesFacts DEF Ends, IInv
    <3> QED BY <1>5, <3>1, BillClosed
  <2>3. CASE Becomes(d, [At("embed") EXCEPT !.failed = run[d].failed + 1]) /\ UNCHANGED observed
    <3> DEFINE r == [At("embed") EXCEPT !.failed = run[d].failed + 1]
    <3>0. r.stage = "embed"
      BY AtFacts DEF Fields
    <3> HIDE DEF r
    <3>1. run'[d].stage = "embed" /\ UNCHANGED <<spent, extra>>
      BY <2>3, <3>0, BecomesFacts DEF IInv, observed, r
    <3> QED BY <1>5, <2>1, <3>1, BillLoader DEF Embedding
  <2> QED BY <1>5, <2>2, <2>3 DEF LoaderFails, Fails
<1> QED BY <1>1, <1>2, <1>3, <1>4, <1>5, BillBatch, BillCheck DEF Next

\* The vectors a backfill adds cost no more than the ceiling, but for those of
\* items that came into silver after its check: also if its embed task is tried
\* again, and a daily run embeds and merges beside it.
THEOREM TheCeilingHolds == Spec => []CeilingHolds
<1>1. IInv /\ Bill => CeilingHolds
  <2> SUFFICES ASSUME IInv, Bill PROVE spent <= Ceiling + Cardinality(extra)
    BY DEF CeilingHolds
  <2>1. IsFiniteSet(extra) /\ Cardinality(extra) \in Nat
    BY FS_CardinalityType DEF IInv, Shape, Stored
  <2>2. CASE ~\E d \in Dags : Embedding(d)
    BY <2>1, <2>2, CeilingAssumption DEF Bill
  <2>3. ASSUME NEW d \in Dags, Embedding(d) PROVE spent <= Ceiling + Cardinality(extra)
    <3>1. PICK C, P : Billed(d, C, P)
      BY <2>3 DEF Bill
    <3>2. IsFiniteSet(C) /\ Cardinality(C) \in Nat /\ Cardinality(C \cap extra) \in Nat
      <4>1. IsFiniteSet(C) /\ IsFiniteSet(C \cap extra)
        BY <3>1, FS_Subset DEF Billed
      <4> QED BY <4>1, FS_CardinalityType
    <3>3. /\ IsFiniteSet(C \cup extra) /\ Cardinality(C \cup extra) \in Nat
          /\ Cardinality(C \cup extra) = Cardinality(C) + Cardinality(extra) - Cardinality(C \cap extra)
      <4>1. /\ IsFiniteSet(C \cup extra)
            /\ Cardinality(C \cup extra) = Cardinality(C) + Cardinality(extra) - Cardinality(C \cap extra)
        BY <2>1, <3>2, FS_Union
      <4> QED BY <4>1, FS_CardinalityType
    <3>4. IsFiniteSet(P) /\ Cardinality(P) <= Cardinality(C \cup extra)
      BY <3>1, <3>3, FS_Subset DEF Billed
    <3>5. Cardinality(P) \in Nat
      BY <3>4, FS_CardinalityType
    <3> QED BY <2>1, <3>1, <3>2, <3>3, <3>4, <3>5, CeilingAssumption DEF Billed
  <2> QED BY <2>2, <2>3
<1>2. Spec => []Bill
  BY BillInit, BillStep, Inductive, PTL DEF Spec
<1> QED BY <1>1, <1>2, Inductive, PTL
=============================================================================
