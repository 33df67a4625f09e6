---------------------------- MODULE BronzeProofs ----------------------------
(***************************************************************************)
(* Theorems about Bronze for any number of entities, units and harvesters. *)
(*                                                                         *)
(* The inductive invariant says of each harvester what it has in hand: of  *)
(* the unit it works on, with contents it fetched (RunOK).  On it rest the *)
(* facts about the bucket: an object is addressed by its content, whatever *)
(* telemetry came with it (BucketOK).  Which objects can be replaced is    *)
(* then a matter of who asked for the key before it was there              *)
(* (SettledStays), for any harvesters.  That no object of an entity is     *)
(* ever replaced needs more, namely that one process alone harvests the    *)
(* entity (Unshared): then what a HEAD request did not find is still not   *)
(* there when the PUT is sent (NothingToReplace).                          *)
(***************************************************************************)
EXTENDS Bronze, TLAPS

\* What is hashed of a content.
Projection(c) == [f \in {"activity"} |-> c]

\* The telemetry does not reach the digest: prune() leaves the content.
LEMMA DigestIsContent ==
    ASSUME NEW e, NEW c, NEW noise PROVE Digest(e, c, noise) = Projection(c)
BY DEF Digest, Prune, Response, Fields, HashExclude, VolatileFields, Projection

\* Different contents have different digests.
LEMMA ProjectionTells ==
    ASSUME NEW c, NEW d PROVE Projection(c) = Projection(d) <=> c = d
<1>1. Projection(c)["activity"] = c /\ Projection(d)["activity"] = d
  BY DEF Projection
<1> QED BY <1>1

Mine(h, r, e) == e \in Reach[h] /\ UnitOf[e] = Plan[h][r.unit]

RunOK(h, r) ==
    /\ r \in Run
    /\ r.unit \in 0..Len(Plan[h])
    /\ r.pc \in {"list", "next", "head", "put"} => r.unit \in 1..Len(Plan[h])
    /\ r.pc \in {"next", "head", "put"} =>
          \A e \in r.todo : Mine(h, r, e) /\ r.got[e] \in Contents
    /\ r.pc \in {"head", "put"} =>
          r.entity \in Entities /\ Mine(h, r, r.entity) /\ r.got[r.entity] \in Contents

BucketOK == \A o \in objects : o.digest = Projection(o.content) /\ o.at <= stamp[o.entity]

SourceOK ==
    /\ upstream \in [Entities -> Contents]
    /\ past \in [Entities -> SUBSET Contents]
    /\ reverted \in SUBSET Entities

RunsOK == /\ run \in [Harvesters -> Run]
          /\ \A h \in Harvesters : RunOK(h, run[h])

StoreOK == objects \in SUBSET Object /\ stamp \in [Entities -> Nat] /\ BucketOK

IInv == SourceOK /\ StoreOK /\ RunsOK

\* A harvester's state remains well-formed when it lets go of its entity, and
\* when it moves on to its next unit.
LEMMA LetGoOK ==
    ASSUME NEW h \in Harvesters, NEW r, RunOK(h, r), r.pc \in {"next", "head", "put"}
    PROVE  RunOK(h, LetGo(r))
BY DEF RunOK, Run, LetGo, Mine

\* A process that turns to its next unit has nothing in hand yet.
LEMMA NextUnitOK ==
    ASSUME NEW h \in Harvesters, NEW r, RunOK(h, r), r.unit \in 1..Len(Plan[h]),
           Plan[h] \in Seq(Units)
    PROVE  RunOK(h, NextUnit(h, r))
<1>1. Len(Plan[h]) \in Nat /\ r \in Run
  BY DEF RunOK
<1>2. CASE r.unit < Len(Plan[h])
  <2> DEFINE s == [r EXCEPT !.pc = "list", !.unit = @ + 1, !.todo = {}]
  <2>1. s \in Run /\ s.pc = "list" /\ s.unit = r.unit + 1
    <3> DEFINE n == r.unit + 1
    <3>1. n \in Nat
      BY <1>1 DEF Run
    <3> HIDE DEF n
    <3>2. /\ [r EXCEPT !.pc = "list", !.unit = n, !.todo = {}] \in Run
          /\ [r EXCEPT !.pc = "list", !.unit = n, !.todo = {}].pc = "list"
          /\ [r EXCEPT !.pc = "list", !.unit = n, !.todo = {}].unit = n
      BY <1>1, <3>1 DEF Run
    <3> QED BY <3>2 DEF n
  <2>2. NextUnit(h, r) = s
    BY <1>2 DEF NextUnit
  <2>3. RunOK(h, s)
    BY <1>1, <1>2, <2>1 DEF RunOK
  <2> QED BY <2>2, <2>3
<1>3. CASE ~(r.unit < Len(Plan[h]))
  <2> DEFINE s == [r EXCEPT !.pc = "manifest", !.todo = {}]
  <2>1. s \in Run /\ s.pc = "manifest" /\ s.unit = r.unit
    BY <1>1 DEF Run
  <2>2. NextUnit(h, r) = s
    BY <1>3 DEF NextUnit
  <2>3. RunOK(h, s)
    BY <1>1, <2>1 DEF RunOK
  <2> QED BY <2>2, <2>3
<1> QED BY <1>2, <1>3

\* Nor has one that does not run.
LEMMA IdleOK ==
    ASSUME NEW h \in Harvesters PROVE RunOK(h, Idle)
<1>1. Len(Plan[h]) \in Nat
  BY PlanAssumption
<1> QED BY <1>1 DEF RunOK, Run, Idle

\* Every step of a harvester leaves the others alone and itself well-formed.
LEMMA StepOK ==
    ASSUME IInv, NEW h \in Harvesters, Step(h)
    PROVE  RunOK(h, run'[h]) /\ run' = [run EXCEPT ![h] = run'[h]]
<1>1. /\ RunOK(h, run[h]) /\ run \in [Harvesters -> Run] /\ upstream \in [Entities -> Contents]
      /\ Plan[h] \in Seq(Units) /\ Plan[h] # <<>> /\ Reach[h] \subseteq Entities
  BY PlanAssumption DEF IInv, RunsOK, SourceOK
<1>2. ASSUME NEW r, Become(h, r) PROVE run'[h] = r /\ run' = [run EXCEPT ![h] = run'[h]]
  BY <1>1, <1>2 DEF Become
<1>3. Len(Plan[h]) \in Nat \ {0}
  BY <1>1
<1>4. CASE Start(h)
  <2> DEFINE r == [Idle EXCEPT !.pc = "list", !.unit = 1]
  <2>1. Become(h, r)
    BY <1>4 DEF Start
  <2>2. r \in Run /\ r.pc = "list" /\ r.unit = 1
    BY DEF Run, Idle
  <2>3. RunOK(h, r)
    BY <1>3, <2>2 DEF RunOK
  <2> QED BY <2>1, <2>3, <1>2
<1>5. CASE List(h)
  <2> DEFINE near == {e \in Reach[h] : UnitOf[e] = UnitOfRun(h)}
  <2>1. PICK listed \in SUBSET near :
           Become(h, [run[h] EXCEPT !.pc = "next", !.todo = listed,
                      !.got = [e \in Entities |-> IF e \in listed THEN upstream[e]
                                                  ELSE run[h].got[e]],
                      !.missed = @ \cup (near \ listed)])
    BY <1>5 DEF List
  <2> DEFINE got == [e \in Entities |-> IF e \in listed THEN upstream[e] ELSE run[h].got[e]]
             r == [run[h] EXCEPT !.pc = "next", !.todo = listed, !.got = got,
                                 !.missed = @ \cup (near \ listed)]
  <2>2. RunOK(h, r)
    <3>1. got \in [Entities -> Contents \cup {NoContent}]
      BY <1>1 DEF RunOK, Run
    <3>2. near \subseteq Entities /\ run[h].missed \cup (near \ listed) \subseteq Entities
      BY <1>1 DEF RunOK, Run
    <3>3. \A e \in listed : got[e] \in Contents /\ Mine(h, run[h], e)
      BY <1>1, <2>1, <3>2 DEF Mine, UnitOfRun
    <3> HIDE DEF got, near
    <3>4. r \in Run /\ r.pc = "next" /\ r.todo = listed /\ r.got = got /\ r.unit = run[h].unit
      BY <1>1, <2>1, <3>1, <3>2 DEF RunOK, Run
    <3>5. run[h].pc = "list"
      BY <1>5 DEF List
    <3> QED BY <1>1, <3>3, <3>4, <3>5 DEF RunOK, Mine
  <2> QED BY <2>1, <2>2, <1>2
<1>6. CASE UnitFails(h) /\ run[h].pc \in {"list", "head", "put"}
  <2> DEFINE r == [LetGo(run[h]) EXCEPT !.failures = @ \cup {UnitOfRun(h)}]
  <2>1. UnitOfRun(h) \in Units
    BY <1>1, <1>6 DEF RunOK, UnitOfRun
  <2>2. NextUnit(h, r) = NextUnit(h, [r EXCEPT !.pc = "list"])
    BY <1>1 DEF NextUnit, LetGo, RunOK, Run
  <2>3. RunOK(h, [r EXCEPT !.pc = "list"])
    BY <1>1, <1>6, <2>1 DEF RunOK, Run, LetGo
  <2>4. RunOK(h, NextUnit(h, [r EXCEPT !.pc = "list"]))
    <3>1. [r EXCEPT !.pc = "list"].unit = run[h].unit /\ run[h].unit \in 1..Len(Plan[h])
      BY <1>1, <1>6 DEF RunOK, Run, LetGo
    <3> QED BY <1>1, <2>3, <3>1, NextUnitOK
  <2> QED BY <1>2, <1>6, <2>2, <2>4 DEF UnitFails
<1>7. CASE UnitDone(h)
  BY <1>1, <1>2, <1>7, NextUnitOK DEF UnitDone, RunOK
<1>8. ASSUME NEW e \in Entities, Take(h, e) PROVE RunOK(h, run'[h]) /\ run' = [run EXCEPT ![h] = run'[h]]
  <2>1. PICK n \in IF UnitOf[e] \in Forums THEN Noise ELSE {NoContent} :
           Become(h, [run[h] EXCEPT !.pc = "head", !.todo = @ \ {e}, !.entity = e, !.noise = n,
                      !.got[e] = IF UnitOf[e] \in Forums THEN upstream[e] ELSE @])
    BY <1>8 DEF Take
  <2> DEFINE r == [run[h] EXCEPT !.pc = "head", !.todo = @ \ {e}, !.entity = e, !.noise = n,
                      !.got[e] = IF UnitOf[e] \in Forums THEN upstream[e] ELSE @]
  <2>2. n \in Noise \cup {NoContent}
    BY <2>1
  <2>3. RunOK(h, r)
    BY <1>1, <1>8, <2>2 DEF Take, RunOK, Run, Mine
  <2> QED BY <2>1, <2>3, <1>2
<1>9. ASSUME NEW e \in Entities, TopicFails(h, e)
      PROVE RunOK(h, run'[h]) /\ run' = [run EXCEPT ![h] = run'[h]]
  <2> DEFINE r == [run[h] EXCEPT !.todo = @ \ {e}, !.failures = @ \cup {e}]
  <2>1. Become(h, r) /\ run[h].pc = "next"
    BY <1>9 DEF TopicFails
  <2>2. RunOK(h, r)
    BY <1>1, <2>1 DEF RunOK, Run, Mine
  <2> QED BY <2>1, <2>2, <1>2
<1>10. CASE HeadObject(h)
  <2>1. RunOK(h, [run[h] EXCEPT !.pc = "put"])
    BY <1>1, <1>10 DEF HeadObject, RunOK, Run, Mine
  <2>2. RunOK(h, LetGo(run[h]))
    BY <1>1, <1>10, LetGoOK DEF HeadObject
  <2> QED BY <1>2, <1>10, <2>1, <2>2 DEF HeadObject
<1>11. CASE Put(h)
  BY <1>1, <1>2, <1>11, LetGoOK DEF Put
<1>12. CASE Manifest(h)
  <2> DEFINE r == [run[h] EXCEPT !.pc = "done"]
  <2>1. Become(h, r)
    BY <1>12 DEF Manifest
  <2>2. r \in Run /\ r.pc = "done" /\ r.unit = run[h].unit
    BY <1>1 DEF RunOK, Run
  <2>3. RunOK(h, r)
    BY <1>1, <2>2 DEF RunOK
  <2> QED BY <2>1, <2>3, <1>2
<1>13. CASE Crash(h)
  BY <1>2, <1>13, IdleOK DEF Crash
<1> QED BY <1>4, <1>5, <1>6, <1>7, <1>8, <1>9, <1>10, <1>11, <1>12, <1>13
        DEF Step, ListFails, StoreFails

-----------------------------------------------------------------------------
(* The bucket. *)

Has(e, c) == \E o \in objects : o.entity = e /\ o.content = c

\* What a PUT adds.
NewObject(h) == [entity |-> run[h].entity, digest |-> Projection(InHand(h)),
                 content |-> InHand(h), at |-> stamp[run[h].entity] + 1]

\* A PUT replaces at most the object of the same entity and content.
LEMMA OverwriteFacts ==
    ASSUME IInv, NEW h \in Harvesters, run[h].pc = "put", Overwrite(h)
    PROVE  /\ run[h].entity \in Covers(h) /\ NewObject(h) \in Object
           /\ stamp' = [stamp EXCEPT ![run[h].entity] = @ + 1]
           /\ objects' = {o \in objects : ~ (o.entity = run[h].entity /\ o.content = InHand(h))}
                            \cup {NewObject(h)}
<1>1. /\ RunOK(h, run[h]) /\ StoreOK /\ Plan[h] \in Seq(Units) /\ Reach[h] \subseteq Entities
  BY PlanAssumption DEF IInv, RunsOK
<1>2. run[h].entity \in Entities /\ InHand(h) \in Contents /\ Mine(h, run[h], run[h].entity)
  BY <1>1 DEF RunOK, InHand
<1>3. run[h].entity \in Covers(h)
  BY <1>1, <1>2 DEF RunOK, Mine, Covers
<1>4. NewObject(h) \in Object
  BY <1>1, <1>2 DEF NewObject, Object, StoreOK, Projection
<1>5. \A o \in objects : <<o.entity, o.digest>> = KeyInHand(h)
                           <=> o.entity = run[h].entity /\ o.content = InHand(h)
  BY <1>1, DigestIsContent, ProjectionTells
     DEF KeyInHand, DigestInHand, StoreOK, BucketOK
<1>6. objects' = {o \in objects : <<o.entity, o.digest>> # KeyInHand(h)} \cup {NewObject(h)}
  BY DigestIsContent DEF Overwrite, NewObject, DigestInHand
<1> QED BY <1>3, <1>4, <1>5, <1>6 DEF Overwrite

\* A put stores a content of its entity and loses no content of any.
LEMMA OverwriteOK ==
    ASSUME IInv, NEW h \in Harvesters, run[h].pc = "put", Overwrite(h)
    PROVE  StoreOK' /\ \A e, c : Has(e, c) => Has(e, c)'
<1>1. /\ NewObject(h) \in Object /\ stamp' = [stamp EXCEPT ![run[h].entity] = @ + 1]
      /\ objects' = {o \in objects : ~ (o.entity = run[h].entity /\ o.content = InHand(h))}
                       \cup {NewObject(h)}
  BY OverwriteFacts
<1>2. /\ NewObject(h).entity = run[h].entity /\ NewObject(h).content = InHand(h)
      /\ NewObject(h).digest = Projection(InHand(h)) /\ NewObject(h).at = stamp[run[h].entity] + 1
  BY DEF NewObject
<1>3. objects \in SUBSET Object /\ stamp \in [Entities -> Nat] /\ BucketOK
  BY DEF IInv, StoreOK
<1>4. /\ run[h].entity \in Entities
      /\ \A o \in objects : o.at \in Nat /\ o.entity \in Entities
  BY <1>1, <1>2, <1>3 DEF Object
<1>5. objects' \in SUBSET Object /\ stamp' \in [Entities -> Nat]
  <2>1. stamp' \in [Entities -> Nat]
    BY <1>1, <1>3, <1>4
  <2> QED BY <1>1, <1>3, <2>1
<1>6. BucketOK'
  BY <1>1, <1>2, <1>3, <1>4 DEF BucketOK
<1>7. \A e, c : Has(e, c) => Has(e, c)'
  BY <1>1, <1>2 DEF Has
<1> QED BY <1>5, <1>6, <1>7 DEF StoreOK

\* A harvester's step leaves the bucket alone, or is a PUT.
LEMMA StepWrites ==
    ASSUME NEW h \in Harvesters, Step(h)
    PROVE  \/ UNCHANGED <<source, bucket>>
           \/ run[h].pc = "put" /\ Overwrite(h)
BY DEF Step, Start, List, ListFails, UnitDone, Take, TopicFails, HeadObject, Put,
       StoreFails, Manifest, Crash, source, bucket

\* The invariant holds before the first run.
LEMMA InvInit == Init => IInv
<1> SUFFICES ASSUME Init PROVE IInv
  OBVIOUS
<1>1. SourceOK
  BY UnitAssumption DEF Init, SourceOK
<1>2. StoreOK
  BY DEF Init, StoreOK, BucketOK
<1>3. RunsOK
  <2>1. Idle \in Run
    BY DEF Idle, Run
  <2> QED BY <2>1, IdleOK DEF Init, RunsOK
<1> QED BY <1>1, <1>2, <1>3 DEF IInv

\* Every step keeps it, and keeps every content that is stored.
LEMMA InvNext == IInv /\ [Next]_vars => IInv' /\ \A e, c : Has(e, c) => Has(e, c)'
<1> SUFFICES ASSUME IInv, [Next]_vars PROVE IInv' /\ \A e, c : Has(e, c) => Has(e, c)'
  OBVIOUS
<1>1. CASE UNCHANGED vars
  BY <1>1 DEF IInv, SourceOK, StoreOK, BucketOK, RunsOK, RunOK, Mine, Has, vars
<1>2. ASSUME NEW e \in Entities, NEW c \in Contents, Edit(e, c)
      PROVE  IInv' /\ \A d, b : Has(d, b) => Has(d, b)'
  <2>1. SourceOK'
    BY <1>2 DEF IInv, SourceOK, Edit
  <2>2. StoreOK' /\ RunsOK' /\ \A d, b : Has(d, b) => Has(d, b)'
    BY <1>2 DEF IInv, StoreOK, BucketOK, RunsOK, RunOK, Mine, Has, Edit, bucket
  <2> QED BY <2>1, <2>2 DEF IInv
<1>3. ASSUME NEW h \in Harvesters, Step(h) PROVE IInv' /\ \A e, c : Has(e, c) => Has(e, c)'
  <2>1. RunsOK'
    BY <1>3, StepOK DEF IInv, RunsOK, RunOK, Mine
  <2>2. SourceOK'
    BY <1>3, StepWrites DEF IInv, SourceOK, source, Overwrite
  <2>3. StoreOK' /\ \A e, c : Has(e, c) => Has(e, c)'
    <3>1. CASE UNCHANGED <<source, bucket>>
      BY <3>1 DEF IInv, StoreOK, BucketOK, Has, bucket
    <3> QED BY <1>3, <3>1, StepWrites, OverwriteOK
  <2> QED BY <2>1, <2>2, <2>3 DEF IInv
<1> QED BY <1>1, <1>2, <1>3 DEF Next

\* The invariant holds in every behaviour.
LEMMA BronzeInv == Spec => []IInv
BY InvInit, InvNext, PTL DEF Spec

\* The type invariant of the model of data_pipeline/harvest.py.
THEOREM BronzeTypeOK == Spec => []TypeOK
<1>1. IInv => TypeOK
  BY DEF IInv, SourceOK, StoreOK, RunsOK, RunOK, TypeOK
<1> QED BY <1>1, BronzeInv, PTL

-----------------------------------------------------------------------------
(* Who may replace an object. *)

\* A process is about to put only what a HEAD has just not found.
LEMMA PutFollowsHead ==
    ASSUME IInv, NEW h \in Harvesters, Step(h), run'[h].pc = "put"
    PROVE  /\ ~Stored(KeyInHand(h)) /\ KeyInHand(h)' = KeyInHand(h)
           /\ UNCHANGED objects
<1>0. run \in [Harvesters -> Run] /\ run' = [run EXCEPT ![h] = run'[h]]
  BY StepOK DEF IInv, RunsOK
<1>1. HeadObject(h)
  <2>1. run[h] \in Run /\ \A r : Become(h, r) => run'[h] = r
    BY <1>0 DEF Become
  <2>2. \A r \in Run : NextUnit(h, r).pc # "put"
    BY DEF NextUnit, Run
  <2>3. [LetGo(run[h]) EXCEPT !.failures = @ \cup {UnitOfRun(h)}].pc = "next"
    BY <2>1 DEF LetGo, Run
  <2>4. ~UnitFails(h)
    <3> DEFINE r == [LetGo(run[h]) EXCEPT !.failures = @ \cup {UnitOfRun(h)}]
    <3>1. NextUnit(h, r).pc # "put"
      BY <2>1 DEF NextUnit, LetGo, Run
    <3> QED BY <2>1, <3>1 DEF UnitFails
  <2>5. ~UnitDone(h)
    BY <2>1, <2>2 DEF UnitDone
  <2>6. ~Put(h)
    <3>1. LetGo(run[h]).pc # "put"
      BY <2>1 DEF LetGo, Run
    <3> QED BY <2>1, <3>1 DEF Put
  <2>7. ~Start(h) /\ ~Manifest(h) /\ ~Crash(h)
    <3>1. /\ [Idle EXCEPT !.pc = "list", !.unit = 1].pc # "put" /\ Idle.pc # "put"
          /\ [run[h] EXCEPT !.pc = "done"].pc # "put"
      BY <2>1 DEF Idle, Run
    <3> QED BY <2>1, <3>1 DEF Start, Manifest, Crash
  <2>8. ~List(h)
    BY <2>1 DEF List, Run
  <2>9. \A e \in Entities : ~Take(h, e) /\ ~TopicFails(h, e)
    <3>1. ASSUME NEW e \in Entities, Take(h, e) PROVE run'[h].pc = "head"
      <4>1. PICK n : Become(h, [run[h] EXCEPT !.pc = "head", !.todo = @ \ {e}, !.entity = e,
                       !.noise = n,
                       !.got[e] = IF UnitOf[e] \in Forums THEN upstream[e] ELSE @])
        BY <3>1 DEF Take
      <4>2. run'[h] = [run[h] EXCEPT !.pc = "head", !.todo = @ \ {e}, !.entity = e,
                       !.noise = n,
                       !.got[e] = IF UnitOf[e] \in Forums THEN upstream[e] ELSE @]
        BY <2>1, <4>1
      <4> QED BY <2>1, <4>2 DEF Run
    <3>2. ASSUME NEW e \in Entities, TopicFails(h, e) PROVE run'[h].pc = "next"
      <4>1. [run[h] EXCEPT !.todo = @ \ {e}, !.failures = @ \cup {e}].pc = run[h].pc
        BY <2>1 DEF Run
      <4> QED BY <2>1, <3>2, <4>1 DEF TopicFails
    <3> QED BY <3>1, <3>2
  <2> QED BY <2>4, <2>5, <2>6, <2>7, <2>8, <2>9 DEF Step, ListFails, StoreFails
<1>2. ~Stored(KeyInHand(h)) /\ run'[h] = [run[h] EXCEPT !.pc = "put"]
  BY <1>0, <1>1 DEF HeadObject, Become, LetGo, Run
<1>3. KeyInHand(h)' = KeyInHand(h)
  BY <1>0, <1>2 DEF KeyInHand, InHand, DigestInHand, Run
<1> QED BY <1>1, <1>2, <1>3 DEF HeadObject, Stored, bucket

\* An object nobody is about to put is never replaced nor contested any more,
\* for any harvesters, overlapping or not.
THEOREM BronzeSettledStays == Spec => SettledStays
<1>1. IInv /\ [Next]_vars =>
         [\A o \in objects : ~Contested(o) => o \in objects' /\ ~Contested(o)']_vars
  <2> SUFFICES ASSUME IInv, [Next]_vars, NEW o \in objects, ~Contested(o)
               PROVE  o \in objects' /\ ~Contested(o)'
    OBVIOUS
  <2>1. CASE UNCHANGED <<objects, run>>
    BY <2>1 DEF Contested, KeyInHand, DigestInHand, InHand
  <2>2. ASSUME NEW h \in Harvesters, Step(h) PROVE o \in objects' /\ ~Contested(o)'
    <3>1. o \in objects'
      <4>1. CASE UNCHANGED bucket
        BY <4>1 DEF bucket
      <4>2. CASE run[h].pc = "put" /\ Overwrite(h)
        <5>1. <<o.entity, o.digest>> # KeyInHand(h)
          BY <4>2 DEF Contested
        <5> QED BY <4>2, <5>1 DEF Overwrite
      <4> QED BY <2>2, <4>1, <4>2, StepWrites
    <3>2. ASSUME NEW g \in Harvesters, run'[g].pc = "put"
          PROVE  KeyInHand(g)' # <<o.entity, o.digest>>
      <4>1. CASE g = h
        BY <2>2, <3>2, <4>1, PutFollowsHead DEF Stored
      <4>2. CASE g # h
        <5>1. run'[g] = run[g]
          BY <2>2, <4>2, StepOK DEF IInv, RunsOK
        <5>2. KeyInHand(g)' = KeyInHand(g)
          BY <5>1 DEF KeyInHand, DigestInHand, InHand
        <5> QED BY <3>2, <5>1, <5>2 DEF Contested
      <4> QED BY <4>1, <4>2
    <3> QED BY <3>1, <3>2 DEF Contested
  <2> QED BY <2>1, <2>2 DEF Next, Edit, bucket, vars
<1> QED BY <1>1, BronzeInv, PTL DEF Spec, SettledStays

-----------------------------------------------------------------------------
(* Nothing is overwritten of an entity that one process harvests. *)

NothingToReplace == \A h \in Harvesters :
    run[h].pc = "put" /\ run[h].entity \in Unshared => ~Stored(KeyInHand(h))

\* No process is about to put at first.
LEMMA NothingToReplaceInit == Init => NothingToReplace
BY DEF Init, Idle, NothingToReplace

\* Nobody else puts a key between its HEAD and its PUT.
LEMMA NothingToReplaceNext == IInv /\ NothingToReplace /\ [Next]_vars => NothingToReplace'
<1> SUFFICES ASSUME IInv, NothingToReplace, [Next]_vars, NEW g \in Harvesters,
                    run'[g].pc = "put", run'[g].entity \in Unshared
             PROVE  ~Stored(KeyInHand(g))'
  BY DEF NothingToReplace, Unshared, Covers
<1>1. CASE UNCHANGED <<objects, run>>
  BY <1>1 DEF NothingToReplace, Stored, KeyInHand, InHand, DigestInHand
<1>2. ASSUME NEW h \in Harvesters, Step(h) PROVE ~Stored(KeyInHand(g))'
  <2>0. run \in [Harvesters -> Run] /\ run' = [run EXCEPT ![h] = run'[h]]
    BY <1>2, StepOK DEF IInv, RunsOK
  \* g itself goes on to "put" only from a HEAD that found nothing.
  <2>1. CASE g = h
    BY <1>2, <2>1, PutFollowsHead DEF Stored
  \* Another harvester puts an object of another entity.
  <2>2. CASE g # h
    <3>1. run'[g] = run[g] /\ ~Stored(KeyInHand(g)) /\ KeyInHand(g)' = KeyInHand(g)
      BY <2>0, <2>2 DEF NothingToReplace, KeyInHand, InHand, DigestInHand
    <3>2. CASE UNCHANGED bucket
      BY <3>1, <3>2 DEF Stored, bucket
    <3>3. CASE run[h].pc = "put" /\ Overwrite(h)
      <4>1. run[g].entity \in Covers(g)
        <5>1. RunOK(g, run[g]) /\ run[g].pc = "put" /\ Plan[g] \in Seq(Units)
          BY <3>1, PlanAssumption DEF IInv, RunsOK
        <5> QED BY <5>1 DEF RunOK, Mine, Covers
      <4>2. run[h].entity # run[g].entity
        BY <2>2, <3>1, <3>3, <4>1, OverwriteFacts DEF Unshared
      <4>3. \A o \in objects' : o \in objects \/ o.entity = run[h].entity
        <5>1. objects' = {o \in objects : ~ (o.entity = run[h].entity /\ o.content = InHand(h))}
                           \cup {NewObject(h)}
          BY <3>3, OverwriteFacts
        <5>2. NewObject(h).entity = run[h].entity
          BY DEF NewObject
        <5> QED BY <5>1, <5>2
      <4> QED BY <3>1, <4>2, <4>3 DEF Stored, KeyInHand
    <3> QED BY <1>2, <3>2, <3>3, StepWrites
  <2> QED BY <2>1, <2>2
<1> QED BY <1>1, <1>2 DEF Next, Edit, bucket, vars

\* In every behaviour no put replaces an object of an unshared entity.
LEMMA NothingToReplaceInv == Spec => []NothingToReplace
BY NothingToReplaceInit, NothingToReplaceNext, BronzeInv, PTL DEF Spec

\* Such a PUT only adds.
LEMMA PutAdds ==
    ASSUME IInv, NothingToReplace, NEW h \in Harvesters, run[h].pc = "put", Overwrite(h),
           run[h].entity \in Unshared
    PROVE  /\ objects' = objects \cup {NewObject(h)}
           /\ \A o \in objects : ~ (o.entity = run[h].entity /\ o.content = InHand(h))
<1>1. objects' = {o \in objects : ~ (o.entity = run[h].entity /\ o.content = InHand(h))}
                   \cup {NewObject(h)}
  BY OverwriteFacts
<1>2. \A o \in objects : ~ (o.entity = run[h].entity /\ o.content = InHand(h))
  BY DigestIsContent DEF IInv, StoreOK, BucketOK, NothingToReplace, Stored, KeyInHand,
                         DigestInHand
<1> QED BY <1>1, <1>2

-----------------------------------------------------------------------------
(* The bucket implements the observation log of the unshared entities. *)

Known(e)  == {o.content : o \in {p \in objects : p.entity = e}}
Before(e) == {pair \in Contents \X Contents :
                 \E o, p \in objects : /\ o.entity = e /\ o.content = pair[1]
                                       /\ p.entity = e /\ p.content = pair[2]
                                       /\ o.at < p.at}

\* The put of a new key is a step of the observation log.
LEMMA PutObserves ==
    ASSUME IInv, NothingToReplace, NEW h \in Harvesters, run[h].pc = "put", Overwrite(h),
           NEW e \in Unshared, e = run[h].entity, NEW c, c = InHand(h)
    PROVE  Log!Observe(e, c)
<1> DEFINE n == NewObject(h)
<1>1. objects' = objects \cup {n} /\ \A o \in objects : ~ (o.entity = e /\ o.content = c)
  BY PutAdds
<1>2. n.entity = e /\ n.content = c /\ n.at = stamp[e] + 1 /\ n \in Object
  BY OverwriteFacts DEF NewObject
<1>3. objects \in SUBSET Object /\ stamp \in [Entities -> Nat]
  BY DEF IInv, StoreOK
<1>4. \A o \in objects : o.at \in Nat /\ (o.entity = e => o.at < n.at)
  BY <1>2, <1>3 DEF IInv, StoreOK, BucketOK, Object
<1>5. c \in Contents /\ e \in Entities
  BY <1>2 DEF Object
<1> HIDE DEF n
<1>6. c \notin Known(e)
  BY <1>1 DEF Known
<1>7. \A d \in Unshared : Known(d)' = IF d = e THEN Known(d) \cup {c} ELSE Known(d)
  BY <1>1, <1>2 DEF Known
<1>8. ASSUME NEW d \in Unshared
      PROVE  Before(d)' = IF d = e THEN Before(d) \cup (Known(d) \X {c}) ELSE Before(d)
  <2>1. CASE d # e
    BY <1>1, <1>2, <2>1 DEF Before
  <2>2. CASE d = e
    <3>1. ASSUME NEW pair \in Contents \X Contents
          PROVE  pair \in Before(d)' <=> pair \in Before(d) \cup (Known(d) \X {c})
      <4>1. ASSUME pair \in Before(d)' PROVE pair \in Before(d) \cup (Known(d) \X {c})
        <5>1. PICK o \in objects', p \in objects' :
                 o.entity = d /\ o.content = pair[1] /\ p.entity = d /\ p.content = pair[2]
                 /\ o.at < p.at
          BY <4>1 DEF Before
        <5>2. o \in objects
          BY <1>1, <1>2, <1>3, <1>4, <2>2, <5>1 DEF Object
        <5>3. CASE p \in objects
          BY <5>1, <5>2, <5>3 DEF Before
        <5>4. CASE p = n
          BY <1>2, <5>1, <5>2, <5>4 DEF Known
        <5> QED BY <1>1, <5>3, <5>4
      <4>2. ASSUME pair \in Before(d) PROVE pair \in Before(d)'
        BY <1>1, <4>2 DEF Before
      <4>3. ASSUME pair \in Known(d) \X {c} PROVE pair \in Before(d)'
        <5>1. PICK o \in objects : o.entity = d /\ o.content = pair[1]
          BY <4>3 DEF Known
        <5>2. pair[2] = c /\ o.at < n.at /\ o \in objects' /\ n \in objects'
          BY <1>1, <1>4, <2>2, <4>3, <5>1
        <5> QED BY <1>2, <2>2, <5>1, <5>2 DEF Before
      <4> QED BY <4>1, <4>2, <4>3
    <3>2. Before(d)' \subseteq Contents \X Contents /\ Before(d) \subseteq Contents \X Contents
      BY DEF Before
    <3>3. Known(d) \X {c} \subseteq Contents \X Contents
      BY <1>3, <1>5 DEF Known, Object
    <3> QED BY <2>2, <3>1, <3>2, <3>3
  <2> QED BY <2>1, <2>2
<1>9. [d \in Unshared |-> Known(d)'] = [[d \in Unshared |-> Known(d)] EXCEPT ![e] = @ \cup {c}]
  BY <1>5, <1>7
<1>10. [d \in Unshared |-> Before(d)']
         = [[d \in Unshared |-> Before(d)] EXCEPT ![e] = @ \cup (Known(e) \X {c})]
  BY <1>5, <1>8
<1> QED BY <1>5, <1>6, <1>9, <1>10 DEF Log!Observe, Known, Before

\* harvest.py implements the observation log of what one process harvests:
\* contents are only ever added, each as the newest of its entity, whatever
\* other processes overwrite meanwhile.
THEOREM BronzeImplementsLog == Spec => ImplementsLog
<1>1. Init => Log!Init
  BY DEF Init, Log!Init
<1>2. IInv /\ IInv' /\ NothingToReplace /\ [Next]_vars => [Log!Next]_(Log!log)
  <2> SUFFICES ASSUME IInv, NothingToReplace, [Next]_vars
               PROVE  Log!Next \/ UNCHANGED Log!log
    OBVIOUS
  <2>1. CASE UNCHANGED objects
    BY <2>1 DEF Log!log
  <2>2. ASSUME NEW h \in Harvesters, run[h].pc = "put", Overwrite(h),
               run[h].entity \in Unshared
        PROVE  Log!Next
    <3>1. run[h].entity \in Entities /\ InHand(h) \in Contents
      BY <2>2, OverwriteFacts DEF Object, NewObject
    <3>2. PICK e \in Unshared, c \in Contents : e = run[h].entity /\ c = InHand(h)
      BY <2>2, <3>1
    <3>3. Log!Observe(e, c)
      BY <2>2, <3>2, PutObserves
    <3> QED BY <3>3 DEF Log!Next
  <2>3. ASSUME NEW h \in Harvesters, run[h].pc = "put", Overwrite(h),
               run[h].entity \notin Unshared
        PROVE  UNCHANGED Log!log
    <3>1. ASSUME NEW d \in Unshared PROVE \A o : o.entity = d => (o \in objects' <=> o \in objects)
      <4>1. objects' = {o \in objects : ~ (o.entity = run[h].entity /\ o.content = InHand(h))}
                         \cup {NewObject(h)}
        BY <2>3, OverwriteFacts
      <4>2. NewObject(h).entity = run[h].entity /\ d # run[h].entity
        BY <2>3 DEF NewObject
      <4> QED BY <4>1, <4>2
    <3>2. ASSUME NEW d \in Unshared PROVE Known(d)' = Known(d) /\ Before(d)' = Before(d)
      BY <3>1 DEF Known, Before
    <3> QED BY <3>2 DEF Log!log, Known, Before
  <2> QED BY <2>1, <2>2, <2>3, StepWrites DEF Next, Edit, bucket, vars
<1> QED BY <1>1, <1>2, BronzeInv, NothingToReplaceInv, PTL DEF Spec, ImplementsLog, Log!Spec

-----------------------------------------------------------------------------
(* A finished run accounts for everything. *)

\* The run has listed the unit of e, e with it, and has not forgotten e since.
Reached(h, r, e) ==
    /\ e \notin r.missed
    /\ \E i \in 1..Len(Plan[h]) :
        /\ Plan[h][i] = UnitOf[e]
        /\ \/ i < r.unit
           \/ i = r.unit /\ r.pc \in {"next", "head", "put"}
           \/ r.pc \in {"manifest", "done"}

Pending(r, e) == \/ r.pc \in {"next", "head", "put"} /\ e \in r.todo
                 \/ r.pc \in {"head", "put"} /\ e = r.entity

Accounted(r, e) == Has(e, r.got[e]) \/ {e, UnitOf[e]} \cap r.failures # {}

AllAccounted == \A h \in Harvesters : \A e \in Reach[h] :
                    Reached(h, run[h], e) => Accounted(run[h], e) \/ Pending(run[h], e)

\* To keep that up while r becomes s: what s reaches first is pending, and
\* what is no longer pending is accounted for.
LEMMA AccountedNext ==
    ASSUME IInv, AllAccounted, NEW h \in Harvesters, Step(h), NEW e \in Reach[h],
           Reached(h, run'[h], e)
    PROVE  Accounted(run[h], e)' \/ Pending(run'[h], e)
<1> DEFINE r == run[h]
           s == run'[h]
<1>1. /\ r \in Run /\ RunOK(h, r) /\ e \in Entities /\ Len(Plan[h]) \in Nat \ {0}
      /\ Plan[h] \in Seq(Units)
  BY PlanAssumption DEF IInv, RunsOK
<1>2. s \in Run /\ RunOK(h, s) /\ run' = [run EXCEPT ![h] = s] /\ run \in [Harvesters -> Run]
  BY StepOK DEF IInv, RunsOK, RunOK
<1>3. \A x : Become(h, x) => s = x
  BY <1>2 DEF Become
<1>4. \A d, c : Has(d, c) => Has(d, c)'
  <2>1. [Next]_vars
    BY DEF Next
  <2> QED BY <2>1, InvNext
<1>5. Reached(h, r, e) => Accounted(r, e) \/ Pending(r, e)
  BY DEF AllAccounted
\* Steps that keep what was fetched and noted only have to account for what
\* they stop having in hand.
<1>6. ASSUME s.got[e] = r.got[e], r.failures \subseteq s.failures, Accounted(r, e)
      PROVE  Accounted(r, e)'
  BY <1>2, <1>4, <1>6 DEF Accounted
<1>7. CASE Start(h)
  <2>1. s = [Idle EXCEPT !.pc = "list", !.unit = 1]
    BY <1>3, <1>7 DEF Start
  <2>2. s.pc = "list" /\ s.unit = 1
    BY <2>1 DEF Idle
  <2> QED BY <1>1, <2>2 DEF Reached
<1>8. CASE Crash(h)
  <2>1. s.pc = "idle" /\ s.unit = 0
    BY <1>3, <1>8 DEF Crash, Idle
  <2> QED BY <1>1, <2>1 DEF Reached
<1>9. CASE List(h)
  <2> DEFINE near == {d \in Reach[h] : UnitOf[d] = UnitOfRun(h)}
  <2>1. PICK listed \in SUBSET near :
           s = [r EXCEPT !.pc = "next", !.todo = listed,
                  !.got = [d \in Entities |-> IF d \in listed THEN upstream[d] ELSE r.got[d]],
                  !.missed = @ \cup (near \ listed)]
    BY <1>3, <1>9 DEF List
  <2> DEFINE got == [d \in Entities |-> IF d \in listed THEN upstream[d] ELSE r.got[d]]
  <2>2. /\ s.pc = "next" /\ s.todo = listed /\ s.got = got /\ s.unit = r.unit
        /\ s.failures = r.failures /\ s.missed = r.missed \cup (near \ listed)
    BY <1>1, <2>1 DEF Run
  <2>a. r.pc = "list" /\ e \notin s.missed
    BY <1>9 DEF List, Reached
  <2>3. CASE e \in listed
    BY <2>2, <2>3 DEF Pending
  <2>4. CASE e \notin listed
    <3>1. UnitOf[e] # Plan[h][r.unit]
      BY <2>2, <2>4, <2>a DEF UnitOfRun
    <3>2. Reached(h, r, e)
      BY <2>a, <2>2, <3>1 DEF Reached
    <3>3. ~Pending(r, e)
      BY <2>a DEF Pending
    <3>4. s.got[e] = r.got[e]
      BY <1>1, <2>2, <2>4
    <3> QED BY <1>5, <1>6, <2>2, <3>2, <3>3, <3>4
  <2> QED BY <2>3, <2>4
\* A unit ends with nothing in hand, or is noted as failed.
<1>10. ASSUME NEW x \in Run, s = NextUnit(h, x), x.unit = r.unit, x.got = r.got,
              x.missed = r.missed,
              r.failures \subseteq x.failures, r.unit \in 1..Len(Plan[h]),
              r.pc \in {"list", "next", "head", "put"},
              (r.pc = "next" /\ r.todo = {}) \/ UnitOfRun(h) \in x.failures
       PROVE  Accounted(r, e)' \/ Pending(run'[h], e)
  <2>1. /\ s.got = r.got /\ s.failures = x.failures /\ s.missed = r.missed
        /\ \/ r.unit < Len(Plan[h]) /\ s.pc = "list" /\ s.unit = r.unit + 1
           \/ r.unit = Len(Plan[h]) /\ s.pc = "manifest" /\ s.unit = r.unit
    <3>1. CASE r.unit < Len(Plan[h])
      <4>1. s = [x EXCEPT !.pc = "list", !.unit = @ + 1, !.todo = {}]
        BY <1>10, <3>1 DEF NextUnit
      <4> QED BY <1>10, <3>1, <4>1 DEF Run
    <3>2. CASE r.unit = Len(Plan[h])
      <4>1. s = [x EXCEPT !.pc = "manifest", !.todo = {}]
        BY <1>1, <1>10, <3>2 DEF NextUnit
      <4> QED BY <1>10, <3>2, <4>1 DEF Run
    <3> QED BY <1>1, <1>10, <3>1, <3>2
  <2>2. CASE UnitOf[e] = UnitOfRun(h) /\ UnitOfRun(h) \in x.failures
    BY <2>1, <2>2 DEF Accounted
  <2>3. CASE UnitOf[e] # UnitOfRun(h) \/ (r.pc = "next" /\ r.todo = {})
    <3>1. Reached(h, r, e)
      <4>0. e \notin r.missed
        BY <2>1 DEF Reached
      <4>1. PICK i \in 1..Len(Plan[h]) : Plan[h][i] = UnitOf[e] /\ (i < s.unit \/ s.pc = "manifest")
        BY <2>1 DEF Reached
      <4>2. i < r.unit \/ i = r.unit
        BY <1>1, <1>10, <2>1, <4>1
      <4> QED BY <2>3, <4>0, <4>1, <4>2 DEF Reached, UnitOfRun
    <3>2. ~Pending(r, e)
      BY <1>1, <2>3 DEF Pending, RunOK, Mine, UnitOfRun
    <3> QED BY <1>5, <1>6, <1>10, <2>1, <3>1, <3>2
  <2> QED BY <1>10, <2>2, <2>3
<1>11. CASE UnitDone(h)
  BY <1>1, <1>3, <1>10, <1>11 DEF UnitDone, RunOK
<1>12. CASE UnitFails(h) /\ r.pc \in {"list", "head", "put"}
  <2> DEFINE x == [LetGo(r) EXCEPT !.failures = @ \cup {UnitOfRun(h)}]
  <2>1. r.unit \in 1..Len(Plan[h]) /\ UnitOfRun(h) \in Units
    BY <1>1, <1>12 DEF RunOK, UnitOfRun
  <2>2. /\ x \in Run /\ x.unit = r.unit /\ x.got = r.got /\ x.missed = r.missed
        /\ x.failures = r.failures \cup {UnitOfRun(h)}
    BY <1>1, <2>1 DEF LetGo, Run
  <2>3. s = NextUnit(h, x)
    BY <1>3, <1>12 DEF UnitFails
  <2> QED BY <1>10, <1>12, <2>1, <2>2, <2>3
\* Steps within a unit.
<1>13. ASSUME s.unit = r.unit, s.missed = r.missed, r.pc \in {"next", "head", "put"},
              s.pc \in {"next", "head", "put"}, Reached(h, s, e)
       PROVE  Reached(h, r, e)
  BY <1>13 DEF Reached
<1>14. ASSUME NEW d \in Entities, Take(h, d)
       PROVE  Accounted(r, e)' \/ Pending(run'[h], e)
  <2>1. PICK n : s = [r EXCEPT !.pc = "head", !.todo = @ \ {d}, !.entity = d, !.noise = n,
                     !.got[d] = IF UnitOf[d] \in Forums THEN upstream[d] ELSE @]
    BY <1>3, <1>14 DEF Take
  <2>2. /\ s.pc = "head" /\ s.todo = r.todo \ {d} /\ s.entity = d /\ s.unit = r.unit
        /\ s.failures = r.failures /\ s.missed = r.missed /\ (e # d => s.got[e] = r.got[e])
    BY <1>1, <2>1 DEF Run
  <2>3. r.pc = "next"
    BY <1>14 DEF Take
  <2>4. CASE e = d
    BY <2>2, <2>4 DEF Pending
  <2>5. CASE e # d
    BY <1>5, <1>6, <1>13, <2>2, <2>3, <2>5 DEF Pending
  <2> QED BY <2>4, <2>5
<1>15. ASSUME NEW d \in Entities, TopicFails(h, d)
       PROVE  Accounted(r, e)' \/ Pending(run'[h], e)
  <2>1. s = [r EXCEPT !.todo = @ \ {d}, !.failures = @ \cup {d}] /\ r.pc = "next"
    BY <1>3, <1>15 DEF TopicFails
  <2>2. /\ s.pc = "next" /\ s.todo = r.todo \ {d} /\ s.unit = r.unit
        /\ s.failures = r.failures \cup {d} /\ s.got = r.got /\ s.missed = r.missed
    BY <1>1, <2>1 DEF Run
  <2>3. CASE e = d
    BY <2>2, <2>3 DEF Accounted
  <2>4. CASE e # d
    BY <1>5, <1>6, <1>13, <2>1, <2>2, <2>4 DEF Pending
  <2> QED BY <2>3, <2>4
\* What a harvester lets go of is in the bucket by then.
<1>16. ASSUME s = LetGo(r), r.pc \in {"head", "put"},
              \E o \in objects' : o.entity = r.entity /\ o.content = r.got[r.entity]
       PROVE  Accounted(r, e)' \/ Pending(run'[h], e)
  <2>1. /\ s.pc = "next" /\ s.todo = r.todo /\ s.unit = r.unit /\ s.failures = r.failures
        /\ s.got = r.got /\ s.missed = r.missed
    BY <1>1, <1>16 DEF LetGo, Run
  <2>2. CASE e = r.entity
    <3>1. s.got[e] = r.got[r.entity]
      BY <2>1, <2>2
    <3>2. \E o \in objects' : o.entity = e /\ o.content = s.got[e]
      BY <1>16, <2>2, <3>1
    <3> QED BY <3>2 DEF Accounted, Has
  <2>3. CASE e # r.entity
    BY <1>5, <1>6, <1>13, <1>16, <2>1, <2>3 DEF Pending
  <2> QED BY <2>2, <2>3
<1>17. CASE HeadObject(h)
  <2>1. CASE Stored(KeyInHand(h))
    <3>1. s = LetGo(r) /\ r.pc = "head" /\ UNCHANGED objects
      BY <1>3, <1>17, <2>1 DEF HeadObject, bucket
    <3>2. Has(r.entity, r.got[r.entity])
      BY <2>1, DigestIsContent, ProjectionTells
         DEF Stored, KeyInHand, InHand, DigestInHand, Has, IInv, StoreOK, BucketOK
    <3> QED BY <1>16, <3>1, <3>2 DEF Has
  <2>2. CASE ~Stored(KeyInHand(h))
    <3>1. s = [r EXCEPT !.pc = "put"] /\ r.pc = "head"
      BY <1>3, <1>17, <2>2 DEF HeadObject
    <3>2. /\ s.pc = "put" /\ s.todo = r.todo /\ s.entity = r.entity /\ s.unit = r.unit
          /\ s.failures = r.failures /\ s.got = r.got /\ s.missed = r.missed
      BY <1>1, <3>1 DEF Run
    <3> QED BY <1>5, <1>6, <1>13, <3>1, <3>2 DEF Pending
  <2> QED BY <2>1, <2>2
<1>18. CASE Put(h)
  <2>1. s = LetGo(r) /\ r.pc = "put" /\ Overwrite(h)
    BY <1>3, <1>18 DEF Put
  <2>2. /\ NewObject(h) \in objects' /\ NewObject(h).entity = r.entity
        /\ NewObject(h).content = r.got[r.entity]
    BY <2>1, OverwriteFacts DEF NewObject, InHand
  <2> QED BY <1>16, <2>1, <2>2
<1>19. CASE Manifest(h)
  <2>1. s = [r EXCEPT !.pc = "done"] /\ r.pc = "manifest"
    BY <1>3, <1>19 DEF Manifest
  <2>2. /\ s.pc = "done" /\ s.unit = r.unit /\ s.failures = r.failures /\ s.got = r.got
        /\ s.missed = r.missed
    BY <1>1, <2>1 DEF Run
  <2>3. Reached(h, r, e) /\ ~Pending(r, e)
    BY <2>1, <2>2 DEF Reached, Pending
  <2> QED BY <1>5, <1>6, <2>2, <2>3
<1> QED BY <1>7, <1>8, <1>9, <1>11, <1>12, <1>14, <1>15, <1>17, <1>18, <1>19
        DEF Step, ListFails, StoreFails

\* No unit is finished at first.
LEMMA AllAccountedInit == Init => AllAccounted
<1> SUFFICES ASSUME Init, NEW h \in Harvesters, NEW e \in Reach[h], Reached(h, run[h], e)
             PROVE  FALSE
  BY DEF AllAccounted
<1>1. run[h].pc = "idle" /\ run[h].unit = 0
  BY DEF Init, Idle
<1>2. Len(Plan[h]) \in Nat
  BY PlanAssumption
<1> QED BY <1>1, <1>2 DEF Reached

\* Every step accounts for the entity it lets go of.
LEMMA AllAccountedNext == IInv /\ AllAccounted /\ [Next]_vars => AllAccounted'
<1> SUFFICES ASSUME IInv, AllAccounted, [Next]_vars, NEW g \in Harvesters, NEW e \in Reach[g],
                    Reached(g, run'[g], e)
             PROVE  Accounted(run[g], e)' \/ Pending(run'[g], e)
  BY DEF AllAccounted, Reached, Pending
<1>1. CASE run'[g] = run[g]
  <2>1. Accounted(run[g], e) \/ Pending(run[g], e)
    BY <1>1 DEF AllAccounted
  <2>2. Accounted(run[g], e) => Accounted(run[g], e)'
    BY <1>1, InvNext DEF Accounted
  <2> QED BY <1>1, <2>1, <2>2
<1>2. CASE Step(g)
  BY <1>2, AccountedNext
<1>3. ASSUME NEW h \in Harvesters, Step(h), h # g PROVE run'[g] = run[g]
  BY <1>3, StepOK DEF IInv, RunsOK
<1> QED BY <1>1, <1>2, <1>3 DEF Next, Edit, vars

\* A run of harvest.py that ends has, for everything within its reach, the
\* version it fetched in the bucket or a failure in its report, however its
\* steps interleave with edits, crashes and other harvesters.
THEOREM BronzeRunAccountsForAll == Spec => []RunAccountsForAll
<1>1. IInv /\ AllAccounted => RunAccountsForAll
  <2> SUFFICES ASSUME AllAccounted, NEW h \in Harvesters, run[h].pc = "done",
                      NEW e \in Covers(h) \ run[h].missed
               PROVE  Accounted(run[h], e)
    BY DEF RunAccountsForAll, Accounted, Has
  <2>1. e \in Reach[h] /\ Reached(h, run[h], e) /\ ~Pending(run[h], e)
    BY DEF Covers, Reached, Pending
  <2> QED BY <2>1 DEF AllAccounted
<1> QED BY <1>1, AllAccountedInit, AllAccountedNext, BronzeInv, PTL DEF Spec

-----------------------------------------------------------------------------
(* The newest object of what one process harvests: as long as an entity    *)
(* does not go back to an earlier content, its objects are in the order of *)
(* its history.                                                            *)

Newest(o) == \A p \in objects : p.entity = o.entity => p.at <= o.at

\* What is stored or in hand was once upstream, in hand only of who covers it.
Traced == /\ \A e \in Entities : upstream[e] \in past[e]
          /\ \A o \in objects : o.content \in past[o.entity]
          /\ \A h \in Harvesters, e \in Entities :
                run[h].got[e] # NoContent => e \in Covers(h) /\ run[h].got[e] \in past[e]

\* The live content is the newest object if it is one, so is what a process has
\* in hand, and a process has nothing older in hand than what is stored.
Sorted ==
    \A e \in Unshared \ reverted :
        /\ \A o \in objects : o.entity = e /\ o.content = upstream[e] => Newest(o)
        /\ \A h \in Harvesters : run[h].got[e] # NoContent =>
              /\ \A o \in objects : o.entity = e /\ o.content = run[h].got[e] => Newest(o)
              /\ Has(e, upstream[e]) => run[h].got[e] = upstream[e]

\* A step of a process keeps what it fetched, fetches, or forgets; a put keeps.
LEMMA GotNext ==
    ASSUME IInv, NEW h \in Harvesters, Step(h)
    PROVE  /\ run' = [run EXCEPT ![h] = run'[h]]
           /\ UNCHANGED source
           /\ \A e \in Entities : \/ run'[h].got[e] \in {run[h].got[e], NoContent}
                                  \/ run'[h].got[e] = upstream[e] /\ e \in Covers(h)
           /\ \/ UNCHANGED bucket
              \/ run[h].pc = "put" /\ Overwrite(h) /\ run'[h].got = run[h].got
<1> DEFINE r == run[h]
<1>1. /\ run' = [run EXCEPT ![h] = run'[h]] /\ run \in [Harvesters -> Run]
      /\ r \in Run /\ RunOK(h, r)
  BY StepOK DEF IInv, RunsOK
<1>2. UNCHANGED source
  BY StepWrites DEF Overwrite, source
<1>3. ASSUME NEW s, Become(h, s) PROVE run'[h] = s
  BY <1>1, <1>3 DEF Become
<1>4. ASSUME NEW e \in Entities
      PROVE  /\ r.got[e] \in Contents \cup {NoContent}
             /\ Mine(h, r, e) /\ r.unit \in 1..Len(Plan[h]) => e \in Covers(h)
  BY <1>1 DEF Run, Mine, Covers
<1>5. \A s \in Run : NextUnit(h, s).got = s.got
  BY DEF NextUnit, Run
<1>6. CASE Start(h) \/ Crash(h)
  <2>1. Idle.got = [e \in Entities |-> NoContent]
        /\ [Idle EXCEPT !.pc = "list", !.unit = 1].got = [e \in Entities |-> NoContent]
    BY DEF Idle
  <2>2. run'[h].got = [e \in Entities |-> NoContent]
    BY <1>3, <1>6, <2>1 DEF Start, Crash
  <2> QED BY <1>1, <1>2, <1>6, <2>2 DEF Start, Crash
<1>7. CASE List(h)
  <2> DEFINE near == {e \in Reach[h] : UnitOf[e] = UnitOfRun(h)}
  <2>0. PICK listed \in SUBSET near :
           Become(h, [r EXCEPT !.pc = "next", !.todo = listed,
                      !.got = [e \in Entities |-> IF e \in listed THEN upstream[e] ELSE r.got[e]],
                      !.missed = @ \cup (near \ listed)])
    BY <1>7 DEF List
  <2> DEFINE got == [e \in Entities |-> IF e \in listed THEN upstream[e] ELSE r.got[e]]
  <2>1. run'[h].got = got
    <3>2. run'[h] = [r EXCEPT !.pc = "next", !.todo = listed, !.got = got,
                              !.missed = @ \cup (near \ listed)]
      BY <1>3, <2>0
    <3> QED BY <1>1, <3>2 DEF Run
  <2>2. \A e \in listed : e \in Covers(h)
    <3>1. r.unit \in 1..Len(Plan[h]) /\ Reach[h] \subseteq Entities
      BY <1>1, <1>7, PlanAssumption DEF List, RunOK
    <3> QED BY <1>4, <3>1 DEF Mine, UnitOfRun
  <2> QED BY <1>1, <1>2, <1>7, <2>1, <2>2 DEF List
<1>8. CASE UnitFails(h)
  <2> DEFINE s == [LetGo(r) EXCEPT !.failures = @ \cup {UnitOfRun(h)}]
  <2>1. NextUnit(h, s).got = r.got
    BY <1>1 DEF NextUnit, LetGo, Run
  <2>2. run'[h].got = r.got
    BY <1>3, <1>8, <2>1 DEF UnitFails
  <2> QED BY <1>1, <1>2, <2>2, StepWrites DEF source
<1>9. ASSUME NEW e \in Entities, Take(h, e)
      PROVE  /\ UNCHANGED bucket
             /\ \A d \in Entities : \/ run'[h].got[d] \in {r.got[d], NoContent}
                                    \/ run'[h].got[d] = upstream[d] /\ d \in Covers(h)
  <2>1. PICK n : Become(h, [r EXCEPT !.pc = "head", !.todo = @ \ {e}, !.entity = e, !.noise = n,
                      !.got[e] = IF UnitOf[e] \in Forums THEN upstream[e] ELSE @])
    BY <1>9 DEF Take
  <2>2. run'[h].got = [r.got EXCEPT ![e] = IF UnitOf[e] \in Forums THEN upstream[e] ELSE @]
    BY <1>1, <1>3, <2>1 DEF Run
  <2>3. e \in Covers(h)
    BY <1>1, <1>4, <1>9 DEF Take, RunOK
  <2>4. \A d \in Entities : run'[h].got[d] = IF d = e /\ UnitOf[e] \in Forums THEN upstream[e]
                                                                              ELSE r.got[d]
    BY <1>1, <2>2 DEF Run
  <2> QED BY <1>9, <2>3, <2>4 DEF Take
<1>10. CASE UnitDone(h) \/ HeadObject(h) \/ Put(h) \/ Manifest(h) \/ \E e \in Entities : TopicFails(h, e)
  <2>1. LetGo(r).got = r.got /\ NextUnit(h, r).got = r.got /\ [r EXCEPT !.pc = "put"].got = r.got
        /\ [r EXCEPT !.pc = "done"].got = r.got
    BY <1>1, <1>5 DEF LetGo, Run
  <2>2. \A e : [r EXCEPT !.todo = @ \ {e}, !.failures = @ \cup {e}].got = r.got
    BY <1>1 DEF Run
  <2>3. run'[h].got = r.got
    <3>1. CASE UnitDone(h) \/ HeadObject(h) \/ Put(h) \/ Manifest(h)
      BY <1>3, <2>1, <3>1 DEF UnitDone, HeadObject, Put, Manifest
    <3>2. ASSUME NEW e \in Entities, TopicFails(h, e) PROVE run'[h].got = r.got
      BY <1>3, <2>2, <3>2 DEF TopicFails
    <3> QED BY <1>10, <3>1, <3>2
  <2> QED BY <1>1, <1>2, <2>3, StepWrites
<1> QED BY <1>1, <1>2, <1>6, <1>7, <1>8, <1>9, <1>10 DEF Step, ListFails, StoreFails

\* Every content was upstream when it was fetched.
LEMMA TracedNext == IInv /\ Traced /\ [Next]_vars => Traced'
<1> SUFFICES ASSUME IInv, Traced, [Next]_vars PROVE Traced'
  OBVIOUS
<1>1. CASE UNCHANGED vars
  BY <1>1 DEF Traced, Covers, vars
<1>2. ASSUME NEW e \in Entities, NEW c \in Contents, Edit(e, c) PROVE Traced'
  <2>1. /\ upstream' = [upstream EXCEPT ![e] = c] /\ past' = [past EXCEPT ![e] = @ \cup {c}]
        /\ objects' = objects /\ run' = run
    BY <1>2 DEF Edit, bucket
  <2>2. /\ upstream \in [Entities -> Contents] /\ past \in [Entities -> SUBSET Contents]
        /\ \A o \in objects : o.entity \in Entities
    BY DEF IInv, SourceOK, StoreOK, Object
  <2>3. \A d \in Entities : upstream'[d] \in past'[d] /\ past[d] \subseteq past'[d]
    BY <2>1, <2>2 DEF Traced
  <2> QED BY <2>1, <2>2, <2>3 DEF Traced
<1>3. ASSUME NEW h \in Harvesters, Step(h) PROVE Traced'
  <2>1. /\ run' = [run EXCEPT ![h] = run'[h]] /\ run \in [Harvesters -> Run]
        /\ upstream' = upstream /\ past' = past
    BY <1>3, GotNext DEF source, IInv, RunsOK
  <2>2. ASSUME NEW g \in Harvesters, NEW e \in Entities, run'[g].got[e] # NoContent
        PROVE  e \in Covers(g) /\ run'[g].got[e] \in past[e]
    <3>1. CASE g = h
      BY <1>3, <2>2, <3>1, GotNext DEF Traced
    <3>2. CASE g # h
      BY <2>1, <2>2, <3>2 DEF Traced
    <3> QED BY <3>1, <3>2
  <2>3. ASSUME NEW o \in objects' PROVE o.content \in past[o.entity]
    <3>1. CASE o \in objects
      BY <3>1 DEF Traced
    <3>2. CASE o \notin objects
      <4>1. run[h].pc = "put" /\ Overwrite(h)
        BY <1>3, <2>3, <3>2, StepWrites DEF bucket
      <4>2. o = NewObject(h)
        BY <2>3, <3>2, <4>1, OverwriteFacts
      <4>3. o.entity = run[h].entity /\ o.content = run[h].got[run[h].entity]
        BY <4>2 DEF NewObject, InHand
      <4>4. run[h].entity \in Entities /\ run[h].got[run[h].entity] \in Contents
        BY <4>1 DEF IInv, RunsOK, RunOK
      <4> QED BY <4>3, <4>4, ContentAssumption DEF Traced
    <3> QED BY <3>1, <3>2
  <2> QED BY <2>1, <2>2, <2>3 DEF Traced, Covers
<1> QED BY <1>1, <1>2, <1>3 DEF Next

\* A put stores what is newer than everything of its entity.
LEMMA PutSorted ==
    ASSUME IInv, NothingToReplace, Traced, Sorted,
           NEW h \in Harvesters, run[h].pc = "put", Overwrite(h),
           UNCHANGED source, \A g \in Harvesters : run'[g].got = run[g].got,
           NEW d, d = run[h].entity, NEW n, n = NewObject(h)
    PROVE  Sorted'
<1>1. /\ objects' = {o \in objects : ~ (o.entity = d /\ o.content = run[h].got[d])} \cup {n}
      /\ d \in Unshared => \A o \in objects : ~ (o.entity = d /\ o.content = run[h].got[d])
  BY PutAdds, OverwriteFacts DEF InHand
<1>2. /\ n.entity = d /\ n.content = run[h].got[d] /\ n.at = stamp[d] + 1
      /\ d \in Covers(h) /\ d \in Entities /\ run[h].got[d] \in Contents
  BY OverwriteFacts DEF NewObject, InHand, Object
<1>3. stamp \in [Entities -> Nat] /\ \A o \in objects : o.at \in Nat /\ o.at <= stamp[o.entity]
  BY DEF IInv, StoreOK, BucketOK, Object
<1>4. run[h].got[d] # NoContent
  BY <1>2, ContentAssumption
<1>5. Newest(n)'
  BY <1>1, <1>2, <1>3 DEF Newest
<1>6. \A o \in objects : o.entity # d /\ Newest(o) => Newest(o)'
  BY <1>1, <1>2 DEF Newest
<1> SUFFICES ASSUME NEW e \in Unshared \ reverted
             PROVE  /\ \A o \in objects' : o.entity = e /\ o.content = upstream[e] => Newest(o)'
                    /\ \A g \in Harvesters : run[g].got[e] # NoContent =>
                          /\ \A o \in objects' : o.entity = e /\ o.content = run[g].got[e]
                                                    => Newest(o)'
                          /\ Has(e, upstream[e])' => run[g].got[e] = upstream[e]
  BY DEF Sorted, source, Has, Unshared, Covers
<1>7. CASE e # d
  BY <1>1, <1>2, <1>6, <1>7 DEF Sorted, source, Has
<1>8. CASE e = d
  <2>1. Has(e, upstream[e]) => run[h].got[d] = upstream[d]
    BY <1>4, <1>8 DEF Sorted
  <2>2. \A o \in objects : ~ (o.entity = d /\ o.content = upstream[d])
    BY <1>1, <1>8, <2>1 DEF Has
  <2>3. \A g \in Harvesters : run[g].got[d] # NoContent => g = h
    BY <1>2, <1>8 DEF Traced, Unshared
  <2>4. Has(d, upstream[d])' => run[h].got[d] = upstream[d]
    BY <1>1, <1>2, <2>2 DEF Has, source
  <2> QED BY <1>1, <1>5, <1>8, <2>2, <2>3, <2>4 DEF source, Has
<1> QED BY <1>7, <1>8

\* Every step keeps the order.
LEMMA SortedNext == IInv /\ NothingToReplace /\ Traced /\ Sorted /\ [Next]_vars => Sorted'
<1> SUFFICES ASSUME IInv, NothingToReplace, Traced, Sorted, [Next]_vars PROVE Sorted'
  OBVIOUS
<1>1. CASE UNCHANGED vars
  BY <1>1 DEF Sorted, Newest, Has, Unshared, Covers, vars
<1>2. ASSUME NEW b \in Entities, NEW c \in Contents, Edit(b, c) PROVE Sorted'
  <2>1. /\ upstream' = [upstream EXCEPT ![b] = c] /\ objects' = objects /\ run' = run
        /\ upstream \in [Entities -> Contents]
        /\ reverted' = IF c \in past[b] THEN reverted \cup {b} ELSE reverted
    BY <1>2 DEF Edit, bucket, IInv, SourceOK
  <2>2. \A o : Newest(o)' <=> Newest(o)
    BY <2>1 DEF Newest
  <2>3. ASSUME NEW e \in Unshared \ reverted'
        PROVE  /\ e \in Entities \ reverted
               /\ e # b => upstream'[e] = upstream[e]
               /\ e = b => upstream'[e] = c /\ \A o \in objects : ~ (o.entity = e /\ o.content = c)
    BY <2>1, <2>3 DEF Traced, Unshared
  <2> QED BY <2>1, <2>2, <2>3 DEF Sorted, Has, Unshared, Covers
<1>3. ASSUME NEW h \in Harvesters, Step(h) PROVE Sorted'
  <2>1. /\ run' = [run EXCEPT ![h] = run'[h]] /\ run \in [Harvesters -> Run] /\ UNCHANGED source
    BY <1>3, GotNext DEF IInv, RunsOK
  <2>2. CASE UNCHANGED bucket
    <3>1. \A o : Newest(o)' <=> Newest(o)
      BY <2>2 DEF Newest, bucket
    <3>2. \A g \in Harvesters, e \in Entities :
             run'[g].got[e] \in {run[g].got[e], NoContent, upstream[e]}
      BY <1>3, <2>1, GotNext
    <3> QED BY <2>1, <2>2, <3>1, <3>2 DEF Sorted, Has, Unshared, Covers, bucket, source
  <2>3. CASE run[h].pc = "put" /\ Overwrite(h) /\ run'[h].got = run[h].got
    <3>1. \A g \in Harvesters : run'[g].got = run[g].got
      BY <2>1, <2>3
    <3> QED BY <2>1, <2>3, <3>1, PutSorted
  <2> QED BY <1>3, <2>2, <2>3, GotNext
<1> QED BY <1>1, <1>2, <1>3 DEF Next

\* After a run without failures the newest object of an entity is what the run
\* fetched, as build_silver.py takes it to be, unless the entity went back to an
\* earlier content or another process harvests it too.
THEOREM BronzeNewest == Spec => []NewestIsFetched
<1>1. Init => Traced /\ Sorted
  <2> SUFFICES ASSUME Init PROVE Traced /\ Sorted
    OBVIOUS
  <2>1. /\ objects = {} /\ \A h \in Harvesters, e \in Entities : run[h].got[e] = NoContent
        /\ \A e \in Entities : upstream[e] \in past[e]
    BY DEF Init, Idle
  <2> QED BY <2>1 DEF Traced, Sorted, Unshared
<1>2. IInv /\ AllAccounted /\ Sorted => NewestIsFetched
  <2> SUFFICES ASSUME IInv, AllAccounted, Sorted, NEW h \in Harvesters, CleanRun(h),
                      NEW e \in (Covers(h) \cap Unshared) \ (reverted \cup run[h].missed)
               PROVE  \E o \in objects : /\ o.entity = e /\ o.content = run[h].got[e]
                                         /\ \A p \in objects : p.entity = e => p.at <= o.at
    BY DEF NewestIsFetched
  <2>1. e \in Reach[h] /\ e \in Entities /\ Reached(h, run[h], e) /\ ~Pending(run[h], e)
    BY PlanAssumption DEF Covers, Reached, Pending, CleanRun
  <2>2. Has(e, run[h].got[e])
    BY <2>1 DEF AllAccounted, Accounted, CleanRun
  <2>3. PICK o \in objects : o.entity = e /\ o.content = run[h].got[e]
    BY <2>2 DEF Has
  <2>4. run[h].got[e] # NoContent
    BY <2>3, ContentAssumption DEF IInv, StoreOK, Object
  <2>5. Newest(o)
    BY <2>1, <2>3, <2>4 DEF Sorted
  <2> QED BY <2>3, <2>5 DEF Newest
<1> QED BY <1>1, <1>2, TracedNext, SortedNext, NothingToReplaceInv, BronzeInv,
           AllAccountedInit, AllAccountedNext, PTL DEF Spec
=============================================================================
