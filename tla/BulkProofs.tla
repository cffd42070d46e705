----------------------------- MODULE BulkProofs -----------------------------
(***************************************************************************)
(* Theorems about Bulk, for requests of any number of operations with any   *)
(* references among them and for every value of failOnErrors.               *)
(***************************************************************************)
EXTENDS Bulk, FiniteSetTheorems, TLAPS

\* The operations that are not done.
undone == {i \in Index : result[i] = None}

\* The bulkIds declared by operations with one of these outcomes.
declaredBy(outcomes) == {bulk[i].bulkId : i \in {j \in Index : result[j] \in outcomes}} \ {None}

\* The counters agree with the outcomes.
CountInv ==
  /\ remaining = Cardinality(undone)
  /\ failures + remaining <= Operations
  /\ failOnErrors > 0 => failures <= failOnErrors
  /\ failOnErrors > 0 /\ ~answered => failures < failOnErrors
  /\ answered /\ undone # {} => failOnErrors > 0 /\ failures = failOnErrors

\* references and failedReferences are the bulkIds of the operations that are done.
ReferenceInv ==
  /\ references = declaredBy({"succeeded"})
  /\ failed = declaredBy({"failed", "blocked"})

\* The history has the executed operations, each behind what it refers to.
OrderInv ==
  /\ \A i \in Index : executed(i) <=> result[i] \in {"succeeded", "failed"}
  /\ DependenciesFirst

\* What the outcomes say, while the passes go on: a pass that has done nothing leaves
\* only operations behind it that must wait, and calling a cycle is the last thing done.
OutcomeInv ==
  /\ \A i \in Index : result[i] = "blocked" => blocked(i)
  /\ \A i \in Index : result[i] = "cycle" =>
       /\ undone = {}
       /\ ~ready(i)
       /\ \E S \in SUBSET Index : i \in S /\ Circular(S)
  /\ ~progress => \A i \in Index : i < index /\ result[i] = None => ~ready(i) /\ ~blocked(i)

Inv ==
  /\ TypeOK
  /\ CountInv
  /\ ReferenceInv
  /\ OrderInv
  /\ OutcomeInv
  /\ CyclesNeverExecute

-----------------------------------------------------------------------------
(* Facts about the operations of a request *)

\* The operations that are not done are finitely many.
LEMMA UndoneFinite == IsFiniteSet(undone) /\ Cardinality(undone) \in Nat
<1>1. IsFiniteSet(Index)
  BY FS_Interval, BulkAssumption DEF Index
<1>2. undone \in SUBSET Index
  BY DEF undone
<1> QED
  BY <1>1, <1>2, FS_Subset, FS_CardinalityType

\* DecodeBulk: a bulkId is declared by one operation.
LEMMA BulkIdsUnique ==
  ASSUME TypeOK, NEW i \in Index, NEW j \in Index,
         bulk[i].bulkId = bulk[j].bulkId, bulk[i].bulkId # None
  PROVE  i = j
BY DEF TypeOK, DecodeBulk

\* The types of an operation.
LEMMA OperationType ==
  ASSUME TypeOK, NEW i \in Index
  PROVE  /\ bulk[i].bulkId \in BulkIds \cup {None}
         /\ bulk[i].dependencies \subseteq BulkIds
BY DEF TypeOK, DecodeBulk

\* An operation in a cycle is never ready: what it refers to has not succeeded.
LEMMA CircularNotReady ==
  ASSUME Inv, NEW S \in SUBSET Index, Circular(S), NEW i \in S
  PROVE  ~ready(i)
<1>1. PICK j \in S : bulk[j].bulkId \in bulk[i].dependencies
  BY DEF Circular
<1>2. bulk[j].bulkId \in BulkIds /\ bulk[j].bulkId # None
  BY <1>1, OperationType, BulkAssumption DEF Inv
<1>3. result[j] # "succeeded"
  BY BulkAssumption DEF Inv, CyclesNeverExecute, Results
<1>4. bulk[j].bulkId \notin references
  BY <1>2, <1>3, BulkIdsUnique DEF Inv, ReferenceInv, declaredBy
<1> QED
  BY <1>1, <1>4 DEF ready

-----------------------------------------------------------------------------
(* The invariant *)

\* serveBulk starts with nothing done.
LEMMA InitInv == Init => Inv
<1> SUFFICES ASSUME Init PROVE Inv
  OBVIOUS
<1>1. TypeOK
  <2>1. result \in [Index -> Results \cup {None}] /\ index \in 1..(Operations + 1)
    BY BulkAssumption DEF Init
  <2>2. order \in Seq(Index) /\ references \subseteq BulkIds /\ failed \subseteq BulkIds
    BY DEF Init
  <2>3. failures \in 0..Operations /\ remaining \in 0..Operations
    BY BulkAssumption DEF Init
  <2> QED
    BY <2>1, <2>2, <2>3 DEF Init, TypeOK
<1>2. undone = Index /\ Cardinality(Index) = Operations
  BY FS_Interval, BulkAssumption DEF Init, undone, Index
<1>3. CountInv
  BY <1>2, BulkAssumption DEF Init, CountInv
<1>4. ReferenceInv
  BY BulkAssumption DEF Init, ReferenceInv, declaredBy, Results
<1>5. OrderInv
  BY BulkAssumption DEF Init, OrderInv, DependenciesFirst, executed, Results
<1>6. OutcomeInv
  BY BulkAssumption DEF Init, OutcomeInv, Results, Index
<1>7. CyclesNeverExecute
  BY DEF Init, CyclesNeverExecute, executed
<1> QED
  BY <1>1, <1>3, <1>4, <1>5, <1>6, <1>7 DEF Inv

\* finish, whatever the outcome: one operation less is to be done, the counters and the
\* references keep up, and the response is written when failOnErrors is reached.
LEMMA FinishInv ==
  ASSUME Inv, looking, result[index] = None,
         NEW outcome \in {"succeeded", "failed", "blocked"}, finish(outcome)
  PROVE  /\ undone' = undone \ {index}
         /\ result' \in [Index -> Results \cup {None}]
         /\ failures' \in 0..Operations
         /\ remaining' \in 0..Operations
         /\ CountInv'
         /\ ReferenceInv'
<1>1. /\ result' = [result EXCEPT ![index] = outcome]
      /\ failures' = IF outcome # "succeeded" THEN failures + 1 ELSE failures
      /\ failed' = IF outcome # "succeeded" THEN failed \cup declares(index) ELSE failed
      /\ references' = IF outcome # "succeeded" THEN references
                       ELSE references \cup declares(index)
      /\ remaining' = remaining - 1
      /\ answered' = stops(failures')
      /\ bulk' = bulk /\ failOnErrors' = failOnErrors
  BY DEF finish
<1>2. index \in Index /\ ~answered
  BY DEF looking
<1>3. /\ result \in [Index -> Results \cup {None}]
      /\ failures \in 0..Operations
      /\ remaining \in 0..Operations
      /\ failOnErrors \in Nat
  BY DEF Inv, TypeOK
<1>4. outcome # None /\ outcome \in Results
  BY BulkAssumption DEF Results
<1>5. undone' = undone \ {index} /\ index \in undone
  BY <1>1, <1>2, <1>3, <1>4 DEF undone
<1>6. Cardinality(undone') = Cardinality(undone) - 1
  BY <1>5, UndoneFinite, FS_RemoveElement
<1>7. CountInv
  BY DEF Inv
<1>8. remaining' = Cardinality(undone') /\ failures' + remaining' <= Operations
  BY <1>1, <1>3, <1>6, <1>7, UndoneFinite, BulkAssumption DEF CountInv
<1>9. Cardinality(undone') \in Nat /\ failures' \in Nat
  <2>1. IsFiniteSet(undone')
    BY <1>5, UndoneFinite, FS_RemoveElement
  <2> QED
    BY <1>1, <1>3, <2>1, FS_CardinalityType
<1>10. failures' \in 0..Operations /\ remaining' \in 0..Operations
  BY <1>8, <1>9, BulkAssumption
<1>11. CountInv'
  <2>1. answered' <=> failOnErrors > 0 /\ failures' >= failOnErrors
    BY <1>1 DEF stops
  <2>2. failOnErrors > 0 => failures' <= failOnErrors
    BY <1>1, <1>2, <1>3, <1>7 DEF CountInv
  <2> QED
    BY <1>1, <1>3, <1>8, <1>9, <2>1, <2>2 DEF CountInv
<1>12. \A O \in SUBSET Results : declaredBy(O)' =
         IF outcome \in O THEN declaredBy(O) \cup declares(index) ELSE declaredBy(O)
  BY <1>1, <1>2, <1>3, <1>4, BulkAssumption DEF declaredBy, declares
<1>13. /\ declaredBy({"succeeded"})' =
            IF outcome = "succeeded" THEN references \cup declares(index) ELSE references
       /\ declaredBy({"failed", "blocked"})' =
            IF outcome # "succeeded" THEN failed \cup declares(index) ELSE failed
  BY <1>12 DEF Inv, ReferenceInv, Results
<1>14. ReferenceInv'
  BY <1>1, <1>13 DEF ReferenceInv
<1> QED
  BY <1>1, <1>3, <1>4, <1>5, <1>10, <1>11, <1>14

\* An outcome, once given, stays, and so does what it rests on.
LEMMA FinishKeeps ==
  ASSUME Inv, looking, result[index] = None,
         NEW outcome \in {"succeeded", "failed", "blocked"}, finish(outcome)
  PROVE  /\ bulk' = bulk
         /\ \A i \in Index : result[i] # None => result'[i] = result[i]
         /\ \A i \in Index : i # index => result'[i] = result[i]
         /\ result'[index] = outcome
         /\ \A i \in Index : blocked(i) => blocked(i)'
         /\ \A i \in Index : result[i] # "cycle"
<1>1. /\ bulk' = bulk
      /\ result' = [result EXCEPT ![index] = outcome]
      /\ failed \subseteq failed'
  BY DEF finish
<1>2. index \in Index /\ result \in [Index -> Results \cup {None}]
  BY DEF looking, Inv, TypeOK
<1>3. \A i \in Index : blocked(i) => blocked(i)'
  BY <1>1 DEF blocked, declared
<1>4. \A i \in Index : result[i] # "cycle"
  BY <1>2 DEF Inv, OutcomeInv, undone
<1> QED
  BY <1>1, <1>2, <1>3, <1>4

\* An operation that is blocked keeps the invariant.
LEMMA BlockInv == Inv /\ Block => Inv'
<1> SUFFICES ASSUME Inv, Block PROVE Inv'
  OBVIOUS
<1>1. /\ looking /\ result[index] = None /\ blocked(index)
      /\ finish("blocked") /\ order' = order
  BY DEF Block
<1>2. /\ undone' = undone \ {index}
      /\ result' \in [Index -> Results \cup {None}]
      /\ failures' \in 0..Operations
      /\ remaining' \in 0..Operations
      /\ CountInv'
      /\ ReferenceInv'
  BY <1>1, FinishInv
<1>3. /\ bulk' = bulk
      /\ \A i \in Index : result[i] # None => result'[i] = result[i]
      /\ \A i \in Index : i # index => result'[i] = result[i]
      /\ result'[index] = "blocked"
      /\ \A i \in Index : blocked(i) => blocked(i)'
      /\ \A i \in Index : result[i] # "cycle"
  BY <1>1, FinishKeeps
<1>4. index \in Index /\ progress' = TRUE
  BY <1>1 DEF looking, finish
<1>5. TypeOK'
  <2>1. references' \subseteq BulkIds /\ failed' \subseteq BulkIds
    BY <1>1, <1>4, OperationType DEF finish, declares, Inv, TypeOK
  <2>2. index' \in 1..(Operations + 1)
    BY <1>1, <1>4, BulkAssumption DEF finish, Index
  <2>3. answered' \in BOOLEAN
    BY <1>1 DEF finish, stops
  <2>4. bulk' \in DecodeBulk /\ failOnErrors' \in 0..MaxFailures /\ order' \in Seq(Index)
    BY <1>1, <1>3 DEF finish, Inv, TypeOK
  <2> QED
    BY <1>2, <1>4, <2>1, <2>2, <2>3, <2>4 DEF TypeOK
<1>6. \A i \in Index : executed(i)' <=> executed(i)
  BY <1>1 DEF executed
<1>7. ~executed(index)
  BY <1>1, <1>4, BulkAssumption DEF Inv, OrderInv, Results
<1>8. OrderInv'
  <2>1. \A i \in Index : executed(i)' <=> result'[i] \in {"succeeded", "failed"}
    BY <1>3, <1>4, <1>6, <1>7 DEF Inv, OrderInv
  <2>2. order \in Seq(Index)
    BY DEF Inv, TypeOK
  <2>3. DependenciesFirst'
    BY <1>1, <1>3, <2>2, BulkAssumption DEF Inv, OrderInv, DependenciesFirst, Results
  <2> QED
    BY <2>1, <2>3 DEF OrderInv
<1>9. OutcomeInv'
  BY <1>1, <1>3, <1>4 DEF Inv, OutcomeInv
<1>10. CyclesNeverExecute'
  BY <1>3, <1>4, <1>6 DEF Inv, CyclesNeverExecute, Circular
<1> QED
  BY <1>2, <1>5, <1>8, <1>9, <1>10 DEF Inv

\* An operation that is executed keeps the invariant: it is ready, so that all it refers
\* to has succeeded before, and it is in no cycle.
LEMMA ExecuteInv == Inv /\ Execute => Inv'
<1> SUFFICES ASSUME Inv, Execute PROVE Inv'
  OBVIOUS
<1>1. /\ looking /\ result[index] = None /\ ready(index)
      /\ order' = Append(order, index)
  BY DEF Execute
<1>2. PICK outcome \in {"succeeded", "failed"} : finish(outcome)
  BY DEF Execute
<1>3. /\ undone' = undone \ {index}
      /\ result' \in [Index -> Results \cup {None}]
      /\ failures' \in 0..Operations
      /\ remaining' \in 0..Operations
      /\ CountInv'
      /\ ReferenceInv'
  BY <1>1, <1>2, FinishInv
<1>4. /\ bulk' = bulk
      /\ \A i \in Index : result[i] # None => result'[i] = result[i]
      /\ \A i \in Index : i # index => result'[i] = result[i]
      /\ result'[index] = outcome
      /\ \A i \in Index : blocked(i) => blocked(i)'
      /\ \A i \in Index : result[i] # "cycle"
  BY <1>1, <1>2, FinishKeeps
<1>5. index \in Index /\ progress' = TRUE /\ order \in Seq(Index)
  BY <1>1, <1>2 DEF looking, finish, Inv, TypeOK
<1>6. /\ Len(order') = Len(order) + 1 /\ Len(order) \in Nat
      /\ order'[Len(order')] = index
      /\ \A n \in 1..Len(order) : order'[n] = order[n] /\ order[n] \in Index
      /\ order' \in Seq(Index)
  BY <1>1, <1>5
<1>7. TypeOK'
  <2>1. references' \subseteq BulkIds /\ failed' \subseteq BulkIds
    BY <1>2, <1>5, OperationType DEF finish, declares, Inv, TypeOK
  <2>2. index' \in 1..(Operations + 1)
    BY <1>2, <1>5, BulkAssumption DEF finish, Index
  <2>3. answered' \in BOOLEAN
    BY <1>2 DEF finish, stops
  <2>4. bulk' \in DecodeBulk /\ failOnErrors' \in 0..MaxFailures
    BY <1>2, <1>4 DEF finish, Inv, TypeOK
  <2> QED
    BY <1>3, <1>5, <1>6, <2>1, <2>2, <2>3, <2>4 DEF TypeOK
<1>8. \A i \in Index : executed(i)' <=> executed(i) \/ i = index
  BY <1>6 DEF executed
<1>9. ~executed(index)
  BY <1>1, <1>5, BulkAssumption DEF Inv, OrderInv, Results
<1>10. \A d \in bulk[index].dependencies :
         \E m \in 1..Len(order) : bulk[order[m]].bulkId = d /\ result[order[m]] = "succeeded"
  <2> SUFFICES ASSUME NEW d \in bulk[index].dependencies
               PROVE  \E m \in 1..Len(order) :
                        bulk[order[m]].bulkId = d /\ result[order[m]] = "succeeded"
    OBVIOUS
  <2>1. PICK j \in Index : bulk[j].bulkId = d /\ result[j] = "succeeded"
    BY <1>1 DEF ready, Inv, ReferenceInv, declaredBy
  <2>2. executed(j)
    BY <2>1 DEF Inv, OrderInv
  <2> QED
    BY <2>1, <2>2 DEF executed
<1>11. OrderInv'
  <2>1. \A i \in Index : executed(i)' <=> result'[i] \in {"succeeded", "failed"}
    BY <1>4, <1>5, <1>8, <1>9 DEF Inv, OrderInv
  <2>2. DependenciesFirst'
    <3> SUFFICES ASSUME NEW n \in 1..Len(order')
                 PROVE  /\ \A m \in 1..(n - 1) : order'[m] # order'[n]
                        /\ \A d \in bulk[order'[n]].dependencies :
                             \E m \in 1..(n - 1) :
                               /\ bulk[order'[m]].bulkId = d
                               /\ result'[order'[m]] = "succeeded"
      BY <1>4 DEF DependenciesFirst
    <3>1. CASE n = Len(order')
      <4>1. \A m \in 1..(n - 1) : order'[m] # order'[n]
        BY <1>6, <1>9, <3>1 DEF executed
      <4>2. \A m \in 1..Len(order) : result[order[m]] = "succeeded" => result'[order'[m]] = "succeeded"
        BY <1>4, <1>6, BulkAssumption DEF Results
      <4> QED
        BY <1>6, <1>10, <3>1, <4>1, <4>2
    <3>2. CASE n # Len(order')
      <4>1. n \in 1..Len(order)
        BY <1>6, <3>2
      <4>2. \A m \in 1..Len(order) : result[order[m]] = "succeeded" => result'[order'[m]] = "succeeded"
        BY <1>4, <1>6, BulkAssumption DEF Results
      <4>3. \A m \in 1..(n - 1) : m \in 1..Len(order)
        BY <1>6, <4>1
      <4> QED
        BY <1>6, <4>1, <4>2, <4>3 DEF Inv, OrderInv, DependenciesFirst
    <3> QED
      BY <3>1, <3>2
  <2> QED
    BY <2>1, <2>2 DEF OrderInv
<1>12. OutcomeInv'
  BY <1>4, <1>5 DEF Inv, OutcomeInv
<1>13. CyclesNeverExecute'
  <2> SUFFICES ASSUME NEW S \in SUBSET Index, Circular(S), NEW i \in S
               PROVE  ~executed(i)' /\ result'[i] \in {None, "blocked", "cycle"}
    BY <1>4 DEF CyclesNeverExecute, Circular
  <2>1. i # index
    BY <1>1, CircularNotReady
  <2> QED
    BY <1>4, <1>8, <2>1 DEF Inv, CyclesNeverExecute
<1> QED
  BY <1>3, <1>7, <1>11, <1>12, <1>13 DEF Inv

\* Steps that leave the outcomes and the references alone leave most of the invariant.
LEMMA SameOutcomes ==
  ASSUME Inv, UNCHANGED <<bulk, references, failed, result, order>>
  PROVE  /\ undone' = undone
         /\ ReferenceInv' /\ OrderInv' /\ CyclesNeverExecute'
         /\ \A i \in Index : (blocked(i)' <=> blocked(i)) /\ (ready(i)' <=> ready(i))
         /\ \A i \in Index : result'[i] = "blocked" => blocked(i)'
         /\ \A i \in Index : result'[i] = "cycle" =>
              /\ undone' = {}
              /\ ~ready(i)'
              /\ \E S \in SUBSET Index : i \in S /\ Circular(S)'
<1>1. undone' = undone
  BY DEF undone
<1>2. ReferenceInv'
  BY DEF Inv, ReferenceInv, declaredBy
<1>3. OrderInv'
  BY DEF Inv, OrderInv, DependenciesFirst, executed
<1>4. CyclesNeverExecute'
  BY DEF Inv, CyclesNeverExecute, Circular, executed
<1>5. \A i \in Index : (blocked(i)' <=> blocked(i)) /\ (ready(i)' <=> ready(i))
  BY DEF blocked, ready, declared
<1>6. \A S : Circular(S)' <=> Circular(S)
  BY DEF Circular
<1> QED
  BY <1>1, <1>2, <1>3, <1>4, <1>5, <1>6 DEF Inv, OutcomeInv

\* Passing over an operation keeps the invariant: it is done or has to wait.
LEMMA ContinueInv == Inv /\ Continue => Inv'
<1> SUFFICES ASSUME Inv, Continue PROVE Inv'
  OBVIOUS
<1>1. /\ index \in Index /\ index' = index + 1
      /\ result[index] # None \/ (~ready(index) /\ ~blocked(index))
      /\ UNCHANGED <<bulk, failOnErrors, references, failed, result, failures, remaining,
                     progress, answered, order>>
  BY DEF Continue, looking
<1>2. TypeOK'
  BY <1>1, BulkAssumption DEF Inv, TypeOK, Index
<1>3. CountInv'
  BY <1>1 DEF Inv, CountInv, undone
<1>4. ~progress' => \A i \in Index : i < index' /\ result'[i] = None => ~ready(i)' /\ ~blocked(i)'
  <2> SUFFICES ASSUME ~progress, NEW i \in Index, i < index + 1, result[i] = None
               PROVE  ~ready(i) /\ ~blocked(i)
    BY <1>1, SameOutcomes
  <2>1. i < index \/ i = index
    BY <1>1 DEF Index
  <2> QED
    BY <1>1, <2>1 DEF Inv, OutcomeInv
<1> QED
  BY <1>1, <1>2, <1>3, <1>4, SameOutcomes DEF Inv, OutcomeInv

\* A new pass has looked at nothing yet.
LEMMA NextPassInv == Inv /\ NextPass => Inv'
<1> SUFFICES ASSUME Inv, NextPass PROVE Inv'
  OBVIOUS
<1>1. /\ index' = 1 /\ progress' = FALSE
      /\ UNCHANGED <<bulk, failOnErrors, references, failed, result, failures, remaining,
                     answered, order>>
  BY DEF NextPass
<1>2. TypeOK'
  <2>1. index' \in 1..(Operations + 1)
    BY <1>1, BulkAssumption
  <2>2. progress' \in BOOLEAN
    BY <1>1
  <2> QED
    BY <1>1, <2>1, <2>2 DEF Inv, TypeOK
<1>3. CountInv'
  BY <1>1 DEF Inv, CountInv, undone
<1>4. \A i \in Index : ~(i < index')
  BY <1>1 DEF Index
<1> QED
  BY <1>1, <1>2, <1>3, <1>4, SameOutcomes DEF Inv, OutcomeInv

\* The answer is complete when nothing remains.
LEMMA AnswerInv == Inv /\ Answer => Inv'
<1> SUFFICES ASSUME Inv, Answer PROVE Inv'
  OBVIOUS
<1>1. /\ remaining = 0 /\ answered' = TRUE
      /\ UNCHANGED <<bulk, failOnErrors, references, failed, result, failures, remaining,
                     index, progress, order>>
  BY DEF Answer
<1>2. TypeOK'
  BY <1>1 DEF Inv, TypeOK
<1>3. undone = {}
  BY <1>1, UndoneFinite, FS_EmptySet DEF Inv, CountInv
<1>4. CountInv'
  BY <1>1, <1>3 DEF Inv, CountInv, undone
<1> QED
  BY <1>1, <1>2, <1>4, SameOutcomes DEF Inv, OutcomeInv

\* A pass without progress: each operation that remains refers to another one that
\* remains, since what it refers to is declared and has neither succeeded nor failed.
LEMMA RestIsCircular ==
  ASSUME Inv, index = Operations + 1, ~progress, undone # {}
  PROVE  /\ Circular(undone)
         /\ \A i \in undone : ~ready(i)
<1>1. ASSUME NEW i \in undone
      PROVE  ~ready(i) /\ \E j \in undone : bulk[j].bulkId \in bulk[i].dependencies
  <2>1. i \in Index /\ result[i] = None /\ i < index
    BY BulkAssumption DEF undone, Index
  <2>2. ~ready(i) /\ ~blocked(i)
    BY <2>1 DEF Inv, OutcomeInv
  <2>3. PICK d \in bulk[i].dependencies : d \notin references /\ d \in declared /\ d \notin failed
    BY <2>2 DEF ready, blocked
  <2>4. PICK j \in Index : bulk[j].bulkId = d /\ d # None
    BY <2>3 DEF declared
  <2>5. result[j] \notin {"succeeded", "failed", "blocked"}
    BY <2>3, <2>4 DEF Inv, ReferenceInv, declaredBy
  <2>6. result[j] # "cycle"
    BY DEF Inv, OutcomeInv
  <2>7. j \in undone
    BY <2>5, <2>6 DEF undone, Inv, TypeOK, Results
  <2> QED
    BY <2>2, <2>4, <2>7
<1> QED
  BY <1>1 DEF Circular

\* Refusing the rest as a cycle keeps the invariant.
LEMMA FailCycleInv == Inv /\ FailCycle => Inv'
<1> SUFFICES ASSUME Inv, FailCycle PROVE Inv'
  OBVIOUS
<1>1. /\ index = Operations + 1 /\ remaining > 0 /\ ~progress
      /\ result' = [i \in Index |-> IF result[i] = None THEN "cycle" ELSE result[i]]
      /\ remaining' = remaining - Cardinality(undone)
      /\ UNCHANGED <<bulk, failOnErrors, references, failed, failures, index, progress,
                     answered, order>>
      /\ ~answered
  BY DEF FailCycle, undone
<1>2. remaining = Cardinality(undone) /\ remaining' = 0
  BY <1>1, UndoneFinite DEF Inv, CountInv
<1>3. undone # {}
  BY <1>1, <1>2, FS_EmptySet
<1>4. undone' = {}
  BY <1>1, BulkAssumption DEF undone, Results
<1>5. TypeOK'
  <2>1. result' \in [Index -> Results \cup {None}]
    BY <1>1 DEF Inv, TypeOK, Results
  <2>2. remaining' \in 0..Operations
    BY <1>2, BulkAssumption
  <2> QED
    BY <1>1, <2>1, <2>2 DEF Inv, TypeOK
<1>6. CountInv'
  <2>1. Cardinality(undone') = 0
    BY <1>4, FS_EmptySet
  <2>2. failures \in Nat /\ failures + 0 <= Operations
    BY <1>2, UndoneFinite, BulkAssumption DEF Inv, CountInv, TypeOK
  <2> QED
    BY <1>1, <1>2, <1>4, <2>1, <2>2 DEF Inv, CountInv
<1>7. \A i \in Index : /\ result[i] # None => result'[i] = result[i]
                       /\ result[i] = None => result'[i] = "cycle"
  BY <1>1
<1>8. ReferenceInv'
  <2>1. \A O \in SUBSET {"succeeded", "failed", "blocked"} : declaredBy(O)' = declaredBy(O)
    BY <1>1, BulkAssumption DEF declaredBy, Results
  <2> QED
    BY <1>1, <2>1 DEF Inv, ReferenceInv
<1>9. \A i \in Index : executed(i)' <=> executed(i)
  BY <1>1 DEF executed
<1>10. OrderInv'
  <2>1. \A i \in Index : executed(i)' <=> result'[i] \in {"succeeded", "failed"}
    BY <1>7, <1>9, BulkAssumption DEF Inv, OrderInv, Results
  <2>2. order \in Seq(Index)
    BY DEF Inv, TypeOK
  <2>3. DependenciesFirst'
    BY <1>1, <1>7, <2>2, BulkAssumption, SMTT(30) DEF Inv, OrderInv, DependenciesFirst, Results
  <2> QED
    BY <2>1, <2>3 DEF OrderInv
<1>11. CyclesNeverExecute'
  BY <1>1, <1>7, <1>9 DEF Inv, CyclesNeverExecute, Circular
<1>12. OutcomeInv'
  <2>1. \A i \in Index : (blocked(i)' <=> blocked(i)) /\ (ready(i)' <=> ready(i))
    BY <1>1 DEF blocked, ready, declared
  <2>2. \A i \in Index : result'[i] = "blocked" => blocked(i)'
    BY <1>7, <2>1 DEF Inv, OutcomeInv
  <2>3. ASSUME NEW i \in Index, result'[i] = "cycle"
        PROVE  ~ready(i)' /\ \E S \in SUBSET Index : i \in S /\ Circular(S)'
    <3>1. result[i] # "cycle"
      BY <1>3 DEF Inv, OutcomeInv
    <3>2. i \in undone /\ undone \in SUBSET Index
      BY <1>7, <2>3, <3>1 DEF undone
    <3>3. ~ready(i) /\ Circular(undone)
      BY <1>1, <1>3, <3>2, RestIsCircular
    <3>4. \A S : Circular(S)' <=> Circular(S)
      BY <1>1 DEF Circular
    <3> QED
      BY <2>1, <3>2, <3>3, <3>4
  <2> QED
    BY <1>4, <2>2, <2>3 DEF OutcomeInv, undone
<1> QED
  BY <1>5, <1>6, <1>8, <1>10, <1>11, <1>12 DEF Inv

\* Every step of serveBulk keeps the invariant.
LEMMA NextInv == Inv /\ [Next]_vars => Inv'
<1> SUFFICES ASSUME Inv, [Next]_vars PROVE Inv'
  OBVIOUS
<1>1. CASE UNCHANGED vars
  <2>1. TypeOK' /\ CountInv'
    BY <1>1 DEF vars, Inv, TypeOK, CountInv, undone
  <2> QED
    BY <1>1, <2>1, SameOutcomes DEF vars, Inv, OutcomeInv
<1> QED
  BY <1>1, BlockInv, ExecuteInv, ContinueInv, NextPassInv, AnswerInv, FailCycleInv DEF Next

\* The invariant holds in every reachable state.
THEOREM Invariance == Spec => []Inv
BY InitInv, NextInv, PTL DEF Spec

-----------------------------------------------------------------------------
(* Theorems *)

\* serveBulk executes an operation at most once, and only after all it refers to has
\* been executed with success, in whatever order the operations were sent.
THEOREM ExecutesInOrder == Spec => []DependenciesFirst
<1>1. Inv => DependenciesFirst
  BY DEF Inv, OrderInv
<1> QED
  BY <1>1, Invariance, PTL

\* serveBulk executes no operation in or behind a cycle of references.
THEOREM CyclesStayUnexecuted == Spec => []CyclesNeverExecute
<1>1. Inv => CyclesNeverExecute
  BY DEF Inv
<1> QED
  BY <1>1, Invariance, PTL

\* The complete answer of serveBulk gives every operation an outcome, and each refusal
\* has its reason in the request or in another operation's failure.
THEOREM AnswersAreExplained == Spec => []AnswersExplained
<1>1. Inv => AnswersExplained
  <2> SUFFICES ASSUME Inv, remaining = 0, NEW i \in Index
               PROVE  /\ result[i] # None
                      /\ result[i] = "blocked" => blocked(i)
                      /\ result[i] = "cycle" => \E S \in SUBSET Index : i \in S /\ Circular(S)
                      /\ ready(i) /\ ~blocked(i) => executed(i)
    BY DEF AnswersExplained
  <2>1. undone = {}
    BY UndoneFinite, FS_EmptySet DEF Inv, CountInv
  <2>2. result[i] # None /\ result[i] \in Results
    BY <2>1 DEF undone, Inv, TypeOK
  <2>3. result[i] \in {"succeeded", "failed"} => executed(i)
    BY DEF Inv, OrderInv
  <2> QED
    BY <2>2, <2>3 DEF Inv, OutcomeInv, Results
<1> QED
  BY <1>1, Invariance, PTL

\* failOnErrors is never passed, and operations are left out of the answer only when it
\* was reached.
THEOREM FailureLimitHolds == Spec => []FailOnErrorsStops
<1>1. Inv => FailOnErrorsStops
  BY DEF Inv, CountInv, FailOnErrorsStops, undone
<1> QED
  BY <1>1, Invariance, PTL
=============================================================================
