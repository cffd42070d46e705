-------------------------------- MODULE Bulk --------------------------------
(***************************************************************************)
(* Server.serveBulk: the passes over a Bulk request that execute each       *)
(* operation once what it refers to by bulkId has been created.             *)
(*                                                                          *)
(* An operation is the bulkId it declares (POST only) and the set of        *)
(* bulkIds its path and data refer to (bulkDependencies).  Executing it is  *)
(* one transaction of its own, which succeeds or fails for reasons that     *)
(* ScimServer models: here the outcome is a choice, so that anything other  *)
(* clients do between two operations is covered.                            *)
(***************************************************************************)
EXTENDS Naturals, Sequences, FiniteSets

CONSTANTS
  None,        \* no bulkId, no result yet
  BulkIds,     \* bulkId values
  Operations,  \* bound: operations of a request
  MaxFailures  \* bound: values of failOnErrors

Results == {"succeeded", "failed", "blocked", "cycle"}

ASSUME BulkAssumption ==
  /\ None \notin BulkIds \cup Results
  /\ Operations \in Nat \ {0}
  /\ MaxFailures \in Nat

Index == 1..Operations

VARIABLES
  bulk,          \* the decoded operations
  failOnErrors,  \* 0 when absent
  references,    \* bulkIds of operations that succeeded
  failed,        \* bulkIds of operations that failed (failedReferences)
  result,        \* the outcome of each operation, None while it is not done
  failures,      \* failures counted towards failOnErrors
  remaining,     \* operations not done
  index,         \* the operation the current pass looks at
  progress,      \* whether the current pass has done an operation
  answered,      \* the response has been written
  order          \* history: operations in the order of their execution

vars == <<bulk, failOnErrors, references, failed, result, failures, remaining,
          index, progress, answered, order>>

\* DecodeBulk refuses a request in which two operations declare one bulkId.
DecodeBulk ==
  {b \in [Index -> [bulkId : BulkIds \cup {None}, dependencies : SUBSET BulkIds]] :
     \A i, j \in Index : b[i].bulkId = b[j].bulkId /\ b[i].bulkId # None => i = j}

Init ==
  /\ bulk \in DecodeBulk
  /\ failOnErrors \in 0..MaxFailures
  /\ references = {}
  /\ failed = {}
  /\ result = [i \in Index |-> None]
  /\ failures = 0
  /\ remaining = Operations
  /\ index = 1
  /\ progress = FALSE
  /\ answered = FALSE
  /\ order = <<>>

\* declaredReferences
declared == {bulk[i].bulkId : i \in Index} \ {None}

\* Some dependency is declared nowhere, or has failed.
blocked(i) == \E d \in bulk[i].dependencies : d \notin declared \/ d \in failed

\* Mutant: an operation may refer to itself.
ReadyWithItself(i) == bulk[i].dependencies \ {bulk[i].bulkId} \subseteq references

ready(i) == bulk[i].dependencies \subseteq references

looking == ~answered /\ index \in Index

\* The operation is done, or must wait for a later pass.
Continue ==
  /\ looking
  /\ \/ result[index] # None
     \/ ~ready(index) /\ ~blocked(index)
  /\ index' = index + 1
  /\ UNCHANGED <<bulk, failOnErrors, references, failed, result, failures, remaining,
                 progress, answered, order>>

\* The bulkId an operation declares, if it does.
declares(i) == {bulk[i].bulkId} \ {None}

\* Mutant: one failure too many is allowed.
StopsLate(n) == failOnErrors > 0 /\ n > failOnErrors

stops(n) == failOnErrors > 0 /\ n >= failOnErrors

\* The operation is done.  Reaching failOnErrors ends the whole request, and the
\* response then has only the operations that are done.
finish(outcome) ==
  LET i == index
      fails == outcome # "succeeded"
  IN  /\ result' = [result EXCEPT ![i] = outcome]
      /\ failures' = IF fails THEN failures + 1 ELSE failures
      /\ failed' = IF fails THEN failed \cup declares(i) ELSE failed
      /\ references' = IF fails THEN references ELSE references \cup declares(i)
      /\ remaining' = remaining - 1
      /\ progress' = TRUE
      /\ answered' = stops(failures')
      /\ index' = i + 1
      /\ UNCHANGED <<bulk, failOnErrors>>

\* An operation that can never be resolved fails without being executed.
Block ==
  /\ looking
  /\ result[index] = None
  /\ blocked(index)
  /\ finish("blocked")
  /\ UNCHANGED order

\* Mutant: operations that are done are not skipped.
ExecuteAgain ==
  /\ looking
  /\ ready(index)
  /\ ~blocked(index)
  /\ \E outcome \in {"succeeded", "failed"} : finish(outcome)
  /\ order' = Append(order, index)

\* executeBulkOperation
Execute ==
  /\ looking
  /\ result[index] = None
  /\ ready(index)
  /\ ~blocked(index)
  /\ \E outcome \in {"succeeded", "failed"} : finish(outcome)
  /\ order' = Append(order, index)

\* Mutant: progress is not reset.
NextPassForever ==
  /\ ~answered
  /\ index = Operations + 1
  /\ remaining > 0
  /\ progress
  /\ index' = 1
  /\ UNCHANGED <<bulk, failOnErrors, references, failed, result, failures, remaining,
                 progress, answered, order>>

\* A pass that did something is followed by another while operations remain.
NextPass ==
  /\ ~answered
  /\ index = Operations + 1
  /\ remaining > 0
  /\ progress
  /\ index' = 1
  /\ progress' = FALSE
  /\ UNCHANGED <<bulk, failOnErrors, references, failed, result, failures, remaining,
                 answered, order>>

\* Mutant: what the first pass leaves is a cycle.
FailRest ==
  /\ ~answered
  /\ index = Operations + 1
  /\ remaining > 0
  /\ result' = [i \in Index |-> IF result[i] = None THEN "cycle" ELSE result[i]]
  /\ remaining' = remaining - Cardinality({i \in Index : result[i] = None})
  /\ UNCHANGED <<bulk, failOnErrors, references, failed, failures, index, progress,
                 answered, order>>

\* A pass without progress: what remains waits in a circle.  These failures are
\* not counted.
FailCycle ==
  /\ ~answered
  /\ index = Operations + 1
  /\ remaining > 0
  /\ ~progress
  /\ result' = [i \in Index |-> IF result[i] = None THEN "cycle" ELSE result[i]]
  /\ remaining' = remaining - Cardinality({i \in Index : result[i] = None})
  /\ UNCHANGED <<bulk, failOnErrors, references, failed, failures, index, progress,
                 answered, order>>

Answer ==
  /\ ~answered
  /\ index = Operations + 1
  /\ remaining = 0
  /\ answered' = TRUE
  /\ UNCHANGED <<bulk, failOnErrors, references, failed, result, failures, remaining,
                 index, progress, order>>

Next == Continue \/ Block \/ Execute \/ NextPass \/ FailCycle \/ Answer

Spec == Init /\ [][Next]_vars

\* serveBulk is one goroutine: it takes its next step.
FairSpec == Spec /\ WF_vars(Next)

-----------------------------------------------------------------------------
(* Properties *)

\* The types of the variables.
TypeOK ==
  /\ bulk \in DecodeBulk
  /\ failOnErrors \in 0..MaxFailures
  /\ references \subseteq BulkIds
  /\ failed \subseteq BulkIds
  /\ result \in [Index -> Results \cup {None}]
  /\ failures \in 0..Operations
  /\ remaining \in 0..Operations
  /\ index \in 1..(Operations + 1)
  /\ progress \in BOOLEAN
  /\ answered \in BOOLEAN
  /\ order \in Seq(Index)

executed(i) == \E n \in 1..Len(order) : order[n] = i

\* Whatever order they are sent in, an operation is executed at most once, and
\* only after every operation it refers to has been executed with success.
DependenciesFirst ==
  \A n \in 1..Len(order) :
    /\ \A m \in 1..(n - 1) : order[m] # order[n]
    /\ \A d \in bulk[order[n]].dependencies :
         \E m \in 1..(n - 1) :
           bulk[order[m]].bulkId = d /\ result[order[m]] = "succeeded"

\* Every operation of S refers to an operation of S.
Circular(S) ==
  \A i \in S : \E j \in S : bulk[j].bulkId \in bulk[i].dependencies

\* "Circular dependencies fail explicitly without partially executing the
\* cycle": no operation in or behind a cycle is executed, and none is left
\* without a failure when the answer is complete.
CyclesNeverExecute ==
  \A S \in SUBSET Index : Circular(S) =>
    \A i \in S : ~executed(i) /\ result[i] \in {None, "blocked", "cycle"}

\* The answer accounts for every operation, and every refusal has its reason: an
\* operation is blocked only by an unknown or failed dependency, called a cycle
\* only when it is in or behind one, and executed otherwise.
AnswersExplained ==
  answered /\ remaining = 0 =>
    \A i \in Index :
      /\ result[i] # None
      /\ result[i] = "blocked" => blocked(i)
      /\ result[i] = "cycle" => \E S \in SUBSET Index : i \in S /\ Circular(S)
      /\ ready(i) /\ ~blocked(i) => executed(i)

\* failOnErrors "stops further execution once the configured failure count is
\* reached": the count is never passed, and operations are left out of the
\* answer only when it was reached.
FailOnErrorsStops ==
  /\ failOnErrors > 0 => failures <= failOnErrors
  /\ answered /\ (\E i \in Index : result[i] = None) =>
       failOnErrors > 0 /\ failures = failOnErrors

\* A Bulk request is answered, however its operations refer to one another.
Answered == <>answered
=============================================================================
