--------------------------- MODULE OperationFactors ---------------------------
(***************************************************************************)
(* Operation-scoped device factors: for each operation the Keychain has a  *)
(* record that can be added and read and, as far as sshenv goes, is never  *)
(* changed or removed.  Whoever provisions an operation adds a key,        *)
(* whoever reconciles it adds a tombstone, and both answer with what is    *)
(* there afterwards.  Calls overlap, fail and die anywhere.                *)
(***************************************************************************)

CONSTANTS Callers, Operations, Keys,
          Tombstone,        \* "sshenv-operation-cancelled-v1"
          Vacant            \* no record, no key

ASSUME OperationAssumption == Tombstone \notin Keys /\ Vacant \notin Keys \cup {Tombstone}

VARIABLES record,           \* what the Keychain has for each operation
          calling,          \* what each caller is at
          answers           \* history: what was answered, by operation

operationVars == <<record, calling, answers>>

Calls   == {"retrieve", "provision", "reconcile"}
NotCalling == [call |-> "retrieve", op |-> Vacant, at |-> "rest", key |-> Vacant]
Callings ==
  [call : Calls, op : Operations, at : {"read", "add", "readback"}, key : Keys \cup {Vacant}]
    \cup {NotCalling}

OperationInit ==
  /\ record = [op \in Operations |-> Vacant]
  /\ calling = [c \in Callers |-> NotCalling]
  /\ answers = [op \in Operations |-> {}]

-----------------------------------------------------------------------------
(* An answer is the key, or Cancelled; "present" is answered for a key.      *)

EndsCall(c) == calling' = [calling EXCEPT ![c] = NotCalling]

Says(c, answer) ==
  /\ answers' = [answers EXCEPT ![calling[c].op] = @ \cup {answer}]
  /\ EndsCall(c)
  /\ UNCHANGED record

\* What is read is a key, or a tombstone where the call can answer with one:
\* retrieve and provision take a tombstone for an error, reconcile classifies it.
Answerable(c, what) == what \in Keys \/ (what = Tombstone /\ calling[c].call = "reconcile")

Call(c, call, op) ==
  /\ calling[c].at = "rest"
  /\ calling' = [calling EXCEPT ![c] = [call |-> call, op |-> op, at |-> "read", key |-> Vacant]]
  /\ UNCHANGED <<record, answers>>

ReadRecord(c) ==
  /\ calling[c].at = "read"
  /\ Answerable(c, record[calling[c].op])
  /\ Says(c, record[calling[c].op])

Drawn == {record[op] : op \in Operations} \cup {calling[c].key : c \in Callers}
           \cup UNION {answers[op] : op \in Operations}

\* Verified absence: provision draws a key; retrieve has nothing more to try.
FindVacant(c) ==
  /\ calling[c].at = "read"
  /\ record[calling[c].op] = Vacant
  /\ \/ /\ calling[c].call = "provision"
        /\ \E key \in Keys \ Drawn : calling' = [calling EXCEPT ![c].at = "add", ![c].key = key]
     \/ /\ calling[c].call = "reconcile"
        /\ calling' = [calling EXCEPT ![c].at = "add"]
  /\ UNCHANGED <<record, answers>>

Own(c) == IF calling[c].call = "provision" THEN calling[c].key ELSE Tombstone

\* SecItemAdd: a duplicate is no error, and stays what it is.
AddRecord(c) ==
  /\ calling[c].at = "add"
  /\ record' = [record EXCEPT ![calling[c].op] = IF @ = Vacant THEN Own(c) ELSE @]
  /\ calling' = [calling EXCEPT ![c].at = "readback"]
  /\ UNCHANGED answers

(* Mutant: the call answers with what it meant to add. *)
AnswerOwn(c) ==
  /\ calling[c].at = "readback"
  /\ Says(c, Own(c))

\* What is there now is the answer, whoever added it.
ReadBack(c) ==
  /\ calling[c].at = "readback"
  /\ Answerable(c, record[calling[c].op])
  /\ Says(c, record[calling[c].op])

\* The Keychain is not available, the record is no answer to this call, or the
\* process dies: nobody knows how far it came.
Break(c) ==
  /\ calling[c].at # "rest"
  /\ EndsCall(c)
  /\ UNCHANGED <<record, answers>>

OperationNext ==
  \E c \in Callers :
    \/ \E call \in Calls, op \in Operations : Call(c, call, op)
    \/ ReadRecord(c) \/ FindVacant(c) \/ AddRecord(c) \/ ReadBack(c) \/ Break(c)

OperationSpec == OperationInit /\ [][OperationNext]_operationVars

-----------------------------------------------------------------------------
\* What the variables hold.
OperationTypeOK ==
  /\ record \in [Operations -> Keys \cup {Tombstone, Vacant}]
  /\ calling \in [Callers -> Callings]
  /\ answers \in [Operations -> SUBSET (Keys \cup {Tombstone})]

\* Every answer stands: what any call was ever told of an operation is what the
\* Keychain has.  So two who provision get one key, also after an interrupted
\* creation, nobody holds the key of an operation that was answered Cancelled, and
\* no reconciliation takes away a key that somebody holds.
AnswersStand == \A op \in Operations : answers[op] \subseteq {record[op]}
===============================================================================
