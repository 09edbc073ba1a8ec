----------------------------- MODULE RemoteCall -----------------------------
(***************************************************************************)
(* What a caller of TcpConnector may rely on: calls are made one at a      *)
(* time; each is executed at most once, perhaps after it was reported as   *)
(* failed; and an answer is the answer that very call was given.           *)
(***************************************************************************)
EXTENDS Naturals, Sequences

CONSTANTS Call, AnswerStatus

VARIABLES
  asked,      \* number of calls made
  executions, \* the sequence of <<call, answer>> at the server
  outcome     \* what each call returned: "pending", "failed" or an answer

remoteVars == <<asked, executions, outcome>>

RemoteInit == asked = 0 /\ executions = <<>> /\ outcome = [c \in Call |-> "pending"]

Ask ==
  /\ asked + 1 \in Call
  /\ asked > 0 => outcome[asked] # "pending"
  /\ asked' = asked + 1
  /\ UNCHANGED <<executions, outcome>>

(* A call refused before it is sent is asked and fails in one step.        *)
AskAndFail ==
  /\ asked + 1 \in Call
  /\ asked > 0 => outcome[asked] # "pending"
  /\ asked' = asked + 1
  /\ outcome' = [outcome EXCEPT ![asked + 1] = "failed"]
  /\ UNCHANGED executions

ExecuteOnce(c, answer) ==
  /\ c \in 1 .. asked
  /\ \A i \in DOMAIN executions : executions[i][1] # c
  /\ executions' = Append(executions, <<c, answer>>)
  /\ UNCHANGED <<asked, outcome>>

Answered(answer) ==
  /\ asked > 0 /\ outcome[asked] = "pending"
  /\ \E i \in DOMAIN executions : executions[i] = <<asked, answer>>
  /\ outcome' = [outcome EXCEPT ![asked] = answer]
  /\ UNCHANGED <<asked, executions>>

Failed ==
  /\ asked > 0 /\ outcome[asked] = "pending"
  /\ outcome' = [outcome EXCEPT ![asked] = "failed"]
  /\ UNCHANGED <<asked, executions>>

RemoteNext ==
  \/ Ask \/ AskAndFail \/ Failed
  \/ \E answer \in AnswerStatus : Answered(answer) \/ \E c \in Call : ExecuteOnce(c, answer)

RemoteSpec == RemoteInit /\ [][RemoteNext]_remoteVars
=============================================================================
