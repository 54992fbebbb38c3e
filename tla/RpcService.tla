----------------------------- MODULE RpcService -----------------------------
(***************************************************************************)
(* What a pair of BiDirectionalRpc handlers promises its users, with no    *)
(* packets, no resending and no caches: a request is executed once by the  *)
(* other end, after every request of an earlier barrier is complete, is    *)
(* answered once, and completes at its issuer only after it was answered.  *)
(*                                                                         *)
(* All four variables are indexed by the end that ISSUED the request.      *)
(***************************************************************************)
EXTENDS Integers

CONSTANTS Node, Rpc

VARIABLES requested, executed, answered, completed

serviceVars == <<requested, executed, answered, completed>>

Init == /\ requested = [n \in Node |-> {}]
        /\ executed = [n \in Node |-> {}]
        /\ answered = [n \in Node |-> {}]
        /\ completed = [n \in Node |-> {}]

\* request() and requestOneWay(): a new id, in a barrier no earlier than the last one used.
Issue(n, r) ==
  /\ \A q \in requested[n] : q.uuid # r.uuid /\ q.barrier <= r.barrier
  /\ requested' = [requested EXCEPT ![n] = @ \cup {r}]
  /\ UNCHANGED <<executed, answered, completed>>

MayExecute(n, r) ==
  /\ r \in requested[n] \ executed[n]
  /\ \A q \in requested[n] : q.barrier < r.barrier => q \in completed[n]

\* The request is handed to the application of the other end.
Execute(n, r) ==
  /\ MayExecute(n, r)
  /\ executed' = [executed EXCEPT ![n] = @ \cup {r}]
  /\ UNCHANGED <<requested, answered, completed>>

\* The application replies.
Answer(n, r) ==
  /\ r \in executed[n] \ answered[n]
  /\ answered' = [answered EXCEPT ![n] = @ \cup {r}]
  /\ UNCHANGED <<requested, executed, completed>>

\* PING and SHUTDOWN: the handler replies by itself.
ExecuteAndAnswer(n, r) ==
  /\ MayExecute(n, r)
  /\ executed' = [executed EXCEPT ![n] = @ \cup {r}]
  /\ answered' = [answered EXCEPT ![n] = @ \cup {r}]
  /\ UNCHANGED <<requested, completed>>

\* The issuer learns that the request was answered.
Complete(n, r) ==
  /\ r \in answered[n] \ completed[n]
  /\ completed' = [completed EXCEPT ![n] = @ \cup {r}]
  /\ UNCHANGED <<requested, executed, answered>>

Next == \E n \in Node, r \in Rpc :
          \/ Issue(n, r) \/ Execute(n, r) \/ Answer(n, r)
          \/ ExecuteAndAnswer(n, r) \/ Complete(n, r)

Spec == Init /\ [][Next]_serviceVars
=============================================================================
