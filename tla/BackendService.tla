---------------------------- MODULE BackendService ----------------------------
(***************************************************************************)
(* What a backend promises its callers, whatever happens to the server     *)
(* behind it (backend.go, the comments of Backend and callWithReconnect).  *)
(*                                                                         *)
(* A request is tried at most twice and a try reaches the server at most   *)
(* once.  A caller told of an answer has had its request executed.  A      *)
(* caller told that the backend is unavailable can rely on nothing being   *)
(* executed from then on; only after a result of LateResults may the       *)
(* request still be executed: for a stdio backend that is running out of   *)
(* time, not a lost connection, whose child is gone.                       *)
(***************************************************************************)
CONSTANTS
  Callers,       \* requests made of the backend
  Initializers,  \* those that are Initialize
  LateResults    \* results after which a request may still be executed

VARIABLES
  result,    \* result[t]: how t's request ended, "none" before
  executed   \* executed[t]: the tries of t's request the server has executed

serviceVars == <<result, executed>>

Tries == {1, 2}

Init ==
  /\ result = [t \in Callers |-> "none"]
  /\ executed = [t \in Callers |-> {}]

Execute(t, n) ==
  /\ t \notin Initializers
  /\ n \notin executed[t]
  /\ result[t] \in {"none"} \cup LateResults
  /\ executed' = [executed EXCEPT ![t] = @ \cup {n}]
  /\ UNCHANGED result

Return(t, r) ==
  /\ result[t] = "none"
  /\ result' = [result EXCEPT ![t] = r]
  /\ r \in {"unavailable"} \cup
       (IF t \in Initializers THEN {"ready"}
        ELSE {"gaveUp", "lost"} \cup (IF executed[t] = {} THEN {} ELSE {"answered"}))
  /\ UNCHANGED executed

Next == \E t \in Callers :
  \/ \E n \in Tries : Execute(t, n)
  \/ \E r \in {"ready", "answered", "unavailable", "gaveUp", "lost"} : Return(t, r)

Spec == Init /\ [][Next]_serviceVars
=============================================================================
