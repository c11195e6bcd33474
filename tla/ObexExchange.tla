---------------------------- MODULE ObexExchange ----------------------------
(***************************************************************************)
(* What two applications joined by OpenOBEX may rely on while nothing is   *)
(* cancelled and nothing fails: requests are made one at a time, each is   *)
(* given to the serving application at most once and answered once, and    *)
(* the requesting application is told that answer.                         *)
(*                                                                         *)
(* ObexSession implements this specification (see Exchange there).         *)
(***************************************************************************)
EXTENDS Naturals

CONSTANTS MaxRequests, Codes

VARIABLES
  issued,     \* the number of requests made so far
  served,     \* the requests given to the serving application
  answered,   \* the requests it has answered, with the code
  done        \* the requests ended at the requesting application, with the code

vars == <<issued, served, answered, done>>

Answer == [id : 1..MaxRequests, rsp : Codes]
IdsOf(answers) == {a.id : a \in answers}

Init ==
  /\ issued = 0
  /\ served = {}
  /\ answered = {}
  /\ done = {}

\* A new request: all the earlier ones have ended.
Issue ==
  /\ issued < MaxRequests
  /\ IdsOf(done) = 1..issued
  /\ issued' = issued + 1
  /\ UNCHANGED <<served, answered, done>>

\* The current request has arrived and is given to the application.
Serve ==
  /\ issued \notin served \cup IdsOf(answered) \cup {0}
  /\ served' = served \cup {issued}
  /\ UNCHANGED <<issued, answered, done>>

\* It is answered; SUCCESS is for requests the application was given.
Reply(rsp) ==
  /\ issued \notin IdsOf(answered) \cup {0}
  /\ rsp = "SUCCESS" => issued \in served
  /\ answered' = answered \cup {[id |-> issued, rsp |-> rsp]}
  /\ UNCHANGED <<issued, served, done>>

\* The answer arrives.
Finish ==
  /\ \E a \in answered \ done : done' = done \cup {a}
  /\ UNCHANGED <<issued, served, answered>>

Next == Issue \/ Serve \/ (\E rsp \in Codes : Reply(rsp)) \/ Finish

Spec == Init /\ [][Next]_vars
=============================================================================
