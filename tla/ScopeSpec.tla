------------------------------ MODULE ScopeSpec ------------------------------
(***************************************************************************)
(* What dereference scopes promise the collector, whatever counts them.    *)
(* A thread in a scope belongs to one of two classes.  The collector makes *)
(* the other class the expected one and waits; when the wait has ended     *)
(* nobody is left in the old class.  The promise is void once a thread has *)
(* joined a class late, that is, after the collector turned away from it.  *)
(***************************************************************************)
EXTENDS Naturals

CONSTANT Threads

VARIABLES
  expected,  \* the class new scopes are to join
  scope,     \* [Threads -> class of the scope the thread is in, or "Out"]
  waiting,   \* the collector waits for the old class to empty
  late       \* history: some thread has joined the class not expected

vars == <<expected, scope, waiting, late>>

Class == {"V0", "V1"}
other(s) == IF s = "V0" THEN "V1" ELSE "V0"
OldClass == {t \in Threads : scope[t] = other(expected)}

Init ==
  /\ expected \in Class
  /\ scope = [t \in Threads |-> "Out"]
  /\ waiting = FALSE
  /\ late = FALSE

Enter(t) ==
  /\ scope[t] = "Out"
  /\ \E s \in Class :
       /\ scope' = [scope EXCEPT ![t] = s]
       /\ late' = (late \/ s # expected)
  /\ UNCHANGED <<expected, waiting>>

Exit(t) ==
  /\ scope[t] # "Out"
  /\ scope' = [scope EXCEPT ![t] = "Out"]
  /\ UNCHANGED <<expected, waiting, late>>

Flip ==
  /\ ~waiting
  /\ expected' = other(expected)
  /\ waiting' = TRUE
  /\ UNCHANGED <<scope, late>>

EndWait ==
  /\ waiting
  /\ ~late => OldClass = {}
  /\ waiting' = FALSE
  /\ UNCHANGED <<expected, scope, late>>

Next == Flip \/ EndWait \/ \E t \in Threads : Enter(t) \/ Exit(t)

Spec == Init /\ [][Next]_vars
=============================================================================
