--------------------------- MODULE SourceContract ---------------------------
(***************************************************************************)
(* A contract as its source describes it: the abstract specification that   *)
(* compiled code has to implement.  A program is compiled or never is; the  *)
(* contract is created by one message and answers others, each in one step, *)
(* and a message that ends with an error leaves nothing behind.             *)
(***************************************************************************)
EXTENDS Integers, Sequences

CONSTANTS InitialState(_),   \* the values of the state variables before anything runs
          Create(_, _, _),   \* a program executed for a message that creates the contract,
          Answered(_, _, _)  \* or calls it, from given values of the state variables

VARIABLES source,   \* the program with its annotations; empty until it is compiled
          live,     \* whether the contract has been created
          state,    \* the values of the state variables
          result    \* the last message, what came of it and how many there have been

vars == <<source, live, state, result>>

Init ==
    /\ source = << >> /\ live = FALSE /\ state = << >>
    /\ result = [message |-> "none", count |-> 0]

Compile == source = << >> /\ source' # << >> /\ state' = InitialState(source') /\ UNCHANGED <<live, result>>

Reply(s, m) ==
    /\ result' = [message |-> m, count |-> result.count + 1, end |-> IF s.end = "" THEN "return" ELSE s.end,
                  data |-> IF s.end = "" /\ live THEN s.value ELSE << >>,
                  logs |-> IF s.end = "" THEN s.logs ELSE << >>]
    /\ state' = IF s.end = "" THEN s.storage ELSE state
    /\ live' = (live \/ s.end = "")

Deploy ==
    /\ source # << >> /\ ~live /\ result'.count = result.count + 1
    /\ \E m \in {result'.message} : \E s \in {Create(source, m, state)} : Reply(s, m)
    /\ UNCHANGED source

Call ==
    /\ live /\ result'.count = result.count + 1
    /\ \E m \in {result'.message} : \E s \in {Answered(source, m, state)} : Reply(s, m)
    /\ UNCHANGED source

Next == Compile \/ Deploy \/ Call

Spec == Init /\ [][Next]_vars
=============================================================================
