--------------------------- MODULE CommandService ---------------------------
(***************************************************************************)
(* What a program that issues commands relies on: the server carries out   *)
(* or refuses each command once, in the order they were issued and with    *)
(* the arguments that were given, and each caller gets the answer to its   *)
(* own command, once.                                                      *)
(***************************************************************************)
EXTENDS Naturals, Sequences

CONSTANTS
  Requests,   \* the commands that may be issued
  Nothing     \* stands for a command that was refused before it was complete

VARIABLES
  asked,      \* the commands issued
  served,     \* for each of them in turn, what the server carried out and how it went
  answered    \* the answers that have come back, by the position of the command

vars == <<asked, served, answered>>

Init == asked = <<>> /\ served = <<>> /\ answered = <<>>

Ask == \E r \in Requests : asked' = Append(asked, r) /\ UNCHANGED <<served, answered>>

Serve ==
  /\ Len(served) < Len(asked)
  /\ \/ \E status \in {"OK", "NO"} :
          served' = Append(served, [did |-> asked[Len(served) + 1], status |-> status])
     \/ served' = Append(served, [did |-> Nothing, status |-> "NO"])
  /\ UNCHANGED <<asked, answered>>

Answer ==
  /\ \E i \in 1..Len(served) \ DOMAIN answered :
       answered' = [j \in DOMAIN answered \union {i} |->
                      IF j = i THEN served[i].status ELSE answered[j]]
  /\ UNCHANGED <<asked, served>>

Next == Ask \/ Serve \/ Answer

Spec     == Init /\ [][Next]_vars
FairSpec == Spec /\ WF_vars(Serve) /\ WF_vars(Answer)
=============================================================================
