----------------------------- MODULE Conversation -----------------------------
(***************************************************************************)
(* What a chat promises, with no session, stream or transaction in sight.  *)
(* A turn is a question and perhaps its answer.  An answer is only stored  *)
(* beside its question, the client hears "done" only of an answer that was *)
(* stored, and a question taken back stays unanswered for good.            *)
(***************************************************************************)
CONSTANT Turns

VARIABLES
  turn,  \* what is stored of the turn
  done   \* turns whose client was told that the answer is complete

vars == <<turn, done>>

\* "erased" is a turn that went with its session, after an answer or before one.
Stages == {"unasked", "asked", "answered", "withdrawn", "erased", "erasedAnswer"}

TypeOK ==
  /\ turn \in [Turns -> Stages]
  /\ done \subseteq Turns

Init ==
  /\ turn = [t \in Turns |-> "unasked"]
  /\ done = {}

Move(t, from, to) ==
  /\ turn[t] = from
  /\ turn' = [turn EXCEPT ![t] = to]
  /\ done' = done

Ask(t)      == Move(t, "unasked", "asked")
Answer(t)   == Move(t, "asked", "answered")
Withdraw(t) == Move(t, "asked", "withdrawn")

\* A session is deleted with all its turns at once.
Erase(S) ==
  /\ turn' = [t \in Turns |->
                IF t \in S /\ turn[t] \in {"asked", "answered"}
                THEN [asked |-> "erased", answered |-> "erasedAnswer"][turn[t]]
                ELSE turn[t]]
  /\ done' = done

TellDone(t) ==
  /\ turn[t] \in {"answered", "erasedAnswer"}
  /\ done' = done \cup {t}
  /\ turn' = turn

Next ==
  \/ \E t \in Turns : Ask(t) \/ Answer(t) \/ Withdraw(t) \/ TellDone(t)
  \/ \E S \in SUBSET Turns : Erase(S)

Spec == Init /\ [][Next]_vars
===============================================================================
