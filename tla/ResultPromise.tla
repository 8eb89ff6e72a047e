---------------------------- MODULE ResultPromise ----------------------------
(* What the transfer of results promises the renderer, whatever is cut into   *)
(* pieces, mixed or lost on the way: a result is handed over as it was made,  *)
(* once, or it is lost, and one given up for lost does not turn up later.     *)
EXTENDS Naturals, Sequences

CONSTANT Results

VARIABLES made,    \* result -> "nothing" yet, an "image" or a "failure"
          queue,   \* what was handed over, oldest first
          lost     \* results that will not be handed over

vars == <<made, queue, lost>>

HandedOver(r) == \E i \in 1..Len(queue) : queue[i].of = r

UnderWay == {r \in Results : made[r] # "nothing" /\ r \notin lost /\ ~HandedOver(r)}

Init ==
    /\ made = [r \in Results |-> "nothing"]
    /\ queue = << >>
    /\ lost = {}

Make(r) ==
    /\ made[r] = "nothing"
    /\ \E k \in {"image", "failure"} : made' = [made EXCEPT ![r] = k]
    /\ UNCHANGED <<queue, lost>>

HandOver(r) ==
    /\ r \in UnderWay
    /\ queue' = Append(queue, [of |-> r, is |-> made[r]])
    /\ UNCHANGED <<made, lost>>

\* A connection takes all with it that is under way on it.
Lose(R) ==
    /\ lost' = lost \cup R
    /\ UNCHANGED <<made, queue>>

Next == \/ \E r \in Results : Make(r) \/ HandOver(r)
        \/ \E R \in SUBSET UnderWay : Lose(R)

Spec == Init /\ [][Next]_vars
=============================================================================
