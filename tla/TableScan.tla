------------------------------ MODULE TableScan ------------------------------
(***************************************************************************)
(* What a virtual table promises SQLite about one cursor.  A scan is       *)
(* started for a set of rows; it delivers rows of that set, each at most   *)
(* once, in any order, and ends when all of them have been delivered or    *)
(* when the server could not give them all.  SQLite may start a new scan   *)
(* or drop the cursor at any time.                                         *)
(***************************************************************************)
CONSTANT Row

VARIABLES
  state,   \* "idle", "scanning", "ended" or "failed"
  want,    \* the rows the current scan owes
  got      \* the rows it has delivered

vars == <<state, want, got>>

Init == state = "idle" /\ want = {} /\ got = {}

Begin == state' = "scanning" /\ want' \in SUBSET Row /\ got' = {}

Deliver == /\ state = "scanning"
           /\ \E row \in want \ got : got' = got \cup {row}
           /\ UNCHANGED <<state, want>>

End == /\ state = "scanning" /\ got = want
       /\ state' = "ended"
       /\ UNCHANGED <<want, got>>

Fail == /\ state = "scanning"
        /\ state' = "failed"
        /\ UNCHANGED <<want, got>>

Drop == state' = "idle" /\ want' = {} /\ got' = {}

Next == Begin \/ Deliver \/ End \/ Fail \/ Drop

Spec == Init /\ [][Next]_vars
=============================================================================
