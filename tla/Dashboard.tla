----------------------------- MODULE Dashboard -----------------------------
(***************************************************************************)
(* The dashboard as one tab: the navigation of app/layout.tsx mounts one   *)
(* page and unmounts the other.  Requests of a page that was left go on.   *)
(***************************************************************************)
EXTENDS ChatPage, ProposalsPage

CONSTANT MaxVisits   \* bound: pages mounted

VARIABLE visits

vars == <<chatVars, listVars, visits>>

Init == /\ visits = 0
        /\ ChatInit /\ ListInit

OpenChat ==
    /\ ~Mounted /\ visits < MaxVisits
    /\ visits' = visits + 1
    /\ chat' = [Unmounted EXCEPT !.visit = visits + 1]
    /\ UnmountList
    /\ UNCHANGED <<requests, table, moves>>

OpenProposals ==
    /\ list.visit = 0 /\ visits < MaxVisits /\ Len(fetches) < MaxFetches
    /\ visits' = visits + 1
    /\ chat' = Unmounted
    /\ MountList(visits + 1)
    /\ UNCHANGED <<requests, table, moves>>

Next == \/ OpenChat \/ OpenProposals
        \/ ChatStep /\ UNCHANGED <<listVars, visits>>
        \/ ListStep /\ UNCHANGED <<chatVars, visits>>

Spec == Init /\ [][Next]_vars
=============================================================================
