---------------------------- MODULE AccessHistory ----------------------------
(***************************************************************************)
(* Access with a record of the requests whose checks no longer say what    *)
(* the members are: an admin of the tenant has lost the role since the     *)
(* request was let through, or the admins could not be counted.  Nothing   *)
(* in the program keeps these two sets.                                    *)
(***************************************************************************)
EXTENDS Access

VARIABLES
    overtaken,  \* requests during which their tenant has lost an admin
    uncounted   \* requests whose count of the admins has failed

historyVars == <<vars, overtaken, uncounted>>

-----------------------------------------------------------------------------
LosesAdmin(t) == \E u \in Users : member[t][u] = "admin" /\ member'[t][u] # "admin"

\* A request is on record until it ends.
Record(failing) ==
    /\ overtaken' = {w \in Workers :
           Changing(w)' /\ (w \in overtaken \/ (Changing(w) /\ LosesAdmin(req[w].tenant)))}
    /\ uncounted' = {w \in Workers : Changing(w)' /\ w \in uncounted \cup failing}

HistoryInit == Init /\ overtaken = {} /\ uncounted = {}

HistoryNext ==
    \/ Works /\ Record({})
    \/ \E w \in Workers : CountFails(w) /\ Record({w})

HistorySpec == HistoryInit /\ [][HistoryNext]_historyVars

-----------------------------------------------------------------------------
HistoryTypeOK == TypeOK /\ overtaken \subseteq Workers /\ uncounted \subseteq Workers

Writing(w, t) == req[w].pc = "write" /\ req[w].tenant = t

\* An admin who adds himself once more, with a lower role: the upsert of
\* AddMember does not count.
AddsHimself(w) == req[w].op.kind = "add" /\ req[w].op.target = req[w].user

LastAdminGiven ==
    \A t \in Tenants :
        Admins(t) # {} /\ Admins(t)' = {} =>
            \E w \in Workers : Writing(w, t) /\ (w \in overtaken \cup uncounted \/ AddsHimself(w))

\* A tenant with an admin keeps one, however often admins demote, remove and
\* add each other and themselves, unless one of three things happens: two
\* of them overtake each other, the members cannot be read to be counted, or
\* an admin is added anew with a lower role by himself.
AdminRemains == [][LastAdminGiven]_historyVars

\* New in the primary tenant, or provisioned there by the middleware, which
\* also raises one who is a member already and could not be looked up.
Enrolled(t, u) ==
    /\ t = Primary /\ member'[t][u] = "admin"
    /\ \/ member[t][u] = "none"
       \/ \E w \in Workers : req[w].pc = "provision" /\ req[w].user = u

ChangedByAdmin ==
    \A t \in Tenants, u \in Users : member[t][u] # member'[t][u] =>
        \/ Enrolled(t, u)
        \/ \E w \in Workers : /\ Writing(w, t) /\ req[w].op.target = u
                              /\ Requester(w) = "admin" \/ w \in overtaken

\* Members change by the hand of one who is an admin of the tenant at that
\* moment, whatever role the token still gives, or who was one when let
\* through and has lost the role to a request that overtook his.
ChangedByAdmins == [][ChangedByAdmin]_historyVars

=============================================================================
