------------------------------- MODULE Access -------------------------------
(***************************************************************************)
(* The way of a request through the auth middleware to the member service: *)
(* with its token verified (module ApiProcess), its tenant and role are    *)
(* resolved, and if it asks for that the members of the tenant change.     *)
(* Between any two statements other requests run; each is a step.          *)
(*                                                                         *)
(* A user has one token at a time, issued with the claims of a membership  *)
(* of that moment or with none.  Which of several memberships is oldest is *)
(* left open: created_at comes from clocks of two machines.                *)
(***************************************************************************)
EXTENDS Integers, FiniteSets

CONSTANTS
    Workers,    \* requests that can be in progress at once
    Tenants,
    Primary,    \* the tenant GetFirstTenant returns
    Users,
    Roles,      \* roles besides "admin": muhasebeci and standart
    Claimable,  \* bound: the tenants whose memberships tokens carry
    NoTenant

ASSUME AccessAssumption ==
    Primary \in Tenants /\ Claimable \subseteq Tenants /\ NoTenant \notin Tenants

VARIABLES
    member,     \* tenant_members: the role of each user in each tenant, or "none"
    claim,      \* the tenant and role in each user's token
    req         \* what each request is doing

vars == <<member, claim, req>>

-----------------------------------------------------------------------------
Role == Roles \cup {"admin"}

Claims == [tenant : Tenants, role : Role]

NoClaims == [tenant |-> NoTenant, role |-> "none"]

\* What extractJWTClaim returns for the role: the identity provider may put one
\* of its own, "authenticated", at the top level, where it is found first.
ClaimedRoles(u) == {claim[u].role, "authenticated"}

Op == [kind : {"add", "update"}, target : Users, role : Role]
      \cup [kind : {"remove"}, target : Users]

Idle == [pc |-> "idle"]

\* A request begins with the statement that resolves its tenant; what it
\* asks for is looked at by the service.
Req ==
    [pc : {"provision"}, user : Users]
    \cup [pc : {"serve"}, user : Users, tenant : Tenants, role : Role \cup {"authenticated"}]
    \cup [pc : {"target", "count", "write"}, user : Users, tenant : Tenants, op : Op]

TypeOK ==
    /\ member \in [Tenants -> [Users -> Role \cup {"none"}]]
    /\ claim \in [Users -> Claims \cup {NoClaims}]
    /\ req \in [Workers -> {Idle} \cup Req]

\* Every tenant is set up with an admin, or with no member yet.
Init ==
    /\ member \in {m \in [Tenants -> [Users -> {"admin", "none"}]] :
                       \A t \in Tenants : Cardinality({u \in Users : m[t][u] = "admin"}) <= 1}
    /\ claim = [u \in Users |-> NoClaims]
    /\ req = [w \in Workers |-> Idle]

IsIdle(w) == req[w] = Idle

Finish(w) == req' = [req EXCEPT ![w] = Idle]

GoTo(w, pc) == req' = [req EXCEPT ![w].pc = pc]

\* A row of tenant_members is written.
Write(t, u, role) == member' = [member EXCEPT ![t][u] = role]

-----------------------------------------------------------------------------
(* The identity provider and its database triggers.                        *)

\* handle_new_user: ON CONFLICT DO NOTHING.
SignUp(u) ==
    /\ member[Primary][u] = "none"
    /\ Write(Primary, u, "admin")
    /\ UNCHANGED <<claim, req>>

\* A token is issued or renewed, with the claims of custom_access_token_hook
\* or, where the hook is not installed, without.
IssueToken(u) ==
    /\ \E t \in Claimable \cup {NoTenant} :
        /\ t # NoTenant => member[t][u] # "none"
        /\ claim' = [claim EXCEPT ![u] =
               IF t = NoTenant THEN NoClaims ELSE [tenant |-> t, role |-> member[t][u]]]
    /\ UNCHANGED <<member, req>>

-----------------------------------------------------------------------------
(* AuthMiddleware.                                                         *)

Serve(w, u, t, role) ==
    req' = [req EXCEPT ![w] = [pc |-> "serve", user |-> u, tenant |-> t, role |-> role]]

\* The header names the tenant of the claims, or there is no header.
ResolveByClaim(w, u) ==
    /\ IsIdle(w)
    /\ claim[u] # NoClaims
    /\ \E role \in ClaimedRoles(u) : Serve(w, u, claim[u].tenant, role)
    /\ UNCHANGED <<member, claim>>

\* The header names another tenant, of which the user must be a member.
ResolveByHeader(w, u, t) ==
    /\ IsIdle(w)
    /\ t # claim[u].tenant
    /\ IF member[t][u] = "none" THEN UNCHANGED req ELSE Serve(w, u, t, member[t][u])
    /\ UNCHANGED <<member, claim>>

\* Neither header nor claims: a membership.  A query that fails counts as
\* "none", so the user of any membership may go on to be provisioned.
ResolveByMembership(w, u) ==
    /\ IsIdle(w)
    /\ claim[u] = NoClaims
    /\ \/ req' = [req EXCEPT ![w] = [pc |-> "provision", user |-> u]]
       \/ \E t \in {s \in Tenants : member[s][u] # "none"} : Serve(w, u, t, member[t][u])
    /\ UNCHANGED <<member, claim>>

\* AddMember to the first tenant, an upsert that makes an admin of whoever is
\* a member there already; its error is ignored.
Provision(w) ==
    /\ req[w].pc = "provision"
    /\ Write(Primary, req[w].user, "admin") \/ UNCHANGED member
    /\ Serve(w, req[w].user, Primary, "admin")
    /\ UNCHANGED claim

-----------------------------------------------------------------------------
(* The member service, behind RequireRole(admin).                          *)

Requester(w) == member[req[w].tenant][req[w].user]

Target(w) == member[req[w].tenant][req[w].op.target]

Admins(t) == {u \in Users : member[t][u] = "admin"}

\* Mutant of MayAdminister: the role the request came with is enough.
AdminByToken(w) == req[w].role = "admin"

\* RequireRole(admin), and then a requester whose row says so still.
MayAdminister(w) == req[w].role = "admin" /\ Requester(w) = "admin"

\* What else a request may want ends here.
ReadRequester(w) ==
    /\ req[w].pc = "serve"
    /\ \/ Finish(w)
       \/ /\ MayAdminister(w)
          /\ \E op \in Op :
                 req' = [req EXCEPT ![w] =
                     [pc |-> IF op.kind = "add" THEN "write" ELSE "target",
                      user |-> req[w].user, tenant |-> req[w].tenant, op |-> op]]
    /\ UNCHANGED <<member, claim>>

\* Mutant of TakesAdmin: only removals are counted.
RemovesAdmin(w) == Target(w) = "admin" /\ req[w].op.kind = "remove"

\* Whether UpdateMemberRole or RemoveMember would leave one admin fewer.
TakesAdmin(w) ==
    Target(w) = "admin" /\ (req[w].op.kind = "remove" \/ req[w].op.role # "admin")

ReadTarget(w) ==
    /\ req[w].pc = "target"
    /\ IF Target(w) = "none" THEN Finish(w)
       ELSE GoTo(w, IF TakesAdmin(w) THEN "count" ELSE "write")
    /\ UNCHANGED <<member, claim>>

CountAdmins(w) ==
    /\ req[w].pc = "count"
    /\ IF Cardinality(Admins(req[w].tenant)) <= 1 THEN Finish(w) ELSE GoTo(w, "write")
    /\ UNCHANGED <<member, claim>>

\* The members cannot be read: "if err == nil" skips the check.
CountFails(w) ==
    /\ req[w].pc = "count"
    /\ GoTo(w, "write")
    /\ UNCHANGED <<member, claim>>

\* AddMember writes over the role of a member; UPDATE and DELETE do nothing
\* for a user who is a member no more.
WriteMember(w) ==
    /\ req[w].pc = "write"
    /\ LET r == req[w]
       IN  IF r.op.kind # "add" /\ Target(w) = "none" THEN UNCHANGED member
           ELSE Write(r.tenant, r.op.target,
                      IF r.op.kind = "remove" THEN "none" ELSE r.op.role)
    /\ Finish(w)
    /\ UNCHANGED claim

\* A statement fails and its error is returned, or the server stops.
Abort(w) ==
    /\ ~IsIdle(w)
    /\ Finish(w)
    /\ UNCHANGED <<member, claim>>

Middleware(w) ==
    \/ \E u \in Users : \/ ResolveByClaim(w, u) \/ ResolveByMembership(w, u)
                         \/ \E t \in Tenants : ResolveByHeader(w, u, t)
    \/ Provision(w)

Service(w) == ReadRequester(w) \/ ReadTarget(w) \/ CountAdmins(w) \/ WriteMember(w)

\* What happens while the admins can be counted.
Works ==
    \/ \E u \in Users : SignUp(u) \/ IssueToken(u)
    \/ \E w \in Workers :
        \/ Middleware(w) \/ Service(w) \/ Abort(w)

Next == Works \/ \E w \in Workers : CountFails(w)

Spec == Init /\ [][Next]_vars

\* A request that has been let through to change members.
Changing(w) == req[w].pc \in {"target", "count", "write"}

=============================================================================
