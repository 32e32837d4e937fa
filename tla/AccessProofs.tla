---------------------------- MODULE AccessProofs -----------------------------
(***************************************************************************)
(* The theorems about the members of tenants, for any number of requests,  *)
(* tenants and users: who changes them, and how alone a tenant loses its   *)
(* last admin.                                                             *)
(***************************************************************************)
EXTENDS AccessHistory, FiniteSetTheorems, TLAPS

-----------------------------------------------------------------------------
(* Type correctness.                                                       *)

Provisioning == [pc : {"provision"}, user : Users]

Serving ==
    [pc : {"serve"}, user : Users, tenant : Tenants, role : Role \cup {"authenticated"}]

ChangeReq ==
    [pc : {"target", "count", "write"}, user : Users, tenant : Tenants, op : Op]

LEMMA RequestCases ==
    ASSUME TypeOK, NEW w \in Workers
    PROVE  /\ req[w] \in {Idle} \cup Provisioning \cup Serving \cup ChangeReq
           /\ req[w].pc = "idle" <=> req[w] = Idle
           /\ req[w].pc = "provision" <=> req[w] \in Provisioning
           /\ req[w].pc = "serve" <=> req[w] \in Serving
           /\ Changing(w) <=> req[w] \in ChangeReq
<1>1. req[w] \in {Idle} \cup Provisioning \cup Serving \cup ChangeReq
  BY DEF TypeOK, Req, Provisioning, Serving, ChangeReq
<1>2. QED
  BY <1>1 DEF Idle, Provisioning, Serving, ChangeReq, Changing

LEMMA ReqType ==
    ASSUME TypeOK, NEW w \in Workers,
           NEW s \in {Idle} \cup Provisioning \cup Serving \cup ChangeReq,
           req' = [req EXCEPT ![w] = s]
    PROVE  /\ req' \in [Workers -> {Idle} \cup Req]
           /\ req'[w] = s
           /\ \A v \in Workers \ {w} : req'[v] = req[v]
BY DEF TypeOK, Req, Provisioning, Serving, ChangeReq

LEMMA WriteType ==
    ASSUME TypeOK, NEW t \in Tenants, NEW u \in Users, NEW role \in Role \cup {"none"},
           Write(t, u, role)
    PROVE  /\ member' \in [Tenants -> [Users -> Role \cup {"none"}]]
           /\ member'[t][u] = role
           /\ \A s \in Tenants, v \in Users : s # t \/ v # u => member'[s][v] = member[s][v]
<1>1. member' = [member EXCEPT ![t] = [member[t] EXCEPT ![u] = role]]
  BY DEF Write
<1>2. member \in [Tenants -> [Users -> Role \cup {"none"}]]
  BY DEF TypeOK
<1>3. QED
  BY <1>1, <1>2

LEMMA TypeInit == Init => TypeOK
<1> SUFFICES ASSUME Init PROVE TypeOK
  OBVIOUS
<1>1. member \in [Tenants -> [Users -> Role \cup {"none"}]]
  <2>1. member \in [Tenants -> [Users -> {"admin", "none"}]]
    BY DEF Init
  <2>2. \A t \in Tenants : member[t] \in [Users -> Role \cup {"none"}]
    BY <2>1 DEF Role
  <2>3. QED
    BY <2>1, <2>2
<1>2. QED
  BY <1>1 DEF Init, TypeOK

LEMMA ServeType ==
    ASSUME TypeOK, NEW w \in Workers, NEW u \in Users, NEW t \in Tenants,
           NEW role \in Role \cup {"authenticated"}, Serve(w, u, t, role)
    PROVE  req' \in [Workers -> {Idle} \cup Req] /\ ~Changing(w)'
                /\ \A v \in Workers \ {w} : req'[v] = req[v]
<1> DEFINE s == [pc |-> "serve", user |-> u, tenant |-> t, role |-> role]
<1>1. s \in Serving /\ s.pc = "serve"
  BY DEF Serving
<1>2. req' = [req EXCEPT ![w] = s]
  BY DEF Serve
<1> HIDE DEF s
<1>3. QED
  BY <1>1, <1>2, ReqType DEF Changing

\* What a request does that is not yet changing members: it goes on, or ends,
\* and it makes nobody anything but an admin of the primary tenant.
Raised ==
    /\ member' \in [Tenants -> [Users -> Role \cup {"none"}]]
    /\ \A t \in Tenants, u \in Users : member'[t][u] = member[t][u] \/ Enrolled(t, u)

Prepares(w) ==
    /\ Raised
    /\ req' \in [Workers -> {Idle} \cup Req] /\ ~Changing(w)'
    /\ \A v \in Workers \ {w} : req'[v] = req[v]
    /\ UNCHANGED claim

LEMMA RaisedUnchanged == TypeOK /\ member' = member => Raised
BY DEF TypeOK, Raised

LEMMA RaisedWrite ==
    ASSUME TypeOK, NEW u \in Users, Write(Primary, u, "admin"),
           \/ member[Primary][u] = "none"
           \/ \E w \in Workers : req[w].pc = "provision" /\ req[w].user = u
    PROVE  Raised
<1>1. "admin" \in Role \cup {"none"} /\ Primary \in Tenants
  BY AccessAssumption DEF Role
<1>2. QED
  BY <1>1, WriteType DEF Raised, Enrolled

LEMMA FinishPrepares ==
    ASSUME TypeOK, NEW w \in Workers, Finish(w), UNCHANGED <<member, claim>>
    PROVE  Prepares(w)
<1>1. Idle.pc = "idle"
  BY DEF Idle
<1>2. QED
  BY <1>1, ReqType, RaisedUnchanged DEF Finish, Prepares, Changing

LEMMA MiddlewarePrepares ==
    ASSUME TypeOK, NEW w \in Workers, Middleware(w)
    PROVE  Prepares(w)
<1>1. ASSUME NEW u \in Users, ResolveByClaim(w, u) PROVE Prepares(w)
  <2>1. PICK role \in ClaimedRoles(u) : Serve(w, u, claim[u].tenant, role)
    BY <1>1 DEF ResolveByClaim
  <2>2. claim[u] \in Claims
    BY <1>1 DEF ResolveByClaim, TypeOK
  <2>3. claim[u].tenant \in Tenants /\ role \in Role \cup {"authenticated"}
    BY <2>2 DEF Claims, ClaimedRoles
  <2>4. QED
    BY <1>1, <2>1, <2>3, ServeType, RaisedUnchanged DEF Prepares, ResolveByClaim
<1>2. ASSUME NEW u \in Users, ResolveByMembership(w, u) PROVE Prepares(w)
  <2>1. CASE req' = [req EXCEPT ![w] = [pc |-> "provision", user |-> u]]
    <3>1. [pc |-> "provision", user |-> u] \in Provisioning
      BY DEF Provisioning
    <3>2. QED
      BY <1>2, <2>1, <3>1, ReqType, RaisedUnchanged DEF Prepares, ResolveByMembership, Changing
  <2>2. ASSUME NEW t \in Tenants, member[t][u] # "none", Serve(w, u, t, member[t][u])
        PROVE  Prepares(w)
    <3>1. member[t][u] \in Role \cup {"authenticated"}
      BY <2>2 DEF TypeOK
    <3>2. QED
      BY <1>2, <2>2, <3>1, ServeType, RaisedUnchanged DEF Prepares, ResolveByMembership
  <2>3. QED
    BY <1>2, <2>1, <2>2 DEF ResolveByMembership
<1>3. ASSUME NEW u \in Users, NEW t \in Tenants, ResolveByHeader(w, u, t) PROVE Prepares(w)
  <2>1. CASE req' = req
    BY <1>3, <2>1, RaisedUnchanged DEF Prepares, ResolveByHeader, IsIdle, Changing, Idle, TypeOK
  <2>2. CASE member[t][u] # "none" /\ Serve(w, u, t, member[t][u])
    <3>1. member[t][u] \in Role \cup {"authenticated"}
      BY <2>2 DEF TypeOK
    <3>2. QED
      BY <1>3, <2>2, <3>1, ServeType, RaisedUnchanged DEF Prepares, ResolveByHeader
  <2>3. QED
    BY <1>3, <2>1, <2>2 DEF ResolveByHeader
<1>4. ASSUME Provision(w) PROVE Prepares(w)
  <2>1. req[w].user \in Users
    BY <1>4, RequestCases DEF Provision, Provisioning
  <2>2. "admin" \in Role \cup {"authenticated"} /\ Primary \in Tenants
    BY AccessAssumption DEF Role
  <2>3. Raised
    BY <1>4, <2>1, RaisedWrite, RaisedUnchanged DEF Provision
  <2>4. QED
    BY <1>4, <2>1, <2>2, <2>3, ServeType DEF Prepares, Provision
<1>5. QED
  BY <1>1, <1>2, <1>3, <1>4 DEF Middleware

\* What the member service does until it writes.
Examines(w) ==
    /\ UNCHANGED <<member, claim>>
    /\ req' \in [Workers -> {Idle} \cup Req]
    /\ \A v \in Workers \ {w} : req'[v] = req[v]

LEMMA MoveExamines ==
    ASSUME TypeOK, NEW w \in Workers, Changing(w), NEW pc \in {"target", "count", "write"},
           GoTo(w, pc), UNCHANGED <<member, claim>>
    PROVE  /\ Examines(w) /\ req'[w].pc = pc /\ req'[w].user = req[w].user
           /\ req'[w].tenant = req[w].tenant /\ req'[w].op = req[w].op
<1> DEFINE s == [req[w] EXCEPT !.pc = pc]
<1>1. req[w] \in ChangeReq
  BY RequestCases
<1>2. /\ s \in ChangeReq /\ s.pc = pc /\ s.user = req[w].user
      /\ s.tenant = req[w].tenant /\ s.op = req[w].op
  BY <1>1 DEF ChangeReq
<1>3. req' = [req EXCEPT ![w] = s]
  BY DEF GoTo
<1> HIDE DEF s
<1>4. QED
  BY <1>2, <1>3, ReqType DEF Examines

LEMMA RequesterExamines ==
    ASSUME TypeOK, NEW w \in Workers, ReadRequester(w), ~Finish(w)
    PROVE  /\ Examines(w) /\ req'[w].pc \in {"write", "target"}
           /\ MayAdminister(w)
           /\ req'[w].user = req[w].user /\ req'[w].tenant = req[w].tenant
           /\ req'[w].pc = "write" => req'[w].op.kind = "add"
<1>1. PICK op \in Op :
        req' = [req EXCEPT ![w] =
                   [pc |-> IF op.kind = "add" THEN "write" ELSE "target",
                    user |-> req[w].user, tenant |-> req[w].tenant, op |-> op]]
  BY DEF ReadRequester
<1> DEFINE s == [pc |-> IF op.kind = "add" THEN "write" ELSE "target",
                 user |-> req[w].user, tenant |-> req[w].tenant, op |-> op]
<1>2. req[w] \in Serving
  BY RequestCases DEF ReadRequester
<1>3. s \in ChangeReq
  BY <1>2 DEF Serving, ChangeReq
<1>4. /\ s.pc \in {"write", "target"} /\ s.user = req[w].user /\ s.tenant = req[w].tenant
      /\ s.pc = "write" => s.op.kind = "add"
  OBVIOUS
<1> HIDE DEF s
<1>5. req' = [req EXCEPT ![w] = s]
  BY <1>1 DEF s
<1>6. QED
  BY <1>3, <1>4, <1>5, ReqType DEF Examines, ReadRequester

LEMMA ServiceType ==
    ASSUME TypeOK, NEW w \in Workers,
           ReadRequester(w) \/ ReadTarget(w) \/ CountAdmins(w) \/ CountFails(w)
    PROVE  Examines(w) \/ Prepares(w)
<1>1. CASE Finish(w)
  BY <1>1, FinishPrepares DEF ReadRequester, ReadTarget, CountAdmins, CountFails
<1>2. CASE ReadRequester(w) /\ ~Finish(w)
  BY <1>2, RequesterExamines
<1>3. CASE ReadTarget(w) \/ CountAdmins(w) \/ CountFails(w)
  <2>1. \/ Finish(w) \/ GoTo(w, "count") \/ GoTo(w, "write")
    BY <1>3 DEF ReadTarget, CountAdmins, CountFails
  <2>2. Changing(w) /\ UNCHANGED <<member, claim>>
    BY <1>3 DEF ReadTarget, CountAdmins, CountFails, Changing
  <2>3. QED
    BY <1>1, <2>1, <2>2, MoveExamines
<1>4. QED
  BY <1>1, <1>2, <1>3

\* A row is written, or none.
Writes(w, role) ==
    /\ member' \in [Tenants -> [Users -> Role \cup {"none"}]]
    /\ \A t \in Tenants, u \in Users :
          \/ member'[t][u] = member[t][u]
          \/ t = req[w].tenant /\ u = req[w].op.target /\ member'[t][u] = role

LEMMA WriteMemberWrites ==
    ASSUME TypeOK, NEW w \in Workers, WriteMember(w)
    PROVE  /\ req[w] \in ChangeReq /\ req[w].pc = "write"
           /\ Writes(w, IF req[w].op.kind = "remove" THEN "none" ELSE req[w].op.role)
           /\ req' \in [Workers -> {Idle} \cup Req] /\ req'[w] = Idle
           /\ \A v \in Workers \ {w} : req'[v] = req[v]
           /\ UNCHANGED claim
<1> DEFINE role == IF req[w].op.kind = "remove" THEN "none" ELSE req[w].op.role
<1>1. req[w] \in ChangeReq /\ req[w].pc = "write"
  BY RequestCases DEF WriteMember, Changing
<1>2. /\ req[w].tenant \in Tenants /\ req[w].op.target \in Users
      /\ role \in Role \cup {"none"}
  BY <1>1 DEF ChangeReq, Op
<1>3. member' = member \/ Write(req[w].tenant, req[w].op.target, role)
  BY DEF WriteMember
<1> HIDE DEF role
<1>4. Writes(w, role)
  BY <1>2, <1>3, WriteType DEF Writes, TypeOK
<1>5. QED
  BY <1>1, <1>4, ReqType DEF WriteMember, Finish, role

LEMMA OutsideRaises ==
    ASSUME TypeOK, NEW u \in Users, SignUp(u) \/ IssueToken(u)
    PROVE  Raised /\ req' = req /\ claim' \in [Users -> Claims \cup {NoClaims}]
<1>1. CASE SignUp(u)
  BY <1>1, RaisedWrite DEF SignUp, TypeOK
<1>2. CASE IssueToken(u)
  <2>1. PICK t \in Claimable \cup {NoTenant} :
          /\ t # NoTenant => member[t][u] # "none"
          /\ claim' = [claim EXCEPT ![u] =
                 IF t = NoTenant THEN NoClaims ELSE [tenant |-> t, role |-> member[t][u]]]
    BY <1>2 DEF IssueToken
  <2>2. t # NoTenant => [tenant |-> t, role |-> member[t][u]] \in Claims
    BY <2>1, AccessAssumption DEF Claims, TypeOK
  <2>3. claim' \in [Users -> Claims \cup {NoClaims}]
    BY <2>1, <2>2 DEF TypeOK
  <2>4. QED
    BY <1>2, <2>3, RaisedUnchanged DEF IssueToken
<1>3. QED
  BY <1>1, <1>2

\* Every step is one of these.
LEMMA StepCases ==
    ASSUME TypeOK, Works
    PROVE  \/ Raised /\ req' = req /\ claim' \in [Users -> Claims \cup {NoClaims}]
           \/ \E w \in Workers : Prepares(w)
           \/ \E w \in Workers :
                 /\ Examines(w)
                 /\ ReadRequester(w) \/ ReadTarget(w) \/ CountAdmins(w)
           \/ \E w \in Workers : WriteMember(w)
<1>1. ASSUME NEW w \in Workers, Abort(w) PROVE Prepares(w)
  BY <1>1, FinishPrepares DEF Abort
<1>2. QED
  BY <1>1, OutsideRaises, MiddlewarePrepares, ServiceType DEF Works, Service

LEMMA TypeStep == TypeOK /\ [Next]_vars => TypeOK'
<1> SUFFICES ASSUME TypeOK, [Next]_vars PROVE TypeOK'
  OBVIOUS
<1>1. ASSUME NEW w \in Workers, WriteMember(w) PROVE TypeOK'
  BY <1>1, WriteMemberWrites DEF TypeOK, Writes
<1>2. CASE UNCHANGED vars
  BY <1>2 DEF vars, TypeOK
<1>3. ASSUME NEW w \in Workers, CountFails(w) PROVE TypeOK'
  BY <1>3, ServiceType DEF TypeOK, Raised, Prepares, Examines
<1>4. CASE Works
  BY <1>1, <1>4, StepCases DEF TypeOK, Raised, Prepares, Examines
<1>5. QED
  BY <1>2, <1>3, <1>4 DEF Next

\* Memberships, tokens and the progress of requests stay within their types.
THEOREM TypeCorrect == Spec => []TypeOK
BY TypeInit, TypeStep, PTL DEF Spec

-----------------------------------------------------------------------------
(* The invariant.                                                          *)

\* The request takes the role of an admin, if its target is one.
Demotes(w) ==
    req[w].op.kind = "remove" \/ (req[w].op.kind = "update" /\ req[w].op.role # "admin")

OtherAdmin(w) == \E v \in Users \ {req[w].op.target} : member[req[w].tenant][v] = "admin"

\* Who changes members is an admin still, and another than the target is an
\* admin before the target is demoted: as long as no admin of the tenant has
\* lost the role since, and the admins were counted.
Entitled(w) ==
    Changing(w) /\ w \notin overtaken =>
        /\ Requester(w) = "admin"
        /\ req[w].pc = "write" /\ Demotes(w) /\ w \notin uncounted => OtherAdmin(w)

AccessInv == HistoryTypeOK /\ \A w \in Workers : Entitled(w)

\* What is on record of a request that goes on.
Recorded(w) ==
    Changing(w)' =>
        /\ Changing(w) /\ (w \in overtaken \/ LosesAdmin(req[w].tenant)) => w \in overtaken'
        /\ w \in uncounted => w \in uncounted'

LEMMA RecordedAll ==
    ASSUME NEW failing \in SUBSET Workers, Record(failing)
    PROVE  /\ \A w \in Workers : Recorded(w)
           /\ \A w \in failing : Changing(w)' => w \in uncounted'
           /\ overtaken' \subseteq Workers /\ uncounted' \subseteq Workers
BY DEF Record, Recorded

\* A request that another's step leaves alone.
LEMMA EntitledKept ==
    ASSUME AccessInv, NEW w \in Workers, req'[w] = req[w], Recorded(w)
    PROVE  Entitled(w)'
<1>1. Entitled(w) /\ TypeOK
  BY DEF AccessInv, HistoryTypeOK
<1>2. SUFFICES ASSUME Changing(w)', w \notin overtaken'
               PROVE  /\ Requester(w)' = "admin"
                      /\ req'[w].pc = "write" /\ Demotes(w)' /\ w \notin uncounted' =>
                             OtherAdmin(w)'
  BY DEF Entitled
<1>3. Changing(w) /\ w \notin overtaken /\ ~LosesAdmin(req[w].tenant)
  BY <1>2 DEF Changing, Recorded
<1>4. req[w] \in ChangeReq
  BY <1>1, <1>3, RequestCases
<1>5. \A u \in Users : member[req[w].tenant][u] = "admin" => member'[req[w].tenant][u] = "admin"
  BY <1>3 DEF LosesAdmin
<1>6. Requester(w)' = "admin"
  <2>1. req[w].user \in Users /\ member[req[w].tenant][req[w].user] = "admin"
    BY <1>1, <1>3, <1>4 DEF ChangeReq, Entitled, Requester
  <2>2. QED
    BY <1>5, <2>1 DEF Requester
<1>7. ASSUME req'[w].pc = "write", Demotes(w)', w \notin uncounted'
      PROVE  OtherAdmin(w)'
  <2>1. req[w].pc = "write" /\ Demotes(w) /\ w \notin uncounted
    BY <1>2, <1>7 DEF Demotes, Recorded
  <2>2. OtherAdmin(w)
    BY <1>1, <1>3, <2>1 DEF Entitled
  <2>3. QED
    BY <1>5, <2>2 DEF OtherAdmin
<1>8. QED
  BY <1>6, <1>7

\* More than one is an admin: another than the target.
LEMMA AnotherCounted ==
    ASSUME TypeOK, NEW w \in Workers, ~(Cardinality(Admins(req[w].tenant)) <= 1)
    PROVE  OtherAdmin(w)
<1> SUFFICES ASSUME ~OtherAdmin(w) PROVE FALSE
  OBVIOUS
<1>1. PICK A : A = Admins(req[w].tenant)
  OBVIOUS
<1>2. A \subseteq {req[w].op.target}
  BY <1>1 DEF Admins, OtherAdmin
<1>3. A = {} \/ A = {req[w].op.target}
  BY <1>2
<1>4. Cardinality({}) = 0
  BY FS_EmptySet
<1>5. Cardinality({req[w].op.target}) = 1
  BY FS_Singleton
<1>6. Cardinality(A) = 0 \/ Cardinality(A) = 1
  BY <1>3, <1>4, <1>5
<1>7. QED
  BY <1>1, <1>6

\* A request that is examined is entitled to what it goes on to.
LEMMA EntitledExamines ==
    ASSUME AccessInv, NEW w \in Workers, Examines(w), Recorded(w),
           \/ ReadRequester(w) \/ ReadTarget(w) \/ CountAdmins(w)
           \/ CountFails(w) /\ (Changing(w)' => w \in uncounted')
    PROVE  Entitled(w)'
<1>1. TypeOK /\ UNCHANGED <<member, claim>> /\ Entitled(w)
  BY DEF AccessInv, HistoryTypeOK, Examines
<1>2. CASE Finish(w)
  <2>1. req'[w] = Idle
    BY <1>1, <1>2, ReqType DEF Finish
  <2>2. QED
    BY <2>1 DEF Entitled, Changing, Idle
<1>3. CASE ReadRequester(w) /\ ~Finish(w)
  <2>1. /\ MayAdminister(w)
        /\ req'[w].user = req[w].user /\ req'[w].tenant = req[w].tenant
        /\ req'[w].pc = "write" => req'[w].op.kind = "add"
    BY <1>1, <1>3, RequesterExamines
  <2>2. QED
    BY <1>1, <2>1 DEF Entitled, MayAdminister, Requester, Demotes
<1>4. ASSUME NEW pc \in {"target", "count", "write"}, Changing(w), GoTo(w, pc),
             \/ pc # "write" \/ w \in uncounted' \/ OtherAdmin(w)
             \/ ~Demotes(w)
             \/ w \notin overtaken /\ Target(w) # "admin"
      PROVE  Entitled(w)'
  <2>1. /\ req'[w].pc = pc /\ req'[w].user = req[w].user
        /\ req'[w].tenant = req[w].tenant /\ req'[w].op = req[w].op
    BY <1>1, <1>4, MoveExamines
  <2>2. SUFFICES ASSUME w \notin overtaken'
                 PROVE  /\ Requester(w)' = "admin"
                        /\ pc = "write" /\ Demotes(w)' /\ w \notin uncounted' => OtherAdmin(w)'
    BY <2>1 DEF Entitled
  <2>3. w \notin overtaken
    BY <1>4, <2>1, <2>2 DEF Recorded, Changing
  <2>4. Requester(w) = "admin" /\ req[w].user \in Users
    BY <1>1, <1>4, <2>3, RequestCases DEF Entitled, ChangeReq
  <2>5. Target(w) # "admin" => OtherAdmin(w)
    BY <2>4 DEF OtherAdmin, Target, Requester
  <2>6. ASSUME pc = "write", Demotes(w)', w \notin uncounted' PROVE OtherAdmin(w)'
    <3>1. Demotes(w)
      BY <2>1, <2>6 DEF Demotes
    <3>2. OtherAdmin(w)
      BY <1>4, <2>5, <2>6, <3>1
    <3>3. QED
      BY <1>1, <2>1, <3>2 DEF OtherAdmin
  <2>7. QED
    BY <1>1, <2>1, <2>4, <2>6 DEF Requester
<1>5. CASE ReadTarget(w) /\ ~Finish(w)
  <2>1. PICK pc \in {"count", "write"} : GoTo(w, pc) /\ (pc = "write" => ~TakesAdmin(w))
    BY <1>5 DEF ReadTarget
  <2>2. Changing(w) /\ req[w] \in ChangeReq
    BY <1>1, <1>5, RequestCases DEF ReadTarget, Changing
  <2>3. CASE w \notin overtaken
    <3>1. ~TakesAdmin(w) => ~Demotes(w) \/ Target(w) # "admin"
      BY DEF TakesAdmin, Demotes
    <3>2. QED
      BY <1>4, <2>1, <2>2, <2>3, <3>1
  <2>4. CASE w \in overtaken
    <3>1. Changing(w)' => w \in overtaken'
      BY <2>2, <2>4 DEF Recorded
    <3>2. QED
      BY <3>1 DEF Entitled
  <2>5. QED
    BY <2>3, <2>4
<1>6. CASE CountAdmins(w) /\ ~Finish(w)
  <2>1. GoTo(w, "write") /\ ~(Cardinality(Admins(req[w].tenant)) <= 1) /\ Changing(w)
    BY <1>6 DEF CountAdmins, Changing
  <2>2. OtherAdmin(w)
    BY <1>1, <2>1, AnotherCounted
  <2>3. QED
    BY <1>4, <2>1, <2>2
<1>7. CASE CountFails(w) /\ (Changing(w)' => w \in uncounted')
  <2>1. GoTo(w, "write") /\ Changing(w)
    BY <1>7 DEF CountFails, Changing
  <2>2. Changing(w)'
    <3>1. req'[w].pc = "write"
      BY <1>1, <2>1, MoveExamines
    <3>2. QED
      BY <3>1 DEF Changing
  <2>3. QED
    BY <1>4, <1>7, <2>1, <2>2
<1>8. QED
  BY <1>2, <1>3, <1>5, <1>6, <1>7

LEMMA AccessInit == HistoryInit => AccessInv
<1> SUFFICES ASSUME HistoryInit PROVE AccessInv
  OBVIOUS
<1>1. \A w \in Workers : req[w].pc = "idle"
  BY DEF HistoryInit, Init, Idle
<1>2. TypeOK
  BY TypeInit DEF HistoryInit
<1>3. QED
  BY <1>1, <1>2 DEF AccessInv, HistoryTypeOK, HistoryInit, Changing, Entitled

LEMMA HistoryStep == [HistoryNext]_historyVars => [Next]_vars
BY DEF HistoryNext, historyVars, Next

LEMMA EntitledStep ==
    ASSUME AccessInv, Works, \A w \in Workers : Recorded(w)
    PROVE  \A v \in Workers : Entitled(v)'
<1> SUFFICES ASSUME NEW v \in Workers PROVE Entitled(v)'
  OBVIOUS
<1>1. TypeOK
  BY DEF AccessInv, HistoryTypeOK
<1>2. CASE req'[v] = req[v]
  BY <1>2, EntitledKept
<1>3. CASE ~Changing(v)'
  BY <1>3 DEF Entitled
<1>4. ASSUME NEW w \in Workers, Prepares(w) PROVE Entitled(v)'
  BY <1>2, <1>3, <1>4 DEF Prepares
<1>5. ASSUME NEW w \in Workers, Examines(w), ReadRequester(w) \/ ReadTarget(w) \/ CountAdmins(w)
      PROVE  Entitled(v)'
  BY <1>2, <1>5, EntitledExamines DEF Examines
<1>6. ASSUME NEW w \in Workers, WriteMember(w) PROVE Entitled(v)'
  <2>1. CASE v = w
    BY <1>1, <1>3, <1>6, <2>1, WriteMemberWrites DEF Changing, Idle
  <2>2. CASE v # w
    BY <1>1, <1>2, <1>6, <2>2, WriteMemberWrites
  <2>3. QED
    BY <2>1, <2>2
<1>7. QED
  BY <1>1, <1>2, <1>4, <1>5, <1>6, StepCases

LEMMA AccessStep == AccessInv /\ [HistoryNext]_historyVars => AccessInv'
<1> SUFFICES ASSUME AccessInv, [HistoryNext]_historyVars PROVE AccessInv'
  OBVIOUS
<1>1. TypeOK /\ TypeOK'
  BY TypeStep, HistoryStep DEF AccessInv, HistoryTypeOK
<1>2. CASE UNCHANGED historyVars
  BY <1>1, <1>2 DEF historyVars, vars, AccessInv, HistoryTypeOK, Entitled, Changing, Requester,
                    Demotes, OtherAdmin
<1>3. CASE Works /\ Record({})
  <2>1. /\ \A w \in Workers : Recorded(w)
        /\ overtaken' \subseteq Workers /\ uncounted' \subseteq Workers
    BY <1>3, RecordedAll
  <2>2. QED
    BY <1>1, <1>3, <2>1, EntitledStep DEF AccessInv, HistoryTypeOK
<1>4. ASSUME NEW w \in Workers, CountFails(w), Record({w}) PROVE AccessInv'
  <2>1. /\ \A v \in Workers : Recorded(v)
        /\ Changing(w)' => w \in uncounted'
        /\ overtaken' \subseteq Workers /\ uncounted' \subseteq Workers
    <3>1. {w} \in SUBSET Workers
      OBVIOUS
    <3>2. PICK S \in SUBSET Workers : S = {w}
      BY <3>1
    <3>3. QED
      BY <1>4, <3>2, RecordedAll
  <2>2. Examines(w)
    BY <1>1, <1>4, MoveExamines DEF CountFails, Changing
  <2>3. ASSUME NEW v \in Workers PROVE Entitled(v)'
    <3>1. CASE v = w
      BY <1>4, <2>1, <2>2, <3>1, EntitledExamines
    <3>2. CASE v # w
      BY <2>1, <2>2, <3>2, EntitledKept DEF Examines
    <3>3. QED
      BY <3>1, <3>2
  <2>4. QED
    BY <1>1, <2>1, <2>3 DEF AccessInv, HistoryTypeOK
<1>5. QED
  BY <1>2, <1>3, <1>4 DEF HistoryNext

\* The record neither adds behaviours to the program nor takes any away: what
\* is on record is a step of it.
THEOREM HistoryIsAccess == HistorySpec => Spec
<1>1. HistoryInit => Init
  BY DEF HistoryInit
<1>2. QED
  BY <1>1, HistoryStep, PTL DEF HistorySpec, Spec

\* How the members of a tenant may change in a step.
LEMMA MemberSteps ==
    ASSUME TypeOK, [Next]_vars
    PROVE  Raised \/ \E w \in Workers : WriteMember(w)
<1>1. member' = member => Raised
  BY RaisedUnchanged
<1>2. ASSUME NEW w \in Workers, CountFails(w) PROVE Raised
  BY <1>1, <1>2 DEF CountFails
<1>3. CASE UNCHANGED vars
  BY <1>1, <1>3 DEF vars
<1>4. CASE Works
  BY <1>1, <1>4, StepCases DEF Prepares, Examines
<1>5. QED
  BY <1>2, <1>3, <1>4 DEF Next

-----------------------------------------------------------------------------
(* Who changes the members.                                                *)

\* For any number of requests, tenants and users: a member's role is written
\* while whoever asked for it is an admin of the tenant, unless an admin of
\* it has lost the role since the request was let through; or someone becomes
\* an admin of the primary tenant by signing up or by the middleware.
THEOREM OnlyAdminsChange == HistorySpec => ChangedByAdmins
<1>1. ASSUME AccessInv, NEW w \in Workers, WriteMember(w) PROVE ChangedByAdmin
  <2>1. TypeOK /\ Entitled(w) /\ req[w].pc = "write"
    BY <1>1 DEF AccessInv, HistoryTypeOK, WriteMember
  <2>2. Requester(w) = "admin" \/ w \in overtaken
    BY <2>1 DEF Entitled, Changing
  <2>3. \A t \in Tenants, u \in Users :
            member'[t][u] = member[t][u] \/ (t = req[w].tenant /\ u = req[w].op.target)
    BY <1>1, <2>1, WriteMemberWrites DEF Writes
  <2>4. QED
    BY <2>1, <2>2, <2>3 DEF ChangedByAdmin, Writing
<1>2. ASSUME AccessInv, [HistoryNext]_historyVars PROVE [ChangedByAdmin]_historyVars
  <2>1. TypeOK /\ [Next]_vars
    BY <1>2, HistoryStep DEF AccessInv, HistoryTypeOK
  <2>2. CASE Raised
    BY <2>2 DEF Raised, Enrolled, ChangedByAdmin
  <2>3. QED
    BY <1>1, <1>2, <2>1, <2>2, MemberSteps
<1>3. QED
  BY <1>2, AccessInit, AccessStep, PTL DEF HistorySpec, ChangedByAdmins

-----------------------------------------------------------------------------
(* The last admin.                                                         *)

\* A request that is entitled, counted and adds nobody to himself leaves an
\* admin: whoever asked, or another than the one demoted.
LEMMA WriteLeavesAdmin ==
    ASSUME AccessInv, NEW w \in Workers, WriteMember(w),
           w \notin overtaken, w \notin uncounted, ~AddsHimself(w)
    PROVE  \E v \in Users : member'[req[w].tenant][v] = "admin"
<1> DEFINE role == IF req[w].op.kind = "remove" THEN "none" ELSE req[w].op.role
           t == req[w].tenant
<1>1. TypeOK /\ Entitled(w) /\ req[w].pc = "write" /\ req[w] \in ChangeReq
  BY WriteMemberWrites DEF AccessInv, HistoryTypeOK
<1>2. t \in Tenants /\ req[w].user \in Users /\ req[w].op \in Op
  BY <1>1 DEF ChangeReq
<1>3. member[t][req[w].user] = "admin" /\ (Demotes(w) => OtherAdmin(w))
  BY <1>1 DEF Entitled, Changing, Requester
<1>4. \A u \in Users : \/ member'[t][u] = member[t][u]
                       \/ u = req[w].op.target /\ member'[t][u] = role
  BY <1>1, <1>2, WriteMemberWrites DEF Writes
<1>5. CASE Demotes(w)
  BY <1>3, <1>4, <1>5 DEF OtherAdmin
<1>6. CASE ~Demotes(w) /\ req[w].op.target # req[w].user
  BY <1>2, <1>3, <1>4, <1>6
<1>7. CASE ~Demotes(w) /\ req[w].op.target = req[w].user
  <2>1. req[w].op.kind = "update" /\ req[w].op.role = "admin"
    BY <1>2, <1>7 DEF Demotes, AddsHimself, Op
  <2>2. role = "admin"
    BY <2>1
  <2>3. QED
    BY <1>2, <1>3, <1>4, <2>2
<1>8. QED
  BY <1>5, <1>6, <1>7

\* For any number of requests, tenants and users: a step that leaves a tenant
\* without an admin is one of a request that was overtaken by the loss of
\* another admin, that could not count the admins, or by which an admin adds
\* himself with a lower role.
THEOREM AdminAlwaysRemains == HistorySpec => AdminRemains
<1>1. ASSUME AccessInv, NEW w \in Workers, WriteMember(w) PROVE LastAdminGiven
  <2>1. \A t \in Tenants \ {req[w].tenant}, u \in Users : member'[t][u] = member[t][u]
    BY <1>1, WriteMemberWrites DEF AccessInv, HistoryTypeOK, Writes
  <2>2. req[w].pc = "write"
    BY <1>1 DEF WriteMember
  <2>3. \/ w \in overtaken \cup uncounted \/ AddsHimself(w)
        \/ \E v \in Users : member'[req[w].tenant][v] = "admin"
    BY <1>1, WriteLeavesAdmin
  <2>4. QED
    BY <2>1, <2>2, <2>3 DEF LastAdminGiven, Admins, Writing
<1>2. ASSUME AccessInv, [HistoryNext]_historyVars PROVE [LastAdminGiven]_historyVars
  <2>1. TypeOK /\ [Next]_vars
    BY <1>2, HistoryStep DEF AccessInv, HistoryTypeOK
  <2>2. CASE Raised
    BY <2>2 DEF Raised, Enrolled, LastAdminGiven, Admins
  <2>3. QED
    BY <1>1, <1>2, <2>1, <2>2, MemberSteps
<1>3. QED
  BY <1>2, AccessInit, AccessStep, PTL DEF HistorySpec, AdminRemains

=============================================================================
