------------------------------- MODULE Access -------------------------------
(***************************************************************************)
(* Which tenant a request acts in, what it may see and what it may change  *)
(* there: the dependencies of core/deps.py, db/tenant_helpers.py, and the  *)
(* handlers that read or write rows of one tenant.                         *)
(*                                                                         *)
(* A world holds the tenants, by their slugs, the rows of all of them, the *)
(* audit trail and the process's cache of the default tenant.  A request   *)
(* is of a user, with or without the header X-Atlas-Tenant; `slug' is the  *)
(* one in its path, `id' the row it names, and `value' its body.           *)
(***************************************************************************)
EXTENDS Sequences, Naturals

CONSTANTS
  Slugs,     \* the well-formed slugs
  Pilot,     \* settings.pilot_tenant_slug
  Legacy,    \* the slug `default' of before migration 0007
  Absent     \* no header, no tenant, nothing cached

ASSUME SlugsAssumption == /\ Pilot \in Slugs /\ Legacy \in Slugs
                          /\ Absent \notin Slugs

Bound     == {"tenant-admin", "supervisor", "student"}   \* roles with a tenant
Managers  == {"tenant-admin", "super-admin"}
Analysts  == Managers \cup {"supervisor"}
Statuses  == {"active", "read-only", "archived"}
IsSuper(u) == u.role = "super-admin"

-----------------------------------------------------------------------------
(* Responses *)

Refuse(w, code)  == [code |-> code, seen |-> {}, world |-> w]
Grant(w, rows)   == [code |-> 200, seen |-> rows, world |-> w]

\* A single row that is not there is a 404.
Show(w, rows) == IF rows = {} THEN Refuse(w, 404) ELSE Grant(w, rows)

Rows(w, kind, t) == {x \in w.rows : x.kind = kind /\ x.tenant = t}
Entry(r, t) == [op |-> r.op, actor |-> r.user.id, tenant |-> t]
Audited(w, r, t) == [w EXCEPT !.trail = Append(@, Entry(r, t))]

Removed(w, rows) == [w EXCEPT !.rows = @ \ rows]
Added(w, kind, r, t) ==
  [w EXCEPT !.rows = @ \cup {[kind |-> kind, id |-> r.id, tenant |-> t,
                              owner |-> r.user.id, active |-> TRUE]}]

-----------------------------------------------------------------------------
(* The tenant of a request *)

\* The tenant of a super-admin's request without a header; found once per process.
DefaultTenant(w) ==
  IF w.cached # Absent THEN w.cached
  ELSE IF Pilot \in DOMAIN w.tenants THEN Pilot
  ELSE IF Legacy \in DOMAIN w.tenants THEN Legacy ELSE Absent

UsesDefault(r) == IsSuper(r.user) /\ r.header = Absent

Found(t)  == [code |-> 200, tenant |-> t]
Denied(c) == [code |-> c, tenant |-> Absent]

\* Defect: the header is taken from whoever sends it.
ContextByHeader(w, r) ==
  CASE r.header \in DOMAIN w.tenants -> Found(r.header)
    [] r.header = Absent /\ ~IsSuper(r.user) -> Found(r.user.tenant)
    [] UsesDefault(r) /\ DefaultTenant(w) # Absent -> Found(DefaultTenant(w))
    [] OTHER -> Denied(404)

Context(w, r) ==
  LET u == r.user
      d == DefaultTenant(w)
  IN  CASE UsesDefault(r) -> IF d = Absent THEN Denied(500) ELSE Found(d)
        [] r.header # Absent /\ r.header \notin DOMAIN w.tenants -> Denied(404)
        [] IsSuper(u) /\ r.header \in DOMAIN w.tenants -> Found(r.header)
        [] ~IsSuper(u) /\ r.header \in DOMAIN w.tenants /\ r.header # u.tenant -> Denied(403)
        [] ~IsSuper(u) /\ r.header \in {Absent, u.tenant} ->
             IF u.tenant = Absent THEN Denied(500) ELSE Found(u.tenant)

Warmed(w, r) == IF UsesDefault(r) THEN [w EXCEPT !.cached = DefaultTenant(w)] ELSE w

Writable(w, t, u) == IsSuper(u) \/ w.tenants[t].status = "active"

ForRoles(w, r, roles, answer) == IF r.user.role \in roles THEN answer ELSE Refuse(w, 403)

\* Handlers that act in the tenant of the header or of the user.
InContext(w, r, writes, Do(_, _)) ==
  LET c == Context(w, r)
      v == Warmed(w, r)
  IN  IF c.code # 200 THEN Refuse(v, c.code)
      ELSE IF writes /\ ~Writable(w, c.tenant, r.user) THEN Refuse(v, 423)
      ELSE Do(v, c.tenant)

\* Handlers that act in the tenant of their path.
InPath(w, r, writes, Do(_)) ==
  IF r.slug \notin DOMAIN w.tenants THEN Refuse(w, 404)
  ELSE IF ~IsSuper(r.user) /\ r.user.tenant # r.slug THEN Refuse(w, 403)
  ELSE IF writes /\ ~Writable(w, r.slug, r.user) THEN Refuse(w, 423)
  ELSE Do(r.slug)

-----------------------------------------------------------------------------
(* Documents, jobs, invites, feedback *)

GetJob(w, r) ==
  ForRoles(w, r, Managers, InContext(w, r, FALSE,
    LAMBDA v, t : Show(v, {x \in Rows(v, "job", t) : x.id = r.id})))

ListDocuments(w, r) ==
  ForRoles(w, r, Managers, InContext(w, r, FALSE,
    LAMBDA v, t : Grant(v, Rows(v, "document", t))))

DeleteDocument(w, r) ==
  ForRoles(w, r, Managers, InContext(w, r, TRUE,
    LAMBDA v, t : LET doc == {x \in Rows(v, "document", t) : x.id = r.id}
                  IN  IF doc = {} THEN Refuse(v, 404)
                      ELSE Grant(Audited(Removed(v, doc), r, t), {})))

IssueInvite(w, r) ==
  ForRoles(w, r, Managers,
    IF r.value \notin Bound THEN Refuse(w, 422)
    ELSE InContext(w, r, TRUE,
           LAMBDA v, t : Grant(Audited(Added(v, "invite", r, t), r, t), {})))

ListInvites(w, r) ==
  ForRoles(w, r, Managers, InContext(w, r, FALSE,
    LAMBDA v, t : Grant(v, Rows(v, "invite", t))))

Feedback(w, r) ==
  IF r.value \notin {"positive", "negative"} THEN Refuse(w, 422)
  ELSE InContext(w, r, TRUE, LAMBDA v, t : Grant(Added(v, "feedback", r, t), {}))

-----------------------------------------------------------------------------
(* What a user has: the chats, the topics of the program *)

Own(w, r, t) == {x \in Rows(w, "chat", t) : x.owner = r.user.id}

ListChats(w, r) ==
  InContext(w, r, FALSE, LAMBDA v, t : Grant(v, Own(v, r, t)))

GetChat(w, r) ==
  InContext(w, r, FALSE, LAMBDA v, t : Show(v, {x \in Own(v, r, t) : x.id = r.id}))

\* Unlike the other writes it is not stopped in a tenant that is not active.
DeleteChat(w, r) ==
  InContext(w, r, FALSE,
    LAMBDA v, t : LET chat == {x \in Own(v, r, t) : x.id = r.id}
                  IN  IF chat = {} THEN Refuse(v, 404) ELSE Grant(Removed(v, chat), {}))

MyProgram(w, r) ==
  InContext(w, r, FALSE,
    LAMBDA v, t : Grant(v, {x \in Rows(v, "program", t) : x.active}))

-----------------------------------------------------------------------------
(* Tenants and what is managed by their slug *)

TenantRow(s) == [kind |-> "tenant", id |-> s, tenant |-> s, owner |-> Absent, active |-> TRUE]

CreateTenant(w, r) ==
  ForRoles(w, r, {"super-admin"},
    IF r.slug \notin Slugs THEN Refuse(w, 422)
    ELSE IF r.slug \in DOMAIN w.tenants THEN Refuse(w, 409)
    ELSE Grant(Audited([w EXCEPT !.tenants =
                          [s \in DOMAIN w.tenants \cup {r.slug} |->
                             IF s = r.slug THEN [status |-> "active", gate |-> Absent]
                             ELSE w.tenants[s]]], r, r.slug),
               {TenantRow(r.slug)}))

ListTenants(w, r) ==
  ForRoles(w, r, {"super-admin"}, Grant(w, {TenantRow(s) : s \in DOMAIN w.tenants}))

UpdateStatus(w, r) ==
  ForRoles(w, r, {"super-admin"},
    IF r.value \notin Statuses THEN Refuse(w, 422)
    ELSE IF r.slug \notin DOMAIN w.tenants THEN Refuse(w, 404)
    ELSE IF w.tenants[r.slug].status = r.value THEN Grant(w, {TenantRow(r.slug)})
    ELSE Grant(Audited([w EXCEPT !.tenants[r.slug].status = r.value], r, r.slug),
               {TenantRow(r.slug)}))

GetGate(w, r) ==
  ForRoles(w, r, {"super-admin"},
    IF r.slug \in DOMAIN w.tenants THEN Grant(w, {TenantRow(r.slug)}) ELSE Refuse(w, 404))

SetGate(w, r) ==
  ForRoles(w, r, {"super-admin"},
    IF r.slug \in DOMAIN w.tenants
    THEN Grant(Audited([w EXCEPT !.tenants[r.slug].gate = r.value], r, r.slug),
               {TenantRow(r.slug)})
    ELSE Refuse(w, 404))

GetProgram(w, r) ==
  ForRoles(w, r, Managers, InPath(w, r, FALSE,
    LAMBDA t : Grant(w, {x \in Rows(w, "program", t) : x.active})))

CoverageReport(w, r) ==
  ForRoles(w, r, Managers, InPath(w, r, FALSE,
    LAMBDA t : Show(w, {x \in Rows(w, "program", t) : x.active})))

GetMaterialTopics(w, r) ==
  ForRoles(w, r, Managers, InPath(w, r, FALSE,
    LAMBDA t : Show(w, {x \in Rows(w, "document", t) : x.id = r.id})))

\* Defect: an UPDATE that forgets its WHERE.
ComputeEveryQuality(w, r) ==
  ForRoles(w, r, Managers, InPath(w, r, TRUE,
    LAMBDA t : LET doc == {x \in Rows(w, "document", t) : x.id = r.id}
               IN  IF doc = {} THEN Refuse(w, 404)
                   ELSE Grant(Audited([w EXCEPT !.quality = [d \in DOMAIN @ |-> r.value]], r, t),
                              doc)))

\* The score, `value', of a document is stored with the row.
ComputeQuality(w, r) ==
  ForRoles(w, r, Managers, InPath(w, r, TRUE,
    LAMBDA t : LET doc == {x \in Rows(w, "document", t) : x.id = r.id}
               IN  IF doc = {} THEN Refuse(w, 404)
                   ELSE Grant(Audited([w EXCEPT !.quality =
                                         [d \in DOMAIN @ |-> IF \E x \in doc : x.id = d
                                                             THEN r.value ELSE @[d]]], r, t),
                              doc)))

Students(w, r) ==
  ForRoles(w, r, Analysts, InPath(w, r, FALSE,
    LAMBDA t : Grant(w, Rows(w, "student", t))))

InTheContext == {"GetJob", "ListDocuments", "DeleteDocument", "IssueInvite", "ListInvites",
                 "Feedback", "ListChats", "GetChat", "DeleteChat", "MyProgram"}
Platform == {"CreateTenant", "ListTenants", "UpdateStatus", "GetGate", "SetGate"}
InThePath == {"GetProgram", "CoverageReport", "GetMaterialTopics", "ComputeQuality", "Students"}

Handle(w, r) ==
  CASE r.op = "GetJob"         -> GetJob(w, r)
    [] r.op = "ListDocuments"  -> ListDocuments(w, r)
    [] r.op = "DeleteDocument" -> DeleteDocument(w, r)
    [] r.op = "IssueInvite"    -> IssueInvite(w, r)
    [] r.op = "ListInvites"    -> ListInvites(w, r)
    [] r.op = "Feedback"       -> Feedback(w, r)
    [] r.op = "ListChats"      -> ListChats(w, r)
    [] r.op = "GetChat"        -> GetChat(w, r)
    [] r.op = "DeleteChat"     -> DeleteChat(w, r)
    [] r.op = "MyProgram"      -> MyProgram(w, r)
    [] r.op = "CreateTenant"   -> CreateTenant(w, r)
    [] r.op = "ListTenants"    -> ListTenants(w, r)
    [] r.op = "UpdateStatus"   -> UpdateStatus(w, r)
    [] r.op = "GetGate"        -> GetGate(w, r)
    [] r.op = "SetGate"        -> SetGate(w, r)
    [] r.op = "GetProgram"     -> GetProgram(w, r)
    [] r.op = "CoverageReport" -> CoverageReport(w, r)
    [] r.op = "GetMaterialTopics" -> GetMaterialTopics(w, r)
    [] r.op = "ComputeQuality" -> ComputeQuality(w, r)
    [] r.op = "Students"       -> Students(w, r)

-----------------------------------------------------------------------------
(* What the handlers keep *)

Touched(w, a) == (w.rows \ a.world.rows) \cup (a.world.rows \ w.rows)

\* Users of a tenant meet rows of that tenant only, whatever header or path they
\* send; a super-admin's header is heeded.
Isolated(w, r, a) ==
  \A x \in a.seen \cup Touched(w, a) :
    /\ ~IsSuper(r.user) => x.tenant = r.user.tenant
    /\ r.op \in InTheContext /\ r.header # Absent => x.tenant = r.header
    /\ r.op \in InThePath => x.tenant = r.slug

\* Chats are seen and removed by those who have them; students, besides, see the
\* program of the day.
Personal(w, r, a) ==
  /\ \A x \in a.seen \cup (w.rows \ a.world.rows) : x.kind = "chat" => x.owner = r.user.id
  /\ r.user.role = "student" =>
       \A x \in a.seen : x.kind = "chat" \/ (x.kind = "program" /\ x.active)

\* Nothing is written in a tenant that is not active but by a super-admin; a user
\* may still delete a chat.
Locked(w, r, a) ==
  ~IsSuper(r.user) =>
    /\ a.world.tenants = w.tenants
    /\ \A x \in Touched(w, a) :
         w.tenants[x.tenant].status = "active" \/ (x.kind = "chat" /\ x \notin a.world.rows)

\* What administrators change is on the trail: one entry, of the one who did it and
\* the tenant it was done in.
Trailed(w, r, a) ==
  \/ /\ a.world.trail = w.trail
     /\ a.world.tenants = w.tenants /\ a.world.quality = w.quality
     /\ \A x \in Touched(w, a) : x.kind \in {"chat", "feedback"}
  \/ \E t \in DOMAIN a.world.tenants :
       /\ a.world.trail = Append(w.trail, Entry(r, t))
       /\ r.user.role \in Managers
       /\ \A x \in Touched(w, a) : x.tenant = t
       /\ \A s \in DOMAIN w.tenants \ {t} : a.world.tenants[s] = w.tenants[s]

\* A refused request changes nothing; the cache, once filled, stays.
Harmless(w, r, a) ==
  /\ a.code # 200 => a.seen = {} /\ a.world = [w EXCEPT !.cached = a.world.cached]
  /\ w.cached # Absent => a.world.cached = w.cached
  /\ DOMAIN w.tenants \subseteq DOMAIN a.world.tenants

AccessKept(w, r, a) ==
  Isolated(w, r, a) /\ Personal(w, r, a) /\ Locked(w, r, a) /\ Trailed(w, r, a) /\ Harmless(w, r, a)

=============================================================================
