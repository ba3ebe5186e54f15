---------------------------- MODULE AccessProofs ----------------------------
(***************************************************************************)
(* Whose a request is, and what it may do: every handler keeps to its      *)
(* tenant in any world (Access), the worlds that the service comes to are  *)
(* such worlds and their trails account for them (Service), no token       *)
(* outlives a revocation (Sessions), and an invite makes the users that it *)
(* may, for any number of codes, redeems and emails (Invites).             *)
(***************************************************************************)
EXTENDS Service, Sessions, Invites, TLAPS

\* What the handlers rely on: rows, and the cached tenant, are of tenants that exist.
Coherent(w) ==
  /\ w = [tenants |-> w.tenants, cached |-> w.cached, rows |-> w.rows,
          trail |-> w.trail, quality |-> w.quality]
  /\ DOMAIN w.tenants \subseteq Slugs
  /\ w.tenants = [t \in DOMAIN w.tenants |-> w.tenants[t]]
  /\ w.cached \in DOMAIN w.tenants \cup {Absent}
  /\ \A x \in w.rows : x.tenant \in DOMAIN w.tenants

\* A request of a user whose tenant exists, to one of the handlers.
RequestOK(w, r) ==
  /\ r.user.role \in Bound \cup {"super-admin"}
  /\ r.user.tenant \in DOMAIN w.tenants \cup {Absent}
  /\ r.op \in InTheContext \cup InThePath \cup Platform

-----------------------------------------------------------------------------
\* A refusal keeps everything.
LEMMA Refusals ==
  ASSUME NEW w, NEW r, Coherent(w), NEW c, c # 200, NEW v \in {w, Warmed(w, r)}
  PROVE  AccessKept(w, r, Refuse(v, c))
<1> DEFINE a == Refuse(v, c)
<1>1. /\ v.rows = w.rows /\ v.tenants = w.tenants /\ v.trail = w.trail
      /\ v.quality = w.quality /\ v = [w EXCEPT !.cached = v.cached]
      /\ w.cached # Absent => v.cached = w.cached
  BY DEF Coherent, Warmed, DefaultTenant
<1>2. a.seen = {} /\ a.world = v /\ a.code = c
  BY DEF Refuse
<1>3. Touched(w, a) = {}
  BY <1>1, <1>2 DEF Touched
<1> QED
  BY <1>1, <1>2, <1>3 DEF AccessKept, Isolated, Personal, Locked, Trailed, Harmless

\* So does an answer that only shows rows, of the right tenant and to the right user.
LEMMA Readings ==
  ASSUME NEW w, NEW r, Coherent(w), NEW v \in {w, Warmed(w, r)}, NEW rows,
         Isolated(w, r, Grant(w, rows)), Personal(w, r, Grant(w, rows))
  PROVE  AccessKept(w, r, Grant(v, rows))
<1> DEFINE a == Grant(v, rows)
<1>1. /\ v.rows = w.rows /\ v.tenants = w.tenants /\ v.trail = w.trail
      /\ v.quality = w.quality
      /\ w.cached # Absent => v.cached = w.cached
  BY DEF Coherent, Warmed, DefaultTenant
<1>2. a.seen = rows /\ a.world = v /\ a.code = 200
  BY DEF Grant
<1>3. Touched(w, a) = {} /\ Touched(w, Grant(w, rows)) = {} /\ Grant(w, rows).seen = rows
      /\ Grant(w, rows).world = w
  BY <1>1, <1>2 DEF Touched, Grant
<1>4. Isolated(w, r, a) /\ Personal(w, r, a)
  BY <1>1, <1>2, <1>3 DEF Isolated, Personal
<1> QED
  BY <1>1, <1>2, <1>3, <1>4 DEF AccessKept, Locked, Trailed, Harmless

\* The tenant of a request: the user's own, or the one of the header.
LEMMA ContextFacts ==
  ASSUME NEW w, NEW r, Coherent(w), RequestOK(w, r), Context(w, r).code = 200
  PROVE  /\ Context(w, r).tenant \in DOMAIN w.tenants
         /\ ~IsSuper(r.user) => Context(w, r).tenant = r.user.tenant
         /\ r.header # Absent => Context(w, r).tenant = r.header
<1> DEFINE u == r.user
           d == DefaultTenant(w)
<1>1. Absent \notin DOMAIN w.tenants
  BY SlugsAssumption DEF Coherent
<1>2. d \in DOMAIN w.tenants \cup {Absent}
  BY DEF Coherent, DefaultTenant
<1>3. CASE UsesDefault(r)
  BY <1>2, <1>3 DEF Context, Found, Denied, UsesDefault
<1>4. CASE ~UsesDefault(r) /\ r.header # Absent /\ r.header \notin DOMAIN w.tenants
  <2>1. Context(w, r) = Denied(404)
    BY <1>4 DEF RequestOK, Context
  <2> QED BY <2>1 DEF Denied
<1>5. CASE r.header \in DOMAIN w.tenants /\ IsSuper(u)
  <2>1. Context(w, r) = Found(r.header)
    BY <1>5, <1>1 DEF Context, UsesDefault
  <2> QED BY <1>5, <2>1 DEF Found
<1>6. CASE r.header \in DOMAIN w.tenants /\ ~IsSuper(u) /\ r.header # u.tenant
  <2>1. Context(w, r) = Denied(403)
    BY <1>6, <1>1 DEF Context, UsesDefault
  <2> QED BY <2>1 DEF Denied
<1>7. CASE ~IsSuper(u) /\ r.header \in {Absent, u.tenant}
           /\ (r.header = Absent \/ r.header \in DOMAIN w.tenants)
  <2>1. Context(w, r) = IF u.tenant = Absent THEN Denied(500) ELSE Found(u.tenant)
    BY <1>7, <1>1 DEF Context, UsesDefault
  <2> QED BY <1>7, <2>1 DEF Denied, Found, RequestOK
<1> QED
  BY <1>3, <1>4, <1>5, <1>6, <1>7 DEF UsesDefault

-----------------------------------------------------------------------------
(* Reading in the tenant of the request *)

\* What a handler may show of the tenant it acts in.
LEMMA ContextRows ==
  ASSUME NEW w, NEW r, Coherent(w), RequestOK(w, r), Context(w, r).code = 200,
         r.op \in InTheContext,
         NEW rows \in SUBSET {x \in w.rows : x.tenant = Context(w, r).tenant},
         \A x \in rows : x.kind = "chat" => x.owner = r.user.id,
         \/ r.user.role \in Managers
         \/ \A x \in rows : x.kind = "chat" \/ (x.kind = "program" /\ x.active)
  PROVE  AccessKept(w, r, Grant(Warmed(w, r), rows))
<1>1. Isolated(w, r, Grant(w, rows))
  BY ContextFacts DEF Isolated, Grant, Touched, InTheContext, InThePath
<1>2. Personal(w, r, Grant(w, rows))
  BY DEF Personal, Grant, Managers
<1> QED
  BY <1>1, <1>2, Readings

\* The rows of a tenant are found in the warmed world as in the other.
LEMMA WarmedRows ==
  ASSUME NEW w, NEW r, Coherent(w)
  PROVE  /\ Warmed(w, r).rows = w.rows /\ Warmed(w, r).tenants = w.tenants
         /\ Warmed(w, r).trail = w.trail /\ Warmed(w, r).quality = w.quality
         /\ w.cached # Absent => Warmed(w, r).cached = w.cached
         /\ Warmed(w, r) = [w EXCEPT !.cached = Warmed(w, r).cached]
  BY DEF Coherent, Warmed, DefaultTenant

LEMMA GetJobKeeps ==
  ASSUME NEW w, NEW r, Coherent(w), RequestOK(w, r), r.op = "GetJob"
  PROVE  AccessKept(w, r, GetJob(w, r))
<1> DEFINE c == Context(w, r)
           v == Warmed(w, r)
<1>1. CASE r.user.role \notin Managers
  BY <1>1, Refusals DEF GetJob, ForRoles
<1>2. CASE r.user.role \in Managers /\ c.code # 200
  <2>1. GetJob(w, r) = Refuse(v, c.code)
    BY <1>2 DEF GetJob, ForRoles, InContext
  <2> QED BY <1>2, <2>1, Refusals
<1>3. CASE r.user.role \in Managers /\ c.code = 200
  <2>1. GetJob(w, r) = Show(v, {x \in Rows(v, "job", c.tenant) : x.id = r.id})
    BY <1>3 DEF GetJob, ForRoles, InContext
  <2> QED BY <1>3, <2>1, ContextRows, WarmedRows, Refusals DEF Show, Rows, Managers, InTheContext
<1> QED
  BY <1>1, <1>2, <1>3

LEMMA ListDocumentsKeeps ==
  ASSUME NEW w, NEW r, Coherent(w), RequestOK(w, r), r.op = "ListDocuments"
  PROVE  AccessKept(w, r, ListDocuments(w, r))
<1> DEFINE c == Context(w, r)
           v == Warmed(w, r)
<1>1. CASE r.user.role \notin Managers
  BY <1>1, Refusals DEF ListDocuments, ForRoles
<1>2. CASE r.user.role \in Managers /\ c.code # 200
  <2>1. ListDocuments(w, r) = Refuse(v, c.code)
    BY <1>2 DEF ListDocuments, ForRoles, InContext
  <2> QED BY <1>2, <2>1, Refusals
<1>3. CASE r.user.role \in Managers /\ c.code = 200
  <2>1. ListDocuments(w, r) = Grant(v, Rows(v, "document", c.tenant))
    BY <1>3 DEF ListDocuments, ForRoles, InContext
  <2> QED BY <1>3, <2>1, ContextRows, WarmedRows, Refusals DEF Rows, Managers, InTheContext
<1> QED
  BY <1>1, <1>2, <1>3

LEMMA ListInvitesKeeps ==
  ASSUME NEW w, NEW r, Coherent(w), RequestOK(w, r), r.op = "ListInvites"
  PROVE  AccessKept(w, r, ListInvites(w, r))
<1> DEFINE c == Context(w, r)
           v == Warmed(w, r)
<1>1. CASE r.user.role \notin Managers
  BY <1>1, Refusals DEF ListInvites, ForRoles
<1>2. CASE r.user.role \in Managers /\ c.code # 200
  <2>1. ListInvites(w, r) = Refuse(v, c.code)
    BY <1>2 DEF ListInvites, ForRoles, InContext
  <2> QED BY <1>2, <2>1, Refusals
<1>3. CASE r.user.role \in Managers /\ c.code = 200
  <2>1. ListInvites(w, r) = Grant(v, Rows(v, "invite", c.tenant))
    BY <1>3 DEF ListInvites, ForRoles, InContext
  <2> QED BY <1>3, <2>1, ContextRows, WarmedRows, Refusals DEF Rows, Managers, InTheContext
<1> QED
  BY <1>1, <1>2, <1>3

LEMMA ListChatsKeeps ==
  ASSUME NEW w, NEW r, Coherent(w), RequestOK(w, r), r.op = "ListChats"
  PROVE  AccessKept(w, r, ListChats(w, r))
<1> DEFINE c == Context(w, r)
           v == Warmed(w, r)
<1>1. CASE c.code # 200
  <2>1. ListChats(w, r) = Refuse(v, c.code)
    BY <1>1 DEF ListChats, InContext
  <2> QED BY <1>1, <2>1, Refusals
<1>2. CASE c.code = 200
  <2>1. ListChats(w, r) = Grant(v, Own(v, r, c.tenant))
    BY <1>2 DEF ListChats, InContext
  <2> QED BY <1>2, <2>1, ContextRows, WarmedRows, Refusals DEF Own, Rows, InTheContext
<1> QED
  BY <1>1, <1>2

LEMMA GetChatKeeps ==
  ASSUME NEW w, NEW r, Coherent(w), RequestOK(w, r), r.op = "GetChat"
  PROVE  AccessKept(w, r, GetChat(w, r))
<1> DEFINE c == Context(w, r)
           v == Warmed(w, r)
<1>1. CASE c.code # 200
  <2>1. GetChat(w, r) = Refuse(v, c.code)
    BY <1>1 DEF GetChat, InContext
  <2> QED BY <1>1, <2>1, Refusals
<1>2. CASE c.code = 200
  <2>1. GetChat(w, r) = Show(v, {x \in Own(v, r, c.tenant) : x.id = r.id})
    BY <1>2 DEF GetChat, InContext
  <2> QED BY <1>2, <2>1, ContextRows, WarmedRows, Refusals DEF Show, Own, Rows, InTheContext
<1> QED
  BY <1>1, <1>2

LEMMA MyProgramKeeps ==
  ASSUME NEW w, NEW r, Coherent(w), RequestOK(w, r), r.op = "MyProgram"
  PROVE  AccessKept(w, r, MyProgram(w, r))
<1> DEFINE c == Context(w, r)
           v == Warmed(w, r)
<1>1. CASE c.code # 200
  <2>1. MyProgram(w, r) = Refuse(v, c.code)
    BY <1>1 DEF MyProgram, InContext
  <2> QED BY <1>1, <2>1, Refusals
<1>2. CASE c.code = 200
  <2>1. MyProgram(w, r) = Grant(v, {x \in Rows(v, "program", c.tenant) : x.active})
    BY <1>2 DEF MyProgram, InContext
  <2> QED BY <1>2, <2>1, ContextRows, WarmedRows, Refusals DEF Rows, InTheContext
<1> QED
  BY <1>1, <1>2

-----------------------------------------------------------------------------
(* Reading by the slug of the path, and by the platform's administrator *)

LEMMA GetProgramKeeps ==
  ASSUME NEW w, NEW r, Coherent(w), RequestOK(w, r), r.op = "GetProgram"
  PROVE  AccessKept(w, r, GetProgram(w, r))
<1> DEFINE rows == {x \in Rows(w, "program", r.slug) : x.active}
           may  == r.user.role \in Managers /\ r.slug \in DOMAIN w.tenants
                   /\ (IsSuper(r.user) \/ r.user.tenant = r.slug)
<1>1. CASE ~may
  <2>1. \E c \in {403, 404} : GetProgram(w, r) = Refuse(w, c)
    BY <1>1 DEF GetProgram, ForRoles, InPath
  <2> QED BY <2>1, Refusals
<1>2. CASE may
  <2>1. GetProgram(w, r) = Grant(w, rows)
    BY <1>2 DEF GetProgram, ForRoles, InPath
  <2>2. Isolated(w, r, Grant(w, rows)) /\ Personal(w, r, Grant(w, rows))
    BY <1>2 DEF Isolated, Personal, Grant, Touched, Rows, Analysts, Managers, InTheContext, InThePath
  <2> QED BY <2>1, <2>2, Readings, Refusals DEF Show
<1> QED
  BY <1>1, <1>2

LEMMA CoverageReportKeeps ==
  ASSUME NEW w, NEW r, Coherent(w), RequestOK(w, r), r.op = "CoverageReport"
  PROVE  AccessKept(w, r, CoverageReport(w, r))
<1> DEFINE rows == {x \in Rows(w, "program", r.slug) : x.active}
           may  == r.user.role \in Managers /\ r.slug \in DOMAIN w.tenants
                   /\ (IsSuper(r.user) \/ r.user.tenant = r.slug)
<1>1. CASE ~may
  <2>1. \E c \in {403, 404} : CoverageReport(w, r) = Refuse(w, c)
    BY <1>1 DEF CoverageReport, ForRoles, InPath
  <2> QED BY <2>1, Refusals
<1>2. CASE may
  <2>1. CoverageReport(w, r) = Show(w, rows)
    BY <1>2 DEF CoverageReport, ForRoles, InPath
  <2>2. Isolated(w, r, Grant(w, rows)) /\ Personal(w, r, Grant(w, rows))
    BY <1>2 DEF Isolated, Personal, Grant, Touched, Rows, Analysts, Managers, InTheContext, InThePath
  <2> QED BY <2>1, <2>2, Readings, Refusals DEF Show
<1> QED
  BY <1>1, <1>2

LEMMA GetMaterialTopicsKeeps ==
  ASSUME NEW w, NEW r, Coherent(w), RequestOK(w, r), r.op = "GetMaterialTopics"
  PROVE  AccessKept(w, r, GetMaterialTopics(w, r))
<1> DEFINE rows == {x \in Rows(w, "document", r.slug) : x.id = r.id}
           may  == r.user.role \in Managers /\ r.slug \in DOMAIN w.tenants
                   /\ (IsSuper(r.user) \/ r.user.tenant = r.slug)
<1>1. CASE ~may
  <2>1. \E c \in {403, 404} : GetMaterialTopics(w, r) = Refuse(w, c)
    BY <1>1 DEF GetMaterialTopics, ForRoles, InPath
  <2> QED BY <2>1, Refusals
<1>2. CASE may
  <2>1. GetMaterialTopics(w, r) = Show(w, rows)
    BY <1>2 DEF GetMaterialTopics, ForRoles, InPath
  <2>2. Isolated(w, r, Grant(w, rows)) /\ Personal(w, r, Grant(w, rows))
    BY <1>2 DEF Isolated, Personal, Grant, Touched, Rows, Analysts, Managers, InTheContext, InThePath
  <2> QED BY <2>1, <2>2, Readings, Refusals DEF Show
<1> QED
  BY <1>1, <1>2

LEMMA StudentsKeeps ==
  ASSUME NEW w, NEW r, Coherent(w), RequestOK(w, r), r.op = "Students"
  PROVE  AccessKept(w, r, Students(w, r))
<1> DEFINE rows == Rows(w, "student", r.slug)
           may  == r.user.role \in Analysts /\ r.slug \in DOMAIN w.tenants
                   /\ (IsSuper(r.user) \/ r.user.tenant = r.slug)
<1>1. CASE ~may
  <2>1. \E c \in {403, 404} : Students(w, r) = Refuse(w, c)
    BY <1>1 DEF Students, ForRoles, InPath
  <2> QED BY <2>1, Refusals
<1>2. CASE may
  <2>1. Students(w, r) = Grant(w, rows)
    BY <1>2 DEF Students, ForRoles, InPath
  <2>2. Isolated(w, r, Grant(w, rows)) /\ Personal(w, r, Grant(w, rows))
    BY <1>2 DEF Isolated, Personal, Grant, Touched, Rows, Analysts, Managers, InTheContext, InThePath
  <2> QED BY <2>1, <2>2, Readings, Refusals DEF Show
<1> QED
  BY <1>1, <1>2

LEMMA ListTenantsKeeps ==
  ASSUME NEW w, NEW r, Coherent(w), RequestOK(w, r), r.op = "ListTenants"
  PROVE  AccessKept(w, r, ListTenants(w, r))
<1> DEFINE rows == {TenantRow(s) : s \in DOMAIN w.tenants}
<1>1. CASE ~(r.user.role = "super-admin")
  <2>1. \E c \in {403, 404} : ListTenants(w, r) = Refuse(w, c)
    BY <1>1 DEF ListTenants, ForRoles
  <2> QED BY <2>1, Refusals
<1>2. CASE r.user.role = "super-admin"
  <2>1. ListTenants(w, r) = Grant(w, rows)
    BY <1>2 DEF ListTenants, ForRoles
  <2>2. Isolated(w, r, Grant(w, rows)) /\ Personal(w, r, Grant(w, rows))
    BY <1>2 DEF Isolated, Personal, Grant, Touched, TenantRow, IsSuper, InTheContext, InThePath
  <2> QED BY <2>1, <2>2, Readings
<1> QED
  BY <1>1, <1>2

LEMMA GetGateKeeps ==
  ASSUME NEW w, NEW r, Coherent(w), RequestOK(w, r), r.op = "GetGate"
  PROVE  AccessKept(w, r, GetGate(w, r))
<1> DEFINE rows == {TenantRow(r.slug)}
<1>1. CASE ~(r.user.role = "super-admin" /\ r.slug \in DOMAIN w.tenants)
  <2>1. \E c \in {403, 404} : GetGate(w, r) = Refuse(w, c)
    BY <1>1 DEF GetGate, ForRoles
  <2> QED BY <2>1, Refusals
<1>2. CASE r.user.role = "super-admin" /\ r.slug \in DOMAIN w.tenants
  <2>1. GetGate(w, r) = Grant(w, rows)
    BY <1>2 DEF GetGate, ForRoles
  <2>2. Isolated(w, r, Grant(w, rows)) /\ Personal(w, r, Grant(w, rows))
    BY <1>2 DEF Isolated, Personal, Grant, Touched, TenantRow, IsSuper, InTheContext, InThePath
  <2> QED BY <2>1, <2>2, Readings
<1> QED
  BY <1>1, <1>2

-----------------------------------------------------------------------------
(* Writing *)

LEMMA DeleteDocumentKeeps ==
  ASSUME NEW w, NEW r, Coherent(w), RequestOK(w, r), r.op = "DeleteDocument"
  PROVE  AccessKept(w, r, DeleteDocument(w, r))
<1> DEFINE c == Context(w, r)
           v == Warmed(w, r)
           rows == {x \in Rows(v, "document", c.tenant) : x.id = r.id}
           z == Audited(Removed(v, rows), r, c.tenant)
           may == /\ r.user.role \in Managers
                  /\ c.code = 200
                  /\ Writable(w, c.tenant, r.user)
                  /\ rows # {}
<1>1. CASE ~may
  <2>1. \/ \E k \in {403, 404, 422, 423} : DeleteDocument(w, r) \in {Refuse(w, k), Refuse(v, k)}
        \/ c.code # 200 /\ DeleteDocument(w, r) = Refuse(v, c.code)
    BY <1>1 DEF DeleteDocument, ForRoles, InContext
  <2> QED BY <2>1, Refusals
<1>2. CASE may
  <2>1. DeleteDocument(w, r) = Grant(z, {})
    BY <1>2 DEF DeleteDocument, ForRoles, InContext
  <2>2. /\ z.tenants = w.tenants /\ z.quality = w.quality
        /\ z.trail = Append(w.trail, Entry(r, c.tenant))
        /\ w.cached # Absent => z.cached = w.cached
        /\ z.rows = w.rows \ rows
    BY WarmedRows DEF Audited, Removed, Warmed, Coherent
  <2>3. \A x \in Touched(w, Grant(z, {})) :
          /\ x.tenant = c.tenant
          /\ x.kind = "document"
    BY <2>2, WarmedRows DEF Touched, Grant, Rows
  <2>4. Isolated(w, r, Grant(z, {}))
    <3>1. /\ ~IsSuper(r.user) => c.tenant = r.user.tenant
          /\ r.header # Absent => c.tenant = r.header
      BY <1>2, ContextFacts
    <3> HIDE DEF z, c
    <3>2. Grant(z, {}).seen = {}
      BY DEF Grant
    <3> QED
      BY <2>3, <3>1, <3>2 DEF Isolated, InThePath
  <2>5. Personal(w, r, Grant(z, {}))
    BY <2>2, <2>3 DEF Personal, Grant, Touched
  <2>6. Locked(w, r, Grant(z, {}))
    BY <1>2, <2>2, <2>3 DEF Locked, Grant, Writable
  <2>7. Trailed(w, r, Grant(z, {}))
    <3>1. r.user.role \in Managers /\ c.tenant \in DOMAIN w.tenants
      BY <1>2, ContextFacts
    <3> HIDE DEF z, c
    <3>2. Grant(z, {}).world = z
      BY DEF Grant
    <3> QED
      BY <2>2, <2>3, <3>1, <3>2 DEF Trailed
  <2>8. Harmless(w, r, Grant(z, {}))
    BY <2>2 DEF Harmless, Grant
  <2> QED
    BY <2>1, <2>4, <2>5, <2>6, <2>7, <2>8 DEF AccessKept
<1> QED
  BY <1>1, <1>2

LEMMA DeleteChatKeeps ==
  ASSUME NEW w, NEW r, Coherent(w), RequestOK(w, r), r.op = "DeleteChat"
  PROVE  AccessKept(w, r, DeleteChat(w, r))
<1> DEFINE c == Context(w, r)
           v == Warmed(w, r)
           rows == {x \in Own(v, r, c.tenant) : x.id = r.id}
           z == Removed(v, rows)
           may == /\ c.code = 200
                  /\ rows # {}
<1>1. CASE ~may
  <2>1. \/ \E k \in {403, 404, 422, 423} : DeleteChat(w, r) \in {Refuse(w, k), Refuse(v, k)}
        \/ c.code # 200 /\ DeleteChat(w, r) = Refuse(v, c.code)
    BY <1>1 DEF DeleteChat, ForRoles, InContext
  <2> QED BY <2>1, Refusals
<1>2. CASE may
  <2>1. DeleteChat(w, r) = Grant(z, {})
    BY <1>2 DEF DeleteChat, ForRoles, InContext
  <2>2. /\ z.tenants = w.tenants /\ z.quality = w.quality
        /\ z.trail = w.trail
        /\ w.cached # Absent => z.cached = w.cached
        /\ z.rows = w.rows \ rows
    BY WarmedRows DEF Removed, Warmed, Coherent
  <2>3. \A x \in Touched(w, Grant(z, {})) :
          /\ x.tenant = c.tenant
          /\ x.kind = "chat" /\ x.owner = r.user.id /\ x \notin z.rows
    BY <2>2, WarmedRows DEF Touched, Grant, Rows, Own
  <2>4. Isolated(w, r, Grant(z, {}))
    <3>1. /\ ~IsSuper(r.user) => c.tenant = r.user.tenant
          /\ r.header # Absent => c.tenant = r.header
      BY <1>2, ContextFacts
    <3> HIDE DEF z, c
    <3>2. Grant(z, {}).seen = {}
      BY DEF Grant
    <3> QED
      BY <2>3, <3>1, <3>2 DEF Isolated, InThePath
  <2>5. Personal(w, r, Grant(z, {}))
    <3> HIDE DEF z, c
    <3>1. Grant(z, {}).world = z /\ Grant(z, {}).seen = {}
      BY DEF Grant
    <3>2. w.rows \ z.rows \subseteq Touched(w, Grant(z, {}))
      BY <3>1 DEF Touched
    <3> QED
      BY <2>3, <3>1, <3>2 DEF Personal
  <2>6. Locked(w, r, Grant(z, {}))
    BY <1>2, <2>2, <2>3 DEF Locked, Grant, Writable
  <2>7. Trailed(w, r, Grant(z, {}))
    <3> HIDE DEF z, c
    <3>1. Grant(z, {}).world = z
      BY DEF Grant
    <3> QED
      BY <2>2, <2>3, <3>1 DEF Trailed
  <2>8. Harmless(w, r, Grant(z, {}))
    BY <2>2 DEF Harmless, Grant
  <2> QED
    BY <2>1, <2>4, <2>5, <2>6, <2>7, <2>8 DEF AccessKept
<1> QED
  BY <1>1, <1>2

LEMMA IssueInviteKeeps ==
  ASSUME NEW w, NEW r, Coherent(w), RequestOK(w, r), r.op = "IssueInvite"
  PROVE  AccessKept(w, r, IssueInvite(w, r))
<1> DEFINE c == Context(w, r)
           v == Warmed(w, r)
           z == Audited(Added(v, "invite", r, c.tenant), r, c.tenant)
           may == /\ r.user.role \in Managers
                  /\ r.value \in Bound
                  /\ c.code = 200
                  /\ Writable(w, c.tenant, r.user)
<1>1. CASE ~may
  <2>1. \/ \E k \in {403, 404, 422, 423} : IssueInvite(w, r) \in {Refuse(w, k), Refuse(v, k)}
        \/ c.code # 200 /\ IssueInvite(w, r) = Refuse(v, c.code)
    BY <1>1 DEF IssueInvite, ForRoles, InContext
  <2> QED BY <2>1, Refusals
<1>2. CASE may
  <2>1. IssueInvite(w, r) = Grant(z, {})
    BY <1>2 DEF IssueInvite, ForRoles, InContext
  <2>2. /\ z.tenants = w.tenants /\ z.quality = w.quality
        /\ z.trail = Append(w.trail, Entry(r, c.tenant))
        /\ w.cached # Absent => z.cached = w.cached
        /\ z.rows = w.rows \cup {[kind |-> "invite", id |-> r.id, tenant |-> c.tenant,
                                owner |-> r.user.id, active |-> TRUE]}
    BY WarmedRows DEF Audited, Added, Warmed, Coherent
  <2>3. \A x \in Touched(w, Grant(z, {})) :
          /\ x.tenant = c.tenant
          /\ x.kind = "invite"
    BY <2>2, WarmedRows DEF Touched, Grant, Rows
  <2>4. Isolated(w, r, Grant(z, {}))
    <3>1. /\ ~IsSuper(r.user) => c.tenant = r.user.tenant
          /\ r.header # Absent => c.tenant = r.header
      BY <1>2, ContextFacts
    <3> HIDE DEF z, c
    <3>2. Grant(z, {}).seen = {}
      BY DEF Grant
    <3> QED
      BY <2>3, <3>1, <3>2 DEF Isolated, InThePath
  <2>5. Personal(w, r, Grant(z, {}))
    BY <2>2, <2>3 DEF Personal, Grant, Touched
  <2>6. Locked(w, r, Grant(z, {}))
    BY <1>2, <2>2, <2>3 DEF Locked, Grant, Writable
  <2>7. Trailed(w, r, Grant(z, {}))
    <3>1. r.user.role \in Managers /\ c.tenant \in DOMAIN w.tenants
      BY <1>2, ContextFacts
    <3> HIDE DEF z, c
    <3>2. Grant(z, {}).world = z
      BY DEF Grant
    <3> QED
      BY <2>2, <2>3, <3>1, <3>2 DEF Trailed
  <2>8. Harmless(w, r, Grant(z, {}))
    BY <2>2 DEF Harmless, Grant
  <2> QED
    BY <2>1, <2>4, <2>5, <2>6, <2>7, <2>8 DEF AccessKept
<1> QED
  BY <1>1, <1>2

LEMMA FeedbackKeeps ==
  ASSUME NEW w, NEW r, Coherent(w), RequestOK(w, r), r.op = "Feedback"
  PROVE  AccessKept(w, r, Feedback(w, r))
<1> DEFINE c == Context(w, r)
           v == Warmed(w, r)
           z == Added(v, "feedback", r, c.tenant)
           may == /\ r.value \in {"positive", "negative"}
                  /\ c.code = 200
                  /\ Writable(w, c.tenant, r.user)
<1>1. CASE ~may
  <2>1. \/ \E k \in {403, 404, 422, 423} : Feedback(w, r) \in {Refuse(w, k), Refuse(v, k)}
        \/ c.code # 200 /\ Feedback(w, r) = Refuse(v, c.code)
    BY <1>1 DEF Feedback, ForRoles, InContext
  <2> QED BY <2>1, Refusals
<1>2. CASE may
  <2>1. Feedback(w, r) = Grant(z, {})
    BY <1>2 DEF Feedback, ForRoles, InContext
  <2>2. /\ z.tenants = w.tenants /\ z.quality = w.quality
        /\ z.trail = w.trail
        /\ w.cached # Absent => z.cached = w.cached
        /\ z.rows = w.rows \cup {[kind |-> "feedback", id |-> r.id, tenant |-> c.tenant,
                                owner |-> r.user.id, active |-> TRUE]}
    BY WarmedRows DEF Added, Warmed, Coherent
  <2>3. \A x \in Touched(w, Grant(z, {})) :
          /\ x.tenant = c.tenant
          /\ x.kind = "feedback"
    BY <2>2, WarmedRows DEF Touched, Grant, Rows
  <2>4. Isolated(w, r, Grant(z, {}))
    <3>1. /\ ~IsSuper(r.user) => c.tenant = r.user.tenant
          /\ r.header # Absent => c.tenant = r.header
      BY <1>2, ContextFacts
    <3> HIDE DEF z, c
    <3>2. Grant(z, {}).seen = {}
      BY DEF Grant
    <3> QED
      BY <2>3, <3>1, <3>2 DEF Isolated, InThePath
  <2>5. Personal(w, r, Grant(z, {}))
    BY <2>2, <2>3 DEF Personal, Grant, Touched
  <2>6. Locked(w, r, Grant(z, {}))
    BY <1>2, <2>2, <2>3 DEF Locked, Grant, Writable
  <2>7. Trailed(w, r, Grant(z, {}))
    BY <1>2, <2>2, <2>3, ContextFacts DEF Trailed, Grant
  <2>8. Harmless(w, r, Grant(z, {}))
    BY <2>2 DEF Harmless, Grant
  <2> QED
    BY <2>1, <2>4, <2>5, <2>6, <2>7, <2>8 DEF AccessKept
<1> QED
  BY <1>1, <1>2

LEMMA CreateTenantKeeps ==
  ASSUME NEW w, NEW r, Coherent(w), RequestOK(w, r), r.op = "CreateTenant"
  PROVE  AccessKept(w, r, CreateTenant(w, r))
<1> DEFINE rows == {TenantRow(r.slug)}
           z == Audited([w EXCEPT !.tenants =
                          [s \in DOMAIN w.tenants \cup {r.slug} |->
                             IF s = r.slug THEN [status |-> "active", gate |-> Absent]
                             ELSE w.tenants[s]]], r, r.slug)
           may == /\ r.user.role = "super-admin"
                  /\ r.slug \in Slugs \ DOMAIN w.tenants
<1>1. CASE ~may
  <2>1. \E k \in {403, 404, 409, 422, 423} : CreateTenant(w, r) = Refuse(w, k)
    BY <1>1 DEF CreateTenant, ForRoles
  <2> QED BY <2>1, Refusals
<1>2. CASE may
  <2>1. CreateTenant(w, r) = Grant(z, rows)
    BY <1>2 DEF CreateTenant, ForRoles
  <2>2. /\ z.rows = w.rows /\ z.cached = w.cached
        /\ z.trail = Append(w.trail, Entry(r, r.slug))
        /\ z.quality = w.quality
    BY DEF Audited, Coherent
  <2>3. /\ DOMAIN z.tenants = DOMAIN w.tenants \cup {r.slug}
        /\ \A s \in DOMAIN w.tenants \ {r.slug} : z.tenants[s] = w.tenants[s]
    BY <1>2 DEF Audited, Coherent
  <2>4. Touched(w, Grant(z, rows)) = {}
    BY <2>2 DEF Touched, Grant
  <2>5. Isolated(w, r, Grant(z, rows)) /\ Personal(w, r, Grant(z, rows))
    BY <1>2, <2>2, <2>4 DEF Isolated, Personal, Grant, TenantRow, IsSuper, InTheContext, InThePath
  <2>6. Locked(w, r, Grant(z, rows))
    BY <1>2, <2>2, <2>4 DEF Locked, Grant, IsSuper
  <2>7. Trailed(w, r, Grant(z, rows))
    BY <1>2, <2>2, <2>3, <2>4 DEF Trailed, Grant, Managers
  <2>8. Harmless(w, r, Grant(z, rows))
    BY <2>2, <2>3 DEF Harmless, Grant
  <2> QED
    BY <2>1, <2>5, <2>6, <2>7, <2>8 DEF AccessKept
<1> QED
  BY <1>1, <1>2

LEMMA UpdateStatusKeeps ==
  ASSUME NEW w, NEW r, Coherent(w), RequestOK(w, r), r.op = "UpdateStatus"
  PROVE  AccessKept(w, r, UpdateStatus(w, r))
<1> DEFINE rows == {TenantRow(r.slug)}
           z == Audited([w EXCEPT !.tenants[r.slug].status = r.value], r, r.slug)
           may == /\ r.user.role = "super-admin"
                  /\ r.value \in Statuses
                  /\ r.slug \in DOMAIN w.tenants
                  /\ w.tenants[r.slug].status # r.value
           same == /\ r.user.role = "super-admin" /\ r.value \in Statuses
                   /\ r.slug \in DOMAIN w.tenants /\ w.tenants[r.slug].status = r.value
<1>1. CASE ~may /\ ~same
  <2>1. \E k \in {403, 404, 409, 422, 423} : UpdateStatus(w, r) = Refuse(w, k)
    BY <1>1 DEF UpdateStatus, ForRoles
  <2> QED BY <2>1, Refusals
<1>2. CASE may
  <2>1. UpdateStatus(w, r) = Grant(z, rows)
    BY <1>2 DEF UpdateStatus, ForRoles
  <2>2. /\ z.rows = w.rows /\ z.cached = w.cached
        /\ z.trail = Append(w.trail, Entry(r, r.slug))
        /\ z.quality = w.quality
    BY DEF Audited, Coherent
  <2>3. /\ DOMAIN z.tenants = DOMAIN w.tenants \cup {r.slug}
        /\ \A s \in DOMAIN w.tenants \ {r.slug} : z.tenants[s] = w.tenants[s]
    BY <1>2 DEF Audited, Coherent
  <2>4. Touched(w, Grant(z, rows)) = {}
    BY <2>2 DEF Touched, Grant
  <2>5. Isolated(w, r, Grant(z, rows)) /\ Personal(w, r, Grant(z, rows))
    BY <1>2, <2>2, <2>4 DEF Isolated, Personal, Grant, TenantRow, IsSuper, InTheContext, InThePath
  <2>6. Locked(w, r, Grant(z, rows))
    BY <1>2, <2>2, <2>4 DEF Locked, Grant, IsSuper
  <2>7. Trailed(w, r, Grant(z, rows))
    BY <1>2, <2>2, <2>3, <2>4 DEF Trailed, Grant, Managers
  <2>8. Harmless(w, r, Grant(z, rows))
    BY <2>2, <2>3 DEF Harmless, Grant
  <2> QED
    BY <2>1, <2>5, <2>6, <2>7, <2>8 DEF AccessKept
<1>3. CASE same
  <2>1. UpdateStatus(w, r) = Grant(w, rows)
    BY <1>3 DEF UpdateStatus, ForRoles
  <2>2. Isolated(w, r, Grant(w, rows)) /\ Personal(w, r, Grant(w, rows))
    BY <1>3 DEF Isolated, Personal, Grant, Touched, TenantRow, IsSuper, InTheContext, InThePath
  <2> QED BY <2>1, <2>2, Readings
<1> QED
  BY <1>1, <1>2, <1>3

LEMMA SetGateKeeps ==
  ASSUME NEW w, NEW r, Coherent(w), RequestOK(w, r), r.op = "SetGate"
  PROVE  AccessKept(w, r, SetGate(w, r))
<1> DEFINE rows == {TenantRow(r.slug)}
           z == Audited([w EXCEPT !.tenants[r.slug].gate = r.value], r, r.slug)
           may == /\ r.user.role = "super-admin"
                  /\ r.slug \in DOMAIN w.tenants
<1>1. CASE ~may
  <2>1. \E k \in {403, 404, 409, 422, 423} : SetGate(w, r) = Refuse(w, k)
    BY <1>1 DEF SetGate, ForRoles
  <2> QED BY <2>1, Refusals
<1>2. CASE may
  <2>1. SetGate(w, r) = Grant(z, rows)
    BY <1>2 DEF SetGate, ForRoles
  <2>2. /\ z.rows = w.rows /\ z.cached = w.cached
        /\ z.trail = Append(w.trail, Entry(r, r.slug))
        /\ z.quality = w.quality
    BY DEF Audited, Coherent
  <2>3. /\ DOMAIN z.tenants = DOMAIN w.tenants \cup {r.slug}
        /\ \A s \in DOMAIN w.tenants \ {r.slug} : z.tenants[s] = w.tenants[s]
    BY <1>2 DEF Audited, Coherent
  <2>4. Touched(w, Grant(z, rows)) = {}
    BY <2>2 DEF Touched, Grant
  <2>5. Isolated(w, r, Grant(z, rows)) /\ Personal(w, r, Grant(z, rows))
    BY <1>2, <2>2, <2>4 DEF Isolated, Personal, Grant, TenantRow, IsSuper, InTheContext, InThePath
  <2>6. Locked(w, r, Grant(z, rows))
    BY <1>2, <2>2, <2>4 DEF Locked, Grant, IsSuper
  <2>7. Trailed(w, r, Grant(z, rows))
    BY <1>2, <2>2, <2>3, <2>4 DEF Trailed, Grant, Managers
  <2>8. Harmless(w, r, Grant(z, rows))
    BY <2>2, <2>3 DEF Harmless, Grant
  <2> QED
    BY <2>1, <2>5, <2>6, <2>7, <2>8 DEF AccessKept
<1> QED
  BY <1>1, <1>2

LEMMA ComputeQualityKeeps ==
  ASSUME NEW w, NEW r, Coherent(w), RequestOK(w, r), r.op = "ComputeQuality"
  PROVE  AccessKept(w, r, ComputeQuality(w, r))
<1> DEFINE rows == {x \in Rows(w, "document", r.slug) : x.id = r.id}
           z == Audited([w EXCEPT !.quality =
                          [d \in DOMAIN @ |-> IF \E x \in rows : x.id = d
                                              THEN r.value ELSE @[d]]], r, r.slug)
           may == /\ r.user.role \in Managers
                  /\ r.slug \in DOMAIN w.tenants
                  /\ IsSuper(r.user) \/ r.user.tenant = r.slug
                  /\ Writable(w, r.slug, r.user)
                  /\ rows # {}
<1>1. CASE ~may
  <2>1. \E k \in {403, 404, 409, 422, 423} : ComputeQuality(w, r) = Refuse(w, k)
    BY <1>1 DEF ComputeQuality, ForRoles, InPath
  <2> QED BY <2>1, Refusals
<1>2. CASE may
  <2>1. ComputeQuality(w, r) = Grant(z, rows)
    BY <1>2 DEF ComputeQuality, ForRoles, InPath
  <2>2. /\ z.rows = w.rows /\ z.cached = w.cached
        /\ z.trail = Append(w.trail, Entry(r, r.slug))
        /\ z.tenants = w.tenants
    BY DEF Audited, Coherent
  <2>3. DOMAIN w.tenants = DOMAIN z.tenants /\ r.slug \in DOMAIN z.tenants
    BY <1>2, <2>2
  <2>4. Touched(w, Grant(z, rows)) = {}
    BY <2>2 DEF Touched, Grant
  <2>5. Isolated(w, r, Grant(z, rows)) /\ Personal(w, r, Grant(z, rows))
    BY <1>2, <2>2, <2>4 DEF Isolated, Personal, Grant, Rows, Managers, IsSuper, InTheContext, InThePath
  <2>6. Locked(w, r, Grant(z, rows))
    BY <1>2, <2>2, <2>4 DEF Locked, Grant, IsSuper
  <2>7. Trailed(w, r, Grant(z, rows))
    BY <1>2, <2>2, <2>3, <2>4 DEF Trailed, Grant, Managers
  <2>8. Harmless(w, r, Grant(z, rows))
    BY <2>2, <2>3 DEF Harmless, Grant
  <2> QED
    BY <2>1, <2>5, <2>6, <2>7, <2>8 DEF AccessKept
<1> QED
  BY <1>1, <1>2

-----------------------------------------------------------------------------
\* Whatever the tenants, their rows and their status, and whoever sends it: a
\* request keeps to its tenant, shows and removes what is the user's, writes only
\* where writing is open, and leaves a trace of what an administrator changed.
THEOREM EveryHandlerKeeps ==
  ASSUME NEW w, NEW r, Coherent(w), RequestOK(w, r)
  PROVE  AccessKept(w, r, Handle(w, r))
<1>1. CASE r.op = "GetJob"
  BY <1>1, GetJobKeeps DEF Handle
<1>2. CASE r.op = "ListDocuments"
  BY <1>2, ListDocumentsKeeps DEF Handle
<1>3. CASE r.op = "DeleteDocument"
  BY <1>3, DeleteDocumentKeeps DEF Handle
<1>4. CASE r.op = "IssueInvite"
  BY <1>4, IssueInviteKeeps DEF Handle
<1>5. CASE r.op = "ListInvites"
  BY <1>5, ListInvitesKeeps DEF Handle
<1>6. CASE r.op = "Feedback"
  BY <1>6, FeedbackKeeps DEF Handle
<1>7. CASE r.op = "ListChats"
  BY <1>7, ListChatsKeeps DEF Handle
<1>8. CASE r.op = "GetChat"
  BY <1>8, GetChatKeeps DEF Handle
<1>9. CASE r.op = "DeleteChat"
  BY <1>9, DeleteChatKeeps DEF Handle
<1>10. CASE r.op = "MyProgram"
  BY <1>10, MyProgramKeeps DEF Handle
<1>11. CASE r.op = "CreateTenant"
  BY <1>11, CreateTenantKeeps DEF Handle
<1>12. CASE r.op = "ListTenants"
  BY <1>12, ListTenantsKeeps DEF Handle
<1>13. CASE r.op = "UpdateStatus"
  BY <1>13, UpdateStatusKeeps DEF Handle
<1>14. CASE r.op = "GetGate"
  BY <1>14, GetGateKeeps DEF Handle
<1>15. CASE r.op = "SetGate"
  BY <1>15, SetGateKeeps DEF Handle
<1>16. CASE r.op = "GetProgram"
  BY <1>16, GetProgramKeeps DEF Handle
<1>17. CASE r.op = "CoverageReport"
  BY <1>17, CoverageReportKeeps DEF Handle
<1>18. CASE r.op = "GetMaterialTopics"
  BY <1>18, GetMaterialTopicsKeeps DEF Handle
<1>19. CASE r.op = "ComputeQuality"
  BY <1>19, ComputeQualityKeeps DEF Handle
<1>20. CASE r.op = "Students"
  BY <1>20, StudentsKeeps DEF Handle
<1> QED
  BY <1>1, <1>2, <1>3, <1>4, <1>5, <1>6, <1>7, <1>8, <1>9, <1>10,
     <1>11, <1>12, <1>13, <1>14, <1>15, <1>16, <1>17, <1>18, <1>19, <1>20
     DEF RequestOK, InTheContext, InThePath, Platform

-----------------------------------------------------------------------------
(***************************************************************************)
(* The service over time (Service).  What an answer leaves of a world is   *)
(* one of a few changes; each of them keeps worlds whole and accounted for.*)
(***************************************************************************)
Manages(u, t) == IsSuper(u) \/ (u.role = "tenant-admin" /\ u.tenant = t)

\* What an administrator's request in tenant t makes of the world v, entry included.
Managed(v, r, t, x) ==
  /\ Manages(r.user, t)
  /\ \/ /\ r.op = "DeleteDocument"
        /\ \E rows \in SUBSET v.rows : x = Audited(Removed(v, rows), r, t)
     \/ r.op = "IssueInvite" /\ x = Audited(Added(v, "invite", r, t), r, t)
     \/ /\ r.op = "ComputeQuality" /\ \E d \in v.rows : d.kind = "document" /\ d.id = r.id /\ d.tenant = t
        /\ x = Audited([v EXCEPT !.quality = [d \in DOMAIN @ |-> IF d = r.id THEN r.value ELSE @[d]]],
                       r, t)

\* And a super-admin's, who alone writes what is of the tenant itself.
Ruled(v, r, t, x) ==
  /\ IsSuper(r.user)
  /\ \/ /\ r.op = "UpdateStatus" /\ r.value \in Statuses
        /\ x = Audited([v EXCEPT !.tenants[t].status = r.value], r, t)
     \/ r.op = "SetGate" /\ x = Audited([v EXCEPT !.tenants[t].gate = r.value], r, t)

Founded(v, r, x) ==
  /\ IsSuper(r.user) /\ r.op = "CreateTenant" /\ r.slug \in Slugs \ DOMAIN v.tenants
  /\ x = Audited([v EXCEPT !.tenants =
                    [s \in DOMAIN v.tenants \cup {r.slug} |->
                       IF s = r.slug THEN [status |-> "active", gate |-> Absent]
                       ELSE v.tenants[s]]], r, r.slug)

Outcome(v, r, x) ==
  \/ x = v
  \/ \E rows \in SUBSET v.rows : x = Removed(v, rows)
  \/ \E t \in DOMAIN v.tenants : \/ r.op = "Feedback" /\ x = Added(v, "feedback", r, t)
                                 \/ Managed(v, r, t, x)
                                 \/ Ruled(v, r, t, x)
  \/ Founded(v, r, x)

LEMMA WholeCoherent == ASSUME NEW w, WorldOK(w) PROVE Coherent(w)
BY DEF WorldOK, Coherent

\* What is asked for is a request of a user whose tenant exists.
LEMMA AskedOK ==
  ASSUME NEW r \in Asked
  PROVE  /\ r.user \in Users /\ r.user.id \in Names
         /\ r.user.role \in Bound \cup {"super-admin"}
         /\ r.op \in InTheContext \cup InThePath \cup Platform
         /\ r.op \in NamesRow => r.id \in Ids
         /\ r.value \in Bodies(r.op)
         /\ r.slug \in Slugs \cup {Absent}
<1> DEFINE A == UNION {RequestsFor(op, Slugs \cup {Absent}, {Absent}) : op \in InTheContext}
           B == UNION {RequestsFor(op, {Absent}, Slugs \cup {Absent}) : op \in InThePath \cup Platform}
<1>0. r \in Asked
  OBVIOUS
<1>1. PICK op \in InTheContext \cup InThePath \cup Platform, hs \in {Slugs \cup {Absent}, {Absent}},
           ss \in {Slugs \cup {Absent}, {Absent}} : r \in RequestsFor(op, hs, ss)
  <2>1. CASE r \in A
    <3>1. PICK op \in InTheContext : r \in RequestsFor(op, Slugs \cup {Absent}, {Absent})
      BY <2>1
    <3> QED BY <3>1
  <2>2. CASE r \in B
    <3>1. PICK op \in InThePath \cup Platform : r \in RequestsFor(op, {Absent}, Slugs \cup {Absent})
      BY <2>2
    <3> QED BY <3>1
  <2> QED
    BY <1>0, <2>1, <2>2 DEF Asked
<1>2. r.op = op /\ r.user \in Users /\ r.slug \in ss /\ r.value \in Bodies(op)
      /\ r.id \in IF op \in NamesRow THEN Ids ELSE {Absent}
  BY <1>1 DEF RequestsFor
<1> QED
  BY <1>1, <1>2, ServiceAssumption DEF Names

LEMMA WarmedWhole ==
  ASSUME NEW w, WorldOK(w), NEW r
  PROVE  /\ WorldOK(Warmed(w, r))
         /\ Warmed(w, r).rows = w.rows /\ Warmed(w, r).tenants = w.tenants
         /\ Warmed(w, r).trail = w.trail /\ Warmed(w, r).quality = w.quality
<1> DEFINE v == Warmed(w, r)
<1>1. DefaultTenant(w) \in DOMAIN w.tenants \cup {Absent}
  BY DEF WorldOK, DefaultTenant
<1>2. /\ v = [w EXCEPT !.cached = v.cached] /\ v.cached \in DOMAIN w.tenants \cup {Absent}
  BY <1>1 DEF WorldOK, Warmed
<1>3. /\ v.rows = w.rows /\ v.tenants = w.tenants /\ v.trail = w.trail /\ v.quality = w.quality
      /\ v = [tenants |-> v.tenants, cached |-> v.cached, rows |-> v.rows,
              trail |-> v.trail, quality |-> v.quality]
  BY <1>2 DEF WorldOK
<1> QED
  BY <1>2, <1>3 DEF WorldOK

LEMMA Outcomes ==
  ASSUME NEW w, WorldOK(w), NEW r \in Asked, r.user.tenant \in DOMAIN w.tenants \cup {Absent}
  PROVE  \E v \in {w, Warmed(w, r)} : Outcome(v, r, Handle(w, r).world)
<1> DEFINE c == Context(w, r)
           v == Warmed(w, r)
           x == Handle(w, r).world
<1>1. /\ Coherent(w) /\ RequestOK(w, r) /\ r.value \in Bodies(r.op)
      /\ r.user.role \in Bound \cup {"super-admin"} /\ r.slug \in Slugs \cup {Absent}
  BY WholeCoherent, AskedOK DEF RequestOK
<1>2. /\ c.code = 200 => c.tenant \in DOMAIN w.tenants
      /\ c.code = 200 /\ ~ IsSuper(r.user) => c.tenant = r.user.tenant
  BY <1>1, ContextFacts
<1>3. v.rows = w.rows /\ v.tenants = w.tenants /\ v.quality = w.quality
  BY WarmedWhole
<1>4. r.user.role \in Managers => IsSuper(r.user) \/ r.user.role = "tenant-admin"
  BY DEF Managers, IsSuper
<1>5. r.slug \in DOMAIN w.tenants => r.slug \in Slugs
  BY DEF WorldOK
<1>10. CASE r.op = "DeleteDocument"
  <2>1. x \in {w, v} \/ /\ c.code = 200 /\ r.user.role \in Managers
                        /\ \E rows \in SUBSET v.rows : x = Audited(Removed(v, rows), r, c.tenant)
    BY <1>10 DEF Handle, DeleteDocument, ForRoles, InContext, Refuse, Grant, Rows
  <2> QED
    BY <2>1, <1>2, <1>3, <1>4, <1>10 DEF Outcome, Managed, Manages
<1>11. CASE r.op = "IssueInvite"
  <2>1. x \in {w, v} \/ /\ c.code = 200 /\ r.user.role \in Managers
                        /\ x = Audited(Added(v, "invite", r, c.tenant), r, c.tenant)
    BY <1>11 DEF Handle, IssueInvite, ForRoles, InContext, Refuse, Grant
  <2> QED
    BY <2>1, <1>2, <1>3, <1>4, <1>11 DEF Outcome, Managed, Manages
<1>12. CASE r.op = "Feedback"
  <2> DEFINE z == Added(v, "feedback", r, c.tenant)
  <2>0. x = Feedback(w, r).world
    BY <1>12 DEF Handle
  <2>1. x \in {w, v} \/ (c.code = 200 /\ x = z)
    <3>1. \/ c.code = 200 /\ Feedback(w, r) = Grant(z, {})
          \/ \E k : Feedback(w, r) = Refuse(w, k) \/ Feedback(w, r) = Refuse(v, k)
      BY DEF Feedback, InContext
    <3> QED
      BY <2>0, <3>1 DEF Refuse, Grant
  <2> QED
    BY <2>1, <1>2, <1>3, <1>12 DEF Outcome
<1>13. CASE r.op = "DeleteChat"
  <2>1. x \in {w, v} \/ \E rows \in SUBSET v.rows : x = Removed(v, rows)
    BY <1>13 DEF Handle, DeleteChat, InContext, Refuse, Grant, Own, Rows
  <2> QED
    BY <2>1 DEF Outcome
<1>14. CASE r.op = "CreateTenant"
  <2>1. x = w \/ Founded(w, r, x)
    BY <1>14 DEF Handle, CreateTenant, ForRoles, Refuse, Grant, Founded, IsSuper
  <2> QED
    BY <2>1 DEF Outcome
<1>15. CASE r.op = "UpdateStatus"
  <2> DEFINE z == Audited([w EXCEPT !.tenants[r.slug].status = r.value], r, r.slug)
             may == r.user.role = "super-admin" /\ r.slug \in DOMAIN w.tenants
                    /\ r.value \in Statuses /\ w.tenants[r.slug].status # r.value
  <2>0. x = UpdateStatus(w, r).world
    BY <1>15 DEF Handle
  <2>1. CASE may
    <3>1. UpdateStatus(w, r) = Grant(z, {TenantRow(r.slug)})
      BY <2>1 DEF UpdateStatus, ForRoles
    <3>2. x = z
      BY <2>0, <3>1 DEF Grant
    <3> QED
      BY <2>1, <3>2, <1>15 DEF Outcome, Ruled, IsSuper
  <2>2. CASE ~ may
    <3>1. UpdateStatus(w, r) = Grant(w, {TenantRow(r.slug)}) \/ \E k : UpdateStatus(w, r) = Refuse(w, k)
      BY <2>2 DEF UpdateStatus, ForRoles
    <3>2. x = w
      BY <2>0, <3>1 DEF Grant, Refuse
    <3> QED
      BY <3>2 DEF Outcome
  <2> QED
    BY <2>1, <2>2
<1>16. CASE r.op = "SetGate"
  <2> DEFINE z == Audited([w EXCEPT !.tenants[r.slug].gate = r.value], r, r.slug)
             may == r.user.role = "super-admin" /\ r.slug \in DOMAIN w.tenants
  <2>0. x = SetGate(w, r).world
    BY <1>16 DEF Handle
  <2>1. CASE may
    <3>1. SetGate(w, r) = Grant(z, {TenantRow(r.slug)})
      BY <2>1 DEF SetGate, ForRoles
    <3>2. x = z
      BY <2>0, <3>1 DEF Grant
    <3> QED
      BY <2>1, <3>2, <1>16 DEF Outcome, Ruled, IsSuper
  <2>2. CASE ~ may
    <3>1. SetGate(w, r) = Grant(w, {TenantRow(r.slug)}) \/ \E k : SetGate(w, r) = Refuse(w, k)
      BY <2>2 DEF SetGate, ForRoles
    <3>2. x = w
      BY <2>0, <3>1 DEF Grant, Refuse
    <3> QED
      BY <3>2 DEF Outcome
  <2> QED
    BY <2>1, <2>2
<1>17. CASE r.op = "ComputeQuality"
  <2> DEFINE doc == {y \in Rows(w, "document", r.slug) : y.id = r.id}
             set == [w EXCEPT !.quality = [d \in DOMAIN @ |-> IF \E y \in doc : y.id = d
                                                              THEN r.value ELSE @[d]]]
  <2>1. x = w \/ /\ r.slug \in DOMAIN w.tenants /\ Manages(r.user, r.slug) /\ doc # {}
                 /\ x = Audited(set, r, r.slug)
    BY <1>17, <1>4 DEF Handle, ComputeQuality, ForRoles, InPath, Refuse, Grant, Manages
  <2>2. ASSUME doc # {}
        PROVE  set = [w EXCEPT !.quality = [d \in DOMAIN @ |-> IF d = r.id THEN r.value ELSE @[d]]]
    <3>1. \A d : (\E y \in doc : y.id = d) <=> d = r.id
      BY <2>2
    <3> QED BY <3>1
  <2>3. doc # {} => \E d \in w.rows : d.kind = "document" /\ d.id = r.id /\ d.tenant = r.slug
    BY DEF Rows
  <2> QED
    BY <2>1, <2>2, <2>3, <1>17 DEF Outcome, Managed
<1>18. CASE r.op \in {"GetJob", "ListDocuments", "ListInvites"}
  <2>1. x \in {w, v}
    BY <1>18 DEF Handle, GetJob, ListDocuments, ListInvites, ForRoles, InContext, Refuse, Grant, Show
  <2> QED BY <2>1 DEF Outcome
<1>19. CASE r.op \in {"ListChats", "GetChat", "MyProgram"}
  <2>1. x \in {w, v}
    BY <1>19 DEF Handle, ListChats, GetChat, MyProgram, InContext, Refuse, Grant, Show
  <2> QED BY <2>1 DEF Outcome
<1>20. CASE r.op \in {"ListTenants", "GetGate"}
  <2>1. x = w
    BY <1>20 DEF Handle, ListTenants, GetGate, ForRoles, Refuse, Grant
  <2> QED BY <2>1 DEF Outcome
<1>21. CASE r.op \in {"GetProgram", "CoverageReport", "GetMaterialTopics", "Students"}
  <2>1. x = w
    BY <1>21 DEF Handle, GetProgram, CoverageReport, GetMaterialTopics, Students, ForRoles, InPath,
                 Refuse, Grant, Show
  <2> QED BY <2>1 DEF Outcome
<1> QED
  BY <1>1, <1>10, <1>11, <1>12, <1>13, <1>14, <1>15, <1>16, <1>17, <1>18, <1>19, <1>20, <1>21
  DEF RequestOK, InTheContext, InThePath, Platform

\* Documents have keys of their own.
DocumentsApart(w) ==
  \A x, y \in w.rows : x.kind = "document" /\ y.kind = "document" /\ x.id = y.id => x = y

Accounted(w) ==
  TenantsCreated(w) /\ SettingsTold(w) /\ RowsTold(w) /\ ActorsEntitled(w) /\ DocumentsApart(w)

ServiceInv == WorldOK(world) /\ Accounted(world)

Entries(w) == [op : InTheContext \cup InThePath \cup Platform, actor : Names,
               tenant : DOMAIN w.tenants]

\* An entry is added to a trail.
LEMMA TrailGrows ==
  ASSUME NEW w, WorldOK(w), NEW z, NEW e, z.trail = Append(w.trail, e)
  PROVE  /\ \A op, t : Told(z, op, t) <=> Told(w, op, t) \/ (e.op = op /\ e.tenant = t)
         /\ \A i \in DOMAIN w.trail : i \in DOMAIN z.trail /\ z.trail[i] = w.trail[i]
         /\ \E i \in DOMAIN z.trail : z.trail[i] = e
         /\ \A i \in DOMAIN z.trail : i \in DOMAIN w.trail \/ z.trail[i] = e
<1>1. w.trail \in Seq(Entries(w))
  BY DEF WorldOK, Entries
<1>2. /\ DOMAIN w.trail = 1 .. Len(w.trail) /\ Len(w.trail) \in Nat
      /\ DOMAIN z.trail = 1 .. Len(w.trail) + 1
      /\ \A i \in 1 .. Len(w.trail) : z.trail[i] = w.trail[i]
      /\ z.trail[Len(w.trail) + 1] = e
  <2>1. DOMAIN Append(w.trail, e) = 1 .. Len(w.trail) + 1
    BY <1>1
  <2> QED
    BY <1>1, <2>1
<1>3. \A i \in DOMAIN z.trail : i \in DOMAIN w.trail \/ i = Len(w.trail) + 1
  BY <1>2
<1>4. Len(w.trail) + 1 \in DOMAIN z.trail
  BY <1>2
<1> QED
  BY <1>2, <1>3, <1>4 DEF Told

\* What the accounts are about.
LEMMA AccountedSame ==
  ASSUME NEW w, NEW z, Accounted(w), z.tenants = w.tenants, z.trail = w.trail,
         z.quality = w.quality, z.rows \subseteq w.rows
  PROVE  Accounted(z)
BY DEF Accounted, TenantsCreated, SettingsTold, RowsTold, ActorsEntitled, DocumentsApart, Told

\* An entry by someone who may make it, beside a change that it accounts for.
LEMMA EntryAccounts ==
  ASSUME NEW w, WorldOK(w), Accounted(w), NEW r \in Asked, NEW t, NEW z,
         z.trail = Append(w.trail, Entry(r, t)),
         IsSuper(r.user) \/ (Manages(r.user, t) /\ r.op \notin Platform)
  PROVE  /\ ActorsEntitled(z)
         /\ \A op, s : Told(w, op, s) => Told(z, op, s)
         /\ Told(z, r.op, t)
         /\ \E i \in DOMAIN z.trail : z.trail[i] = Entry(r, t)
         /\ \A x : (\E i \in DOMAIN w.trail : w.trail[i] = x) => \E i \in DOMAIN z.trail : z.trail[i] = x
<1> DEFINE e == Entry(r, t)
<1>1. e.op = r.op /\ e.actor = r.user.id /\ e.tenant = t
  BY DEF Entry
<1>2. /\ \A op, s : Told(z, op, s) <=> Told(w, op, s) \/ (e.op = op /\ e.tenant = s)
      /\ \A i \in DOMAIN w.trail : i \in DOMAIN z.trail /\ z.trail[i] = w.trail[i]
      /\ \E i \in DOMAIN z.trail : z.trail[i] = e
      /\ \A i \in DOMAIN z.trail : i \in DOMAIN w.trail \/ z.trail[i] = e
  <2> HIDE DEF e
  <2>1. z.trail = Append(w.trail, e)
    BY DEF e
  <2> QED
    BY <2>1, TrailGrows
<1>3. ActorsEntitled(z)
  <2> SUFFICES ASSUME NEW i \in DOMAIN z.trail, NEW u \in Users, z.trail[i].actor = u.id
               PROVE  \/ IsSuper(u)
                      \/ /\ u.role = "tenant-admin" /\ z.trail[i].tenant = u.tenant
                         /\ z.trail[i].op \notin Platform
    BY DEF ActorsEntitled
  <2>1. CASE i \in DOMAIN w.trail
    BY <2>1, <1>2 DEF Accounted, ActorsEntitled
  <2>2. CASE z.trail[i] = e
    <3>1. u = r.user
      BY <2>2, <1>1, AskedOK, ServiceAssumption
    <3> QED
      BY <2>2, <3>1, <1>1 DEF Manages
  <2> QED
    BY <2>1, <2>2, <1>2
<1> QED
  BY <1>1, <1>2, <1>3

\* One part of a world replaced by another.
LEMMA Replaced ==
  ASSUME NEW w, w = [tenants |-> w.tenants, cached |-> w.cached, rows |-> w.rows,
                     trail |-> w.trail, quality |-> w.quality],
         NEW a
  PROVE  /\ [w EXCEPT !.rows = a] =
              [tenants |-> w.tenants, cached |-> w.cached, rows |-> a,
               trail |-> w.trail, quality |-> w.quality]
         /\ [w EXCEPT !.trail = a] =
              [tenants |-> w.tenants, cached |-> w.cached, rows |-> w.rows,
               trail |-> a, quality |-> w.quality]
         /\ [w EXCEPT !.tenants = a] =
              [tenants |-> a, cached |-> w.cached, rows |-> w.rows,
               trail |-> w.trail, quality |-> w.quality]
         /\ [w EXCEPT !.quality = a] =
              [tenants |-> w.tenants, cached |-> w.cached, rows |-> w.rows,
               trail |-> w.trail, quality |-> a]
         /\ [w EXCEPT !.cached = a] =
              [tenants |-> w.tenants, cached |-> a, rows |-> w.rows,
               trail |-> w.trail, quality |-> w.quality]
OBVIOUS

\* Each change leaves a whole world: ASSUME in parts, the tenants only growing.
LEMMA EntryWhole ==
  ASSUME NEW w, WorldOK(w), NEW r \in Asked, NEW y, NEW t \in DOMAIN y.tenants,
         y = [tenants |-> y.tenants, cached |-> y.cached, rows |-> y.rows,
              trail |-> y.trail, quality |-> y.quality],
         y.trail = w.trail, DOMAIN w.tenants \subseteq DOMAIN y.tenants,
         DOMAIN y.tenants \subseteq Slugs,
         y.tenants \in [DOMAIN y.tenants -> [status : Statuses, gate : Settings \cup {Absent}]],
         y.cached = w.cached,
         y.rows \subseteq w.rows \cup [kind : Kinds, id : Ids, tenant : DOMAIN y.tenants,
                                       owner : Names \cup {Absent}, active : BOOLEAN],
         y.quality \in [Ids -> Settings \cup {Absent}]
  PROVE  WorldOK(y) /\ WorldOK(Audited(y, r, t))
<1> DEFINE z == Audited(y, r, t)
<1>1. /\ z.tenants = y.tenants /\ z.cached = y.cached /\ z.rows = y.rows
      /\ z.quality = y.quality /\ z.trail = Append(w.trail, Entry(r, t))
      /\ z = [tenants |-> z.tenants, cached |-> z.cached, rows |-> z.rows,
              trail |-> z.trail, quality |-> z.quality]
  <2>1. z = [y EXCEPT !.trail = Append(w.trail, Entry(r, t))]
    BY DEF Audited
  <2>2. z = [tenants |-> y.tenants, cached |-> y.cached, rows |-> y.rows,
             trail |-> Append(w.trail, Entry(r, t)), quality |-> y.quality]
    <3> HIDE DEF z
    <3> QED BY <2>1, Replaced
  <2> HIDE DEF z
  <2> QED
    BY <2>2
<1>2. Entry(r, t) \in Entries(y)
  BY AskedOK DEF Entry, Entries
<1>3. w.trail \in Seq(Entries(y))
  <2>1. w.trail \in Seq(Entries(w)) /\ Entries(w) \subseteq Entries(y)
    BY DEF WorldOK, Entries
  <2> HIDE DEF z
  <2> QED
    BY <2>1
<1>4. Append(w.trail, Entry(r, t)) \in Seq(Entries(y))
  BY <1>2, <1>3
<1>5. y.rows \subseteq [kind : Kinds, id : Ids, tenant : DOMAIN y.tenants,
                        owner : Names \cup {Absent}, active : BOOLEAN]
  BY DEF WorldOK
<1>6. y.cached \in DOMAIN y.tenants \cup {Absent}
  BY DEF WorldOK
<1>7. WorldOK(y)
  BY <1>3, <1>5, <1>6 DEF WorldOK, Entries
<1>8. WorldOK(z)
  <2> HIDE DEF z
  <2> QED
    BY <1>1, <1>4, <1>5, <1>6 DEF WorldOK, Entries
<1> QED
  BY <1>7, <1>8

LEMMA RemovedKeeps ==
  ASSUME NEW w, WorldOK(w), Accounted(w), NEW rows \in SUBSET w.rows
  PROVE  WorldOK(Removed(w, rows)) /\ Accounted(Removed(w, rows))
<1> DEFINE y == Removed(w, rows)
<1>1. /\ y.tenants = w.tenants /\ y.cached = w.cached /\ y.rows = w.rows \ rows
      /\ y.trail = w.trail /\ y.quality = w.quality
      /\ y = [tenants |-> y.tenants, cached |-> y.cached, rows |-> y.rows,
              trail |-> y.trail, quality |-> y.quality]
  <2>1. y = [w EXCEPT !.rows = w.rows \ rows]
    BY DEF Removed
  <2> HIDE DEF y
  <2>2. y = [tenants |-> w.tenants, cached |-> w.cached, rows |-> w.rows \ rows,
             trail |-> w.trail, quality |-> w.quality]
    BY <2>1, Replaced DEF WorldOK
  <2> QED
    BY <2>2
<1> HIDE DEF y
<1>2. WorldOK(y)
  BY <1>1 DEF WorldOK
<1>3. Accounted(y)
  BY <1>1, AccountedSame
<1> QED
  BY <1>2, <1>3 DEF y

LEMMA AddedFacts ==
  ASSUME NEW w, WorldOK(w), NEW r \in Asked, NEW kind \in {"invite", "feedback"},
         NEW t \in DOMAIN w.tenants, r.op \in NamesRow
  PROVE  LET y == Added(w, kind, r, t)
             x == [kind |-> kind, id |-> r.id, tenant |-> t, owner |-> r.user.id, active |-> TRUE]
         IN  /\ y.tenants = w.tenants /\ y.cached = w.cached /\ y.rows = w.rows \cup {x}
             /\ y.trail = w.trail /\ y.quality = w.quality
             /\ y = [tenants |-> y.tenants, cached |-> y.cached, rows |-> y.rows,
                     trail |-> y.trail, quality |-> y.quality]
             /\ x \in [kind : Kinds, id : Ids, tenant : DOMAIN w.tenants,
                       owner : Names \cup {Absent}, active : BOOLEAN]
             /\ WorldOK(y)
<1> DEFINE y == Added(w, kind, r, t)
           x == [kind |-> kind, id |-> r.id, tenant |-> t, owner |-> r.user.id, active |-> TRUE]
<1>1. /\ y.tenants = w.tenants /\ y.cached = w.cached /\ y.rows = w.rows \cup {x}
      /\ y.trail = w.trail /\ y.quality = w.quality
      /\ y = [tenants |-> y.tenants, cached |-> y.cached, rows |-> y.rows,
              trail |-> y.trail, quality |-> y.quality]
  <2>1. y = [w EXCEPT !.rows = w.rows \cup {x}]
    BY DEF Added
  <2> HIDE DEF y, x
  <2>2. y = [tenants |-> w.tenants, cached |-> w.cached, rows |-> w.rows \cup {x},
             trail |-> w.trail, quality |-> w.quality]
    BY <2>1, Replaced DEF WorldOK
  <2> QED
    BY <2>2
<1>2. x \in [kind : Kinds, id : Ids, tenant : DOMAIN w.tenants,
             owner : Names \cup {Absent}, active : BOOLEAN]
  BY AskedOK DEF Kinds
<1>3. WorldOK(y)
  <2> HIDE DEF y, x
  <2> QED
    BY <1>1, <1>2 DEF WorldOK
<1> QED
  BY <1>1, <1>2, <1>3

\* Feedback is nobody's account.
LEMMA FeedbackAccounts ==
  ASSUME NEW w, WorldOK(w), Accounted(w), NEW r \in Asked, r.op = "Feedback",
         NEW t \in DOMAIN w.tenants
  PROVE  LET y == Added(w, "feedback", r, t) IN WorldOK(y) /\ Accounted(y)
<1> DEFINE y == Added(w, "feedback", r, t)
           x == [kind |-> "feedback", id |-> r.id, tenant |-> t, owner |-> r.user.id, active |-> TRUE]
<1>1. /\ y.tenants = w.tenants /\ y.rows = w.rows \cup {x} /\ y.trail = w.trail
      /\ y.quality = w.quality /\ WorldOK(y)
  BY AddedFacts DEF NamesRow
<1>2. x.kind = "feedback"
  OBVIOUS
<1> HIDE DEF y, x
<1>3. Accounted(y)
  BY <1>1, <1>2 DEF Accounted, TenantsCreated, SettingsTold, RowsTold, ActorsEntitled,
                    DocumentsApart, Told
<1> QED
  BY <1>1, <1>3 DEF y

\* The entry that a change of an administrator leaves, beside the rest of the world.
LEMMA AuditedFacts ==
  ASSUME NEW y, y = [tenants |-> y.tenants, cached |-> y.cached, rows |-> y.rows,
                     trail |-> y.trail, quality |-> y.quality],
         NEW r, NEW t
  PROVE  LET z == Audited(y, r, t)
         IN  /\ z.tenants = y.tenants /\ z.rows = y.rows /\ z.quality = y.quality
             /\ z.trail = Append(y.trail, Entry(r, t))
<1> DEFINE z == Audited(y, r, t)
<1>1. z = [y EXCEPT !.trail = Append(y.trail, Entry(r, t))]
  BY DEF Audited
<1>2. z = [tenants |-> y.tenants, cached |-> y.cached, rows |-> y.rows,
           trail |-> Append(y.trail, Entry(r, t)), quality |-> y.quality]
  <2> HIDE DEF z
  <2> QED BY <1>1, Replaced
<1> QED
  BY <1>2

LEMMA AuditedWhole ==
  ASSUME NEW y, WorldOK(y), NEW r \in Asked, NEW t \in DOMAIN y.tenants
  PROVE  /\ WorldOK(Audited(y, r, t))
         /\ Audited(y, r, t).tenants = y.tenants /\ Audited(y, r, t).rows = y.rows
         /\ Audited(y, r, t).quality = y.quality
         /\ Audited(y, r, t).trail = Append(y.trail, Entry(r, t))
<1>1. y = [tenants |-> y.tenants, cached |-> y.cached, rows |-> y.rows,
           trail |-> y.trail, quality |-> y.quality]
  BY DEF WorldOK
<1>2. /\ y.tenants \in [DOMAIN y.tenants -> [status : Statuses, gate : Settings \cup {Absent}]]
      /\ DOMAIN y.tenants \subseteq Slugs /\ y.quality \in [Ids -> Settings \cup {Absent}]
  BY DEF WorldOK
<1>3. WorldOK(Audited(y, r, t))
  BY <1>1, <1>2, EntryWhole
<1> QED
  BY <1>1, <1>3, AuditedFacts

LEMMA ManagedKeeps ==
  ASSUME NEW w, WorldOK(w), Accounted(w), NEW r \in Asked, NEW t \in DOMAIN w.tenants,
         NEW z, Managed(w, r, t, z)
  PROVE  WorldOK(z) /\ Accounted(z)
<1>0. Manages(r.user, t)
  BY DEF Managed
<1>1. CASE r.op = "DeleteDocument"
  <2>1. PICK rows \in SUBSET w.rows : z = Audited(Removed(w, rows), r, t)
    BY <1>1 DEF Managed
  <2> DEFINE y == Removed(w, rows)
  <2>2. WorldOK(y) /\ Accounted(y)
    BY RemovedKeeps
  <2>3. y.tenants = w.tenants
    BY DEF Removed, WorldOK
  <2> HIDE DEF y
  <2>4. z = Audited(y, r, t)
    BY <2>1 DEF y
  <2>5. WorldOK(z)
    BY <2>2, <2>3, <2>4, AuditedWhole
  <2>6. /\ z.tenants = y.tenants /\ z.rows = y.rows /\ z.quality = y.quality
        /\ z.trail = Append(y.trail, Entry(r, t))
    BY <2>2, <2>3, <2>4, AuditedWhole
  <2>7. r.op \notin Platform
    BY <1>1 DEF Platform
  <2>8. /\ ActorsEntitled(z) /\ \A op, s : Told(y, op, s) => Told(z, op, s)
        /\ \A x : (\E i \in DOMAIN y.trail : y.trail[i] = x) => \E i \in DOMAIN z.trail : z.trail[i] = x
    BY <1>0, <2>2, <2>6, <2>7, EntryAccounts
  <2> QED
    BY <2>2, <2>5, <2>6, <2>8
       DEF Accounted, TenantsCreated, SettingsTold, RowsTold, DocumentsApart
<1>2. CASE r.op = "IssueInvite"
  <2> DEFINE y == Added(w, "invite", r, t)
             a == [kind |-> "invite", id |-> r.id, tenant |-> t, owner |-> r.user.id, active |-> TRUE]
  <2>1. z = Audited(y, r, t)
    BY <1>2 DEF Managed
  <2>2. /\ y.tenants = w.tenants /\ y.cached = w.cached /\ y.rows = w.rows \cup {a}
        /\ y.trail = w.trail /\ y.quality = w.quality /\ WorldOK(y)
    BY <1>2, AddedFacts DEF NamesRow
  <2>3. a.kind = "invite" /\ a.owner = r.user.id /\ a.tenant = t
    OBVIOUS
  <2>4. r.op \notin Platform /\ Entry(r, t) = [op |-> "IssueInvite", actor |-> a.owner, tenant |-> a.tenant]
    BY <1>2 DEF Platform, Entry
  <2> HIDE DEF y, a
  <2>5. WorldOK(z)
    BY <2>1, <2>2, AuditedWhole
  <2>6. /\ z.tenants = w.tenants /\ z.rows = w.rows \cup {a} /\ z.quality = w.quality
        /\ z.trail = Append(w.trail, Entry(r, t))
    BY <2>1, <2>2, AuditedWhole
  <2>7. /\ ActorsEntitled(z) /\ \A op, s : Told(w, op, s) => Told(z, op, s)
        /\ \E i \in DOMAIN z.trail : z.trail[i] = Entry(r, t)
        /\ \A x : (\E i \in DOMAIN w.trail : w.trail[i] = x) => \E i \in DOMAIN z.trail : z.trail[i] = x
    <3>1. IsSuper(r.user) \/ (Manages(r.user, t) /\ r.op \notin Platform)
      BY <1>0, <2>4
    <3> QED
      BY <2>6, <3>1, EntryAccounts
  <2>8. RowsTold(z)
    BY <2>3, <2>4, <2>6, <2>7 DEF Accounted, RowsTold
  <2> QED
    BY <2>3, <2>5, <2>6, <2>7, <2>8 DEF Accounted, TenantsCreated, SettingsTold, DocumentsApart
<1>3. CASE r.op = "ComputeQuality"
  <2> DEFINE q == [d \in DOMAIN w.quality |-> IF d = r.id THEN r.value ELSE w.quality[d]]
             y == [w EXCEPT !.quality = q]
  <2>1. z = Audited(y, r, t)
    BY <1>3 DEF Managed
  <2>2. PICK b \in w.rows : b.kind = "document" /\ b.id = r.id /\ b.tenant = t
    BY <1>3 DEF Managed
  <2>3. q \in [Ids -> Settings \cup {Absent}] /\ \A d \in Ids \ {r.id} : q[d] = w.quality[d]
    BY <1>3, AskedOK DEF WorldOK, Bodies
  <2> HIDE DEF q
  <2>4. /\ y.tenants = w.tenants /\ y.cached = w.cached /\ y.rows = w.rows
        /\ y.trail = w.trail /\ y.quality = q
        /\ y = [tenants |-> y.tenants, cached |-> y.cached, rows |-> y.rows,
                trail |-> y.trail, quality |-> y.quality]
    <3>1. y = [tenants |-> w.tenants, cached |-> w.cached, rows |-> w.rows,
               trail |-> w.trail, quality |-> q]
      BY Replaced DEF WorldOK
    <3> HIDE DEF y
    <3> QED BY <3>1
  <2> HIDE DEF y
  <2>5. WorldOK(z)
    <3>1. WorldOK(y)
      BY <2>3, <2>4 DEF WorldOK
    <3> QED
      BY <2>1, <2>4, <3>1, AuditedWhole
  <2>6. /\ z.tenants = w.tenants /\ z.rows = w.rows /\ z.quality = q
        /\ z.trail = Append(w.trail, Entry(r, t))
    BY <2>1, <2>4, AuditedFacts
  <2>7. r.op \notin Platform
    BY <1>3 DEF Platform
  <2>8. /\ ActorsEntitled(z) /\ \A op, s : Told(w, op, s) => Told(z, op, s)
        /\ Told(z, "ComputeQuality", t)
        /\ \A x : (\E i \in DOMAIN w.trail : w.trail[i] = x) => \E i \in DOMAIN z.trail : z.trail[i] = x
    <3>1. IsSuper(r.user) \/ (Manages(r.user, t) /\ r.op \notin Platform)
      BY <1>0, <2>7
    <3>2. /\ ActorsEntitled(z) /\ \A op, s : Told(w, op, s) => Told(z, op, s)
          /\ Told(z, r.op, t)
          /\ \A x : (\E i \in DOMAIN w.trail : w.trail[i] = x) => \E i \in DOMAIN z.trail : z.trail[i] = x
      BY <2>6, <3>1, EntryAccounts
    <3> QED
      BY <1>3, <3>2
  <2>9. ASSUME NEW x \in w.rows, x.kind = "document", q[x.id] # Absent
        PROVE  Told(z, "ComputeQuality", x.tenant)
    <3>1. CASE x.id = r.id
      BY <2>2, <2>8, <2>9, <3>1 DEF Accounted, DocumentsApart
    <3>2. CASE x.id # r.id
      <4>1. q[x.id] = w.quality[x.id]
        BY <2>3, <3>2 DEF WorldOK
      <4> QED
        BY <2>8, <2>9, <4>1 DEF Accounted, RowsTold
    <3> QED
      BY <3>1, <3>2
  <2>10. RowsTold(z)
    BY <2>6, <2>8, <2>9 DEF Accounted, RowsTold
  <2> QED
    BY <2>5, <2>6, <2>8, <2>10 DEF Accounted, TenantsCreated, SettingsTold, DocumentsApart
<1> QED
  BY <1>1, <1>2, <1>3 DEF Managed

LEMMA RulerAccounts ==
  ASSUME NEW w, WorldOK(w), Accounted(w), NEW r \in Asked, IsSuper(r.user), NEW t, NEW z,
         z.trail = Append(w.trail, Entry(r, t))
  PROVE  /\ ActorsEntitled(z)
         /\ \A op, s : Told(w, op, s) => Told(z, op, s)
         /\ Told(z, r.op, t)
         /\ \A x : (\E i \in DOMAIN w.trail : w.trail[i] = x) => \E i \in DOMAIN z.trail : z.trail[i] = x
BY EntryAccounts, Z3

\* A super-admin's change of the tenants: what is new in them is told of by the entry.
LEMMA TenantsKeep ==
  ASSUME NEW w, WorldOK(w), Accounted(w), NEW r \in Asked, IsSuper(r.user), NEW s,
         NEW tt, s \in DOMAIN tt, DOMAIN w.tenants \subseteq DOMAIN tt, DOMAIN tt \subseteq Slugs,
         tt \in [DOMAIN tt -> [status : Statuses, gate : Settings \cup {Absent}]],
         NEW y, y = [tenants |-> tt, cached |-> w.cached, rows |-> w.rows,
                     trail |-> w.trail, quality |-> w.quality],
         \A t \in DOMAIN tt : t \in DOMAIN w.tenants \/ (t = s /\ r.op = "CreateTenant"),
         \A t \in DOMAIN tt :
           /\ tt[t].status = "active" \/ (t = s /\ r.op = "UpdateStatus")
              \/ (t \in DOMAIN w.tenants /\ tt[t].status = w.tenants[t].status)
           /\ tt[t].gate = Absent \/ (t = s /\ r.op = "SetGate")
              \/ (t \in DOMAIN w.tenants /\ tt[t].gate = w.tenants[t].gate)
  PROVE  WorldOK(Audited(y, r, s)) /\ Accounted(Audited(y, r, s))
<1> DEFINE z == Audited(y, r, s)
<1>1. /\ y.tenants = tt /\ y.cached = w.cached /\ y.rows = w.rows
      /\ y.trail = w.trail /\ y.quality = w.quality
      /\ y = [tenants |-> y.tenants, cached |-> y.cached, rows |-> y.rows,
              trail |-> y.trail, quality |-> y.quality]
  OBVIOUS
<1>3. y.rows \subseteq w.rows /\ y.quality \in [Ids -> Settings \cup {Absent}]
  BY <1>1 DEF WorldOK
<1>4. WorldOK(z)
  BY <1>1, <1>3, EntryWhole
<1>5. /\ z.tenants = tt /\ z.rows = w.rows /\ z.quality = w.quality
      /\ z.trail = Append(w.trail, Entry(r, s))
  BY <1>1, AuditedFacts
<1> HIDE DEF z
<1>6. /\ ActorsEntitled(z)
      /\ \A op, t : Told(w, op, t) => Told(z, op, t)
      /\ Told(z, r.op, s)
      /\ \A x : (\E i \in DOMAIN w.trail : w.trail[i] = x) => \E i \in DOMAIN z.trail : z.trail[i] = x
  BY <1>5, RulerAccounts, Z3
<1>7. TenantsCreated(z)
  BY <1>5, <1>6 DEF Accounted, TenantsCreated
<1>8. SettingsTold(z)
  BY <1>5, <1>6 DEF Accounted, SettingsTold
<1>9. RowsTold(z) /\ DocumentsApart(z)
  BY <1>5, <1>6 DEF Accounted, RowsTold, DocumentsApart
<1> QED
  BY <1>4, <1>6, <1>7, <1>8, <1>9 DEF Accounted, z

LEMMA RuledKeeps ==
  ASSUME NEW w, WorldOK(w), Accounted(w), NEW r \in Asked, NEW t \in DOMAIN w.tenants,
         NEW z, Ruled(w, r, t, z)
  PROVE  WorldOK(z) /\ Accounted(z)
<1>1. w.tenants \in [DOMAIN w.tenants -> [status : Statuses, gate : Settings \cup {Absent}]]
      /\ DOMAIN w.tenants \subseteq Slugs
  BY DEF WorldOK
<1>2. ASSUME NEW row \in [status : Statuses, gate : Settings \cup {Absent}],
             z = Audited([w EXCEPT !.tenants = [w.tenants EXCEPT ![t] = row]], r, t),
             \/ r.op = "UpdateStatus" /\ row.gate = w.tenants[t].gate
             \/ r.op = "SetGate" /\ row.status = w.tenants[t].status
      PROVE  WorldOK(z) /\ Accounted(z)
  <2> DEFINE tt == [w.tenants EXCEPT ![t] = row]
             y  == [w EXCEPT !.tenants = tt]
  <2>1. /\ DOMAIN tt = DOMAIN w.tenants /\ tt[t] = row
        /\ \A s \in DOMAIN w.tenants \ {t} : tt[s] = w.tenants[s]
        /\ tt \in [DOMAIN tt -> [status : Statuses, gate : Settings \cup {Absent}]]
    BY <1>1
  <2>2. z = Audited(y, r, t)
    BY <1>2
  <2>5. y = [tenants |-> tt, cached |-> w.cached, rows |-> w.rows,
             trail |-> w.trail, quality |-> w.quality]
    <3> HIDE DEF tt
    <3> QED BY Replaced DEF WorldOK
  <2> HIDE DEF tt, y
  <2>3. \A s \in DOMAIN tt :
          /\ tt[s].status = "active" \/ (s = t /\ r.op = "UpdateStatus")
             \/ (s \in DOMAIN w.tenants /\ tt[s].status = w.tenants[s].status)
          /\ tt[s].gate = Absent \/ (s = t /\ r.op = "SetGate")
             \/ (s \in DOMAIN w.tenants /\ tt[s].gate = w.tenants[s].gate)
    BY <1>2, <2>1
  <2>4. IsSuper(r.user)
    BY DEF Ruled
  <2> QED
    <3>1. /\ t \in DOMAIN tt /\ DOMAIN w.tenants \subseteq DOMAIN tt /\ DOMAIN tt \subseteq Slugs
          /\ tt \in [DOMAIN tt -> [status : Statuses, gate : Settings \cup {Absent}]]
          /\ \A s \in DOMAIN tt : s \in DOMAIN w.tenants \/ (s = t /\ r.op = "CreateTenant")
      BY <1>1, <2>1
    <3>2. WorldOK(Audited(y, r, t)) /\ Accounted(Audited(y, r, t))
      BY <2>3, <2>4, <2>5, <3>1, TenantsKeep, Z3
    <3> QED
      BY <2>2, <3>2
<1>3. CASE r.op = "UpdateStatus"
  <2>1. r.value \in Statuses
        /\ z = Audited([w EXCEPT !.tenants = [w.tenants EXCEPT ![t] = [w.tenants[t] EXCEPT !.status = r.value]]],
                       r, t)
    BY <1>3 DEF Ruled
  <2> DEFINE row == [w.tenants[t] EXCEPT !.status = r.value]
  <2>2. row \in [status : Statuses, gate : Settings \cup {Absent}] /\ row.gate = w.tenants[t].gate
    BY <1>1, <2>1
  <2> QED
    BY <1>2, <1>3, <2>1, <2>2
<1>4. CASE r.op = "SetGate"
  <2>1. z = Audited([w EXCEPT !.tenants = [w.tenants EXCEPT ![t] = [w.tenants[t] EXCEPT !.gate = r.value]]],
                    r, t)
    BY <1>4 DEF Ruled
  <2> DEFINE row == [w.tenants[t] EXCEPT !.gate = r.value]
  <2>2. row \in [status : Statuses, gate : Settings \cup {Absent}] /\ row.status = w.tenants[t].status
    BY <1>1, <1>4, AskedOK DEF Bodies
  <2> QED
    BY <1>2, <1>4, <2>1, <2>2
<1> QED
  BY <1>3, <1>4 DEF Ruled

LEMMA FoundedKeeps ==
  ASSUME NEW w, WorldOK(w), Accounted(w), NEW r \in Asked, NEW z, Founded(w, r, z)
  PROVE  WorldOK(z) /\ Accounted(z)
<1> DEFINE s == r.slug
           tt == [t \in DOMAIN w.tenants \cup {s} |->
                    IF t = s THEN [status |-> "active", gate |-> Absent] ELSE w.tenants[t]]
           y == [w EXCEPT !.tenants = tt]
<1>1. /\ IsSuper(r.user) /\ r.op = "CreateTenant" /\ s \in Slugs \ DOMAIN w.tenants
      /\ z = Audited(y, r, s)
  BY DEF Founded
<1>2. /\ DOMAIN tt = DOMAIN w.tenants \cup {s}
      /\ \A t \in DOMAIN w.tenants : tt[t] = w.tenants[t]
      /\ tt[s] = [status |-> "active", gate |-> Absent]
      /\ DOMAIN tt \subseteq Slugs
      /\ tt \in [DOMAIN tt -> [status : Statuses, gate : Settings \cup {Absent}]]
  BY <1>1 DEF WorldOK, Statuses
<1> HIDE DEF tt
<1>4. y = [tenants |-> tt, cached |-> w.cached, rows |-> w.rows,
           trail |-> w.trail, quality |-> w.quality]
  BY Replaced DEF WorldOK
<1> HIDE DEF y
<1>3. tt[s].status = "active" /\ tt[s].gate = Absent
  BY <1>2
<1> QED
  <2>1. /\ s \in DOMAIN tt /\ DOMAIN w.tenants \subseteq DOMAIN tt /\ DOMAIN tt \subseteq Slugs
        /\ tt \in [DOMAIN tt -> [status : Statuses, gate : Settings \cup {Absent}]]
        /\ \A t \in DOMAIN tt : t \in DOMAIN w.tenants \/ (t = s /\ r.op = "CreateTenant")
    BY <1>1, <1>2
  <2>2. \A t \in DOMAIN tt :
          /\ tt[t].status = "active" \/ (t = s /\ r.op = "UpdateStatus")
             \/ (t \in DOMAIN w.tenants /\ tt[t].status = w.tenants[t].status)
          /\ tt[t].gate = Absent \/ (t = s /\ r.op = "SetGate")
             \/ (t \in DOMAIN w.tenants /\ tt[t].gate = w.tenants[t].gate)
    BY <1>2, <1>3
  <2>3. WorldOK(Audited(y, r, s)) /\ Accounted(Audited(y, r, s))
    BY <1>1, <1>4, <2>1, <2>2, TenantsKeep, Z3
  <2> QED
    BY <1>1, <2>3

\* Whatever an answer leaves of a world.
LEMMA OutcomeKeeps ==
  ASSUME NEW w, WorldOK(w), Accounted(w), NEW r \in Asked, NEW z, Outcome(w, r, z)
  PROVE  WorldOK(z) /\ Accounted(z)
BY RemovedKeeps, FeedbackAccounts, ManagedKeeps, RuledKeeps, FoundedKeeps DEF Outcome

LEMMA AnswerKeeps ==
  ASSUME ServiceInv, NEW r \in Asked, Answer(r)
  PROVE  ServiceInv'
<1>1. /\ WorldOK(world) /\ Accounted(world) /\ world' = Handle(world, r).world
      /\ r.user.tenant \in DOMAIN world.tenants \cup {Absent}
  BY DEF ServiceInv, Answer, CanAsk
<1>2. PICK v \in {world, Warmed(world, r)} : Outcome(v, r, world')
  BY <1>1, Outcomes
<1>3. WorldOK(v) /\ Accounted(v)
  <2>1. /\ WorldOK(Warmed(world, r)) /\ Accounted(Warmed(world, r))
    BY <1>1, WarmedWhole, AccountedSame
  <2> QED
    BY <1>1, <2>1
<1>4. WorldOK(world') /\ Accounted(world')
  BY <1>2, <1>3, OutcomeKeeps
<1> QED
  BY <1>4 DEF ServiceInv

\* A row from a handler of another module.
LEMMA StoreKeeps ==
  ASSUME ServiceInv, NEW x \in New, Store(x)
  PROVE  ServiceInv'
<1> DEFINE w == world
           kept == {IF x.kind = "program" /\ y.kind = "program" /\ y.tenant = x.tenant
                    THEN [y EXCEPT !.active = FALSE] ELSE y : y \in w.rows}
           q == IF x.kind = "document" THEN [w.quality EXCEPT ![x.id] = Absent] ELSE w.quality
           Row == [kind : Kinds, id : Ids, tenant : DOMAIN w.tenants,
                   owner : Names \cup {Absent}, active : BOOLEAN]
<1>1. /\ WorldOK(w) /\ Accounted(w)
  BY DEF ServiceInv
<1>2. x \in Row /\ x.kind \in Stored
  <2>1. x \in New
    OBVIOUS
  <2>2. PICK k \in Stored : x \in [kind : {k}, id : Ids, tenant : DOMAIN world.tenants,
                                   owner : IF k = "chat" THEN Names ELSE {Absent}, active : {TRUE}]
    BY <2>1 DEF New
  <2> QED
    BY <2>2 DEF Stored, Kinds
<1>3. \A y \in w.rows : y \in Row
  BY <1>1 DEF WorldOK
<1>4. world' = [tenants |-> w.tenants, cached |-> w.cached, rows |-> kept \cup {x},
                trail |-> w.trail, quality |-> q]
  <2>1. world' = [[world EXCEPT !.rows = kept \cup {x}] EXCEPT !.quality = q]
    BY DEF Store
  <2>2. w = [tenants |-> w.tenants, cached |-> w.cached, rows |-> w.rows,
             trail |-> w.trail, quality |-> w.quality]
    BY <1>1 DEF WorldOK
  <2> HIDE DEF kept, q, w
  <2>3. [w EXCEPT !.rows = kept \cup {x}] =
          [tenants |-> w.tenants, cached |-> w.cached, rows |-> kept \cup {x},
           trail |-> w.trail, quality |-> w.quality]
    BY <2>2, Replaced
  <2> QED
    BY <2>1, <2>3 DEF w
<1>5. /\ \A z \in kept : z \in w.rows \/ (z.kind = "program" /\ z \in Row)
      /\ \A y \in w.rows : y.kind = x.kind => y.id # x.id
  BY <1>3 DEF Store
<1>6. /\ q \in [Ids -> Settings \cup {Absent}]
      /\ x.kind = "document" => q[x.id] = Absent
      /\ \A d \in Ids : (x.kind = "document" /\ d = x.id) \/ q[d] = w.quality[d]
  BY <1>1, <1>2 DEF WorldOK
<1> HIDE DEF kept, q, w
<1>7. /\ world'.tenants = w.tenants /\ world'.rows = kept \cup {x} /\ world'.trail = w.trail
      /\ world'.quality = q /\ world'.cached = w.cached
  BY <1>4
<1>8. WorldOK(world')
  BY <1>1, <1>2, <1>3, <1>4, <1>5, <1>6, <1>7 DEF WorldOK
<1>9. ASSUME NEW z \in kept \cup {x}, z.kind \in {"document", "invite"}
      PROVE  z \in w.rows \/ (z = x /\ x.kind = "document")
  BY <1>2, <1>5, <1>9 DEF Stored
<1>10. RowsTold(world')
  <2>1. ASSUME NEW z \in kept \cup {x}, z.kind = "document", q[z.id] # Absent
        PROVE  Told(w, "ComputeQuality", z.tenant)
    <3>1. z \in w.rows /\ z # x
      BY <1>5, <1>6, <1>9, <2>1
    <3>2. z.id \in Ids /\ (x.kind = "document" => z.id # x.id)
      BY <1>3, <1>5, <2>1, <3>1
    <3> QED
      BY <1>1, <1>6, <2>1, <3>1, <3>2 DEF Accounted, RowsTold
  <2>2. ASSUME NEW z \in kept \cup {x}, z.kind = "invite"
        PROVE  \E i \in DOMAIN w.trail :
                 w.trail[i] = [op |-> "IssueInvite", actor |-> z.owner, tenant |-> z.tenant]
    BY <1>1, <1>9, <2>2 DEF Accounted, RowsTold
  <2> QED
    BY <1>7, <2>1, <2>2 DEF RowsTold, Told
<1>11. DocumentsApart(world')
  BY <1>1, <1>5, <1>7, <1>9 DEF Accounted, DocumentsApart
<1>12. TenantsCreated(world') /\ SettingsTold(world') /\ ActorsEntitled(world')
  BY <1>1, <1>7 DEF Accounted, TenantsCreated, SettingsTold, ActorsEntitled, Told
<1> QED
  BY <1>8, <1>10, <1>11, <1>12 DEF ServiceInv, Accounted

LEMMA RestartKeeps ==
  ASSUME ServiceInv, RestartProcess
  PROVE  ServiceInv'
<1>1. /\ WorldOK(world) /\ Accounted(world)
  BY DEF ServiceInv
<1>2. world' = [tenants |-> world.tenants, cached |-> Absent, rows |-> world.rows,
                trail |-> world.trail, quality |-> world.quality]
  BY <1>1, Replaced DEF RestartProcess, WorldOK
<1>3. WorldOK(world')
  BY <1>1, <1>2 DEF WorldOK
<1>4. /\ world'.tenants = world.tenants /\ world'.rows = world.rows
      /\ world'.trail = world.trail /\ world'.quality = world.quality
  BY <1>2
<1>5. Accounted(world')
  BY <1>1, <1>4, AccountedSame
<1> QED
  BY <1>3, <1>5 DEF ServiceInv

LEMMA ServiceStarts == ServiceInit => ServiceInv
<1> SUFFICES ASSUME NEW s \in {Pilot, Legacy},
                    world = [tenants |-> [t \in {s} |-> [status |-> "active", gate |-> Absent]],
                             cached |-> Absent, rows |-> {}, trail |-> << >>,
                             quality |-> [d \in Ids |-> Absent]]
             PROVE  WorldOK(world) /\ Accounted(world)
  BY DEF ServiceInit, ServiceInv
<1>1. /\ world.tenants = [t \in {s} |-> [status |-> "active", gate |-> Absent]]
      /\ world.rows = {} /\ world.trail = << >> /\ world.cached = Absent
      /\ world.quality = [d \in Ids |-> Absent]
  OBVIOUS
<1>2. /\ DOMAIN world.tenants = {s} /\ world.tenants[s] = [status |-> "active", gate |-> Absent]
      /\ s \in Slugs
      /\ world.tenants \in [DOMAIN world.tenants -> [status : Statuses, gate : Settings \cup {Absent}]]
  BY <1>1, SlugsAssumption DEF Statuses
<1>3. WorldOK(world)
  BY <1>1, <1>2 DEF WorldOK
<1>4. DOMAIN world.trail = {}
  BY <1>1
<1>5. Accounted(world)
  BY <1>1, <1>2, <1>4
     DEF Accounted, TenantsCreated, SettingsTold, RowsTold, ActorsEntitled, DocumentsApart
<1> QED
  BY <1>3, <1>5

LEMMA ServiceStep == ServiceInv /\ [ServiceNext]_world => ServiceInv'
<1> SUFFICES ASSUME ServiceInv, [ServiceNext]_world PROVE ServiceInv'
  OBVIOUS
<1>1. CASE UNCHANGED world
  BY <1>1 DEF ServiceInv
<1> QED
  BY <1>1, AnswerKeeps, StoreKeeps, RestartKeeps DEF ServiceNext

\* In any history of requests, stored rows and restarts a world stays whole: no row,
\* cached tenant or entry is of a tenant that does not exist.
THEOREM WorldStaysWhole == ServiceSpec => []WorldTypeOK
<1>1. ServiceInv => WorldTypeOK
  BY DEF ServiceInv, WorldTypeOK
<1> QED
  BY <1>1, ServiceStarts, ServiceStep, PTL DEF ServiceSpec

\* In any world that the service comes to, every request is answered within its
\* tenant, with what its user may see and change, and leaves its trace.
THEOREM AccessAlwaysHolds == ServiceSpec => []AccessHolds
<1>1. ServiceInv => AccessHolds
  <2> SUFFICES ASSUME ServiceInv, NEW r \in Asked, CanAsk(r)
               PROVE  AccessKept(world, r, Handle(world, r))
    BY DEF AccessHolds
  <2>1. Coherent(world) /\ RequestOK(world, r)
    BY WholeCoherent, AskedOK DEF ServiceInv, CanAsk, RequestOK
  <2> QED
    BY <2>1, EveryHandlerKeeps
<1> QED
  BY <1>1, ServiceStarts, ServiceStep, PTL DEF ServiceSpec

\* The audit trail accounts for all tenants, settings, scores and invites, however
\* long the history.
THEOREM TrailAlwaysAccounts == ServiceSpec => []TrailAccounts
<1>1. ServiceInv => TrailAccounts
  BY DEF ServiceInv, Accounted, TrailAccounts
<1> QED
  BY <1>1, ServiceStarts, ServiceStep, PTL DEF ServiceSpec

-----------------------------------------------------------------------------
(* Sessions: revocations, for any number of requests and any bound on the *)
(* version.                                                               *)

(***************************************************************************)
(* Until a revocation writes over an UPDATE that it had not seen, the row  *)
(* holds the highest version there is: no token, and no request under way, *)
(* is ahead of it.                                                         *)
(***************************************************************************)
NothingAhead ==
  ~ stale => /\ \A jv \in tokens : jv <= version
             /\ \A r \in Requests : pc[r] = "read" => held[r] <= version

IInv == TypeOK /\ NothingAhead

LEMMA InitIInv == Init => IInv
<1> SUFFICES ASSUME Init PROVE IInv
  OBVIOUS
<1>1. version = 1 /\ tokens = {1} /\ \A r \in Requests : held[r] = 1
  BY DEF Init
<1>2. TypeOK
  <2>1. pc \in [Requests -> {"idle", "read", "done", "failed"}]
    BY DEF Init
  <2>2. held \in [Requests -> Nat \ {0}]
    BY DEF Init
  <2>3. stale \in BOOLEAN
    BY DEF Init
  <2>4. QED
    BY <1>1, <2>1, <2>2, <2>3 DEF TypeOK
<1>3. NothingAhead
  BY <1>1 DEF NothingAhead
<1>4. QED
  BY <1>2, <1>3 DEF IInv

LEMMA NextVersionGrows ==
  ASSUME NEW v \in Nat \ {0}
  PROVE  NextVersion(v) \in Nat \ {0} /\ NextVersion(v) = v + 1
BY DEF NextVersion

LEMMA IInvStep == IInv /\ [Next]_vars => IInv'
<1> SUFFICES ASSUME IInv, [Next]_vars PROVE IInv'
  OBVIOUS
<1>0. TypeOK /\ NothingAhead
  BY DEF IInv
<1>1. ASSUME NEW r \in Requests, Read(r) PROVE IInv'
  BY <1>0, <1>1 DEF Read, IInv, TypeOK, NothingAhead
<1>2. ASSUME NEW l \in Logins, IssueToken(l) PROVE IInv'
  <2>1. l \in Requests
    BY DEF Requests
  <2>2. QED
    BY <1>0, <1>2, <2>1 DEF IssueToken, IInv, TypeOK, NothingAhead
<1>3. ASSUME NEW r \in Revokes, RevokeSessions(r) PROVE IInv'
  <2>1. r \in Requests /\ held[r] \in Nat \ {0}
    BY <1>0 DEF Requests, TypeOK
  <2>2. version' \in Nat \ {0} /\ version' = held[r] + 1
    BY <1>3, <2>1, NextVersionGrows DEF RevokeSessions
  <2>3. TypeOK'
    BY <1>0, <1>3, <2>1, <2>2 DEF RevokeSessions, TypeOK
  <2>4. ~ stale' => ~ stale /\ version' = version + 1
    BY <1>3, <2>2 DEF RevokeSessions
  <2>5. NothingAhead'
    BY <1>0, <1>3, <2>1, <2>4 DEF RevokeSessions, TypeOK, NothingAhead
  <2>6. QED
    BY <2>3, <2>5 DEF IInv
<1>4. ASSUME BumpVersion PROVE IInv'
  BY <1>0, <1>4 DEF BumpVersion, IInv, TypeOK, NothingAhead
<1>5. ASSUME NEW jv \in tokens, ExpireTokens(jv) PROVE IInv'
  BY <1>0, <1>5 DEF ExpireTokens, IInv, TypeOK, NothingAhead
<1>6. ASSUME NEW r \in Requests, Fail(r) PROVE IInv'
  BY <1>0, <1>6 DEF Fail, IInv, TypeOK, NothingAhead
<1>7. CASE UNCHANGED vars
  BY <1>0, <1>7 DEF vars, IInv, TypeOK, NothingAhead
<1>8. QED
  BY <1>1, <1>2, <1>3, <1>4, <1>5, <1>6, <1>7
  DEF Next, ReadUser, Authenticate, Requests

(***************************************************************************)
(* users.jwt_version, and what handlers have read of it, always is a       *)
(* version that a token can carry: at least 1.                             *)
(***************************************************************************)
THEOREM TypeCorrect == Spec => []TypeOK
<1>1. IInv => TypeOK
  BY DEF IInv
<1>2. QED
  BY InitIInv, IInvStep, <1>1, PTL DEF Spec

(***************************************************************************)
(* The step that ends a revocation, or an operator's UPDATE, puts the row  *)
(* ahead of every token.                                                   *)
(***************************************************************************)
LEMMA NoneLeft ==
  ASSUME IInv, [Next]_vars, ~ stale',
         version' # version \/ \E r \in Revokes : Revoked(r)
  PROVE  \A jv \in tokens : ~ Passes(jv)'
<1>0. /\ version \in Nat \ {0} /\ tokens \subseteq Nat \ {0}
      /\ held \in [Requests -> Nat \ {0}]
      /\ ~ stale => \A jv \in tokens : jv <= version
  BY DEF IInv, TypeOK, NothingAhead
<1>1. ASSUME NEW r \in Revokes, RevokeSessions(r)
      PROVE  ~ stale /\ version' = version + 1
  <2>1. r \in Requests /\ held[r] \in Nat \ {0}
    BY <1>0 DEF Requests
  <2>2. QED
    BY <1>1, <2>1, NextVersionGrows DEF RevokeSessions
<1>2. BumpVersion => ~ stale /\ version' = version + 1
  BY DEF BumpVersion
<1>3. (\E r \in Revokes : RevokeSessions(r)) \/ BumpVersion
  <2>1. ASSUME NEW r \in Requests, Read(r) \/ Fail(r) PROVE FALSE
    <3>1. pc'[r] # "done" /\ version' = version /\ \A x \in Requests \ {r} : pc'[x] = pc[x]
      BY <2>1 DEF Read, Fail, IInv, TypeOK
    <3>2. QED
      BY <3>1 DEF Revoked, Requests
  <2>2. ASSUME NEW l \in Logins, IssueToken(l) PROVE FALSE
    <3>1. version' = version /\ \A r \in Revokes : r # l /\ pc'[r] = pc[r]
      BY <2>2, SessionsAssumption DEF IssueToken, IInv, TypeOK, Requests
    <3>2. QED
      BY <3>1 DEF Revoked
  <2>3. ASSUME NEW jv \in tokens, ExpireTokens(jv) PROVE FALSE
    BY <2>3 DEF ExpireTokens, Revoked
  <2>4. ~ UNCHANGED vars
    BY DEF vars, Revoked
  <2>5. QED
    BY <2>1, <2>2, <2>3, <2>4 DEF Next, ReadUser, Authenticate, Requests
<1>4. ~ stale /\ version' = version + 1
  BY <1>1, <1>2, <1>3
<1>5. QED
  BY <1>0, <1>4 DEF Passes

(***************************************************************************)
(* get_current_user refuses every token issued before a revocation, for as *)
(* long as revocations have not overlapped.                                *)
(***************************************************************************)
THEOREM RevocationHolds == Spec => RevokedStayDead
<1>1. IInv /\ [Next]_vars =>
        [~ stale' /\ (version' # version \/ \E r \in Revokes : Revoked(r)) =>
           \A jv \in tokens : ~ Passes(jv)']_vars
  BY NoneLeft
<1>2. QED
  BY InitIInv, IInvStep, <1>1, PTL DEF Spec, RevokedStayDead

-----------------------------------------------------------------------------
(***************************************************************************)
(* What the invariants need to know of the redeems under way: they have    *)
(* registered nobody yet, and two of them that hold one invite, or one and *)
(* a user that came through its invite, have overlapped.                   *)
(***************************************************************************)
UsersAreDone == \A u \in users : stage[u] = "done"

RivalsOverlap ==
  \A r, x \in Redeems :
    r # x /\ stage[r] \in Underway /\ stage[x] \in Underway /\ code[r] = code[x]
      => r \in overlap /\ x \in overlap

LateOverlap ==
  \A u \in users, r \in Redeems :
    stage[r] \in Underway /\ code[r] = code[u] => r \in overlap /\ u \in overlap

InvitesInv == /\ InvitesTypeOK /\ UsersAreDone
        /\ InviteNamesItsUser /\ OneAccountPerEmail
        /\ RivalsOverlap /\ LateOverlap /\ ReuseOnlyByOverlap

LEMMA InitInvitesInv == InvitesInit => InvitesInv
<1> SUFFICES ASSUME InvitesInit PROVE InvitesInv
  OBVIOUS
<1>1. InvitesTypeOK
  BY DEF InvitesInit, InvitesTypeOK
<1>2. users = {} /\ \A r \in Redeems : stage[r] \notin Underway
  BY DEF InvitesInit, Underway
<1>3. InviteNamesItsUser
  BY <1>2 DEF InvitesInit, InviteNamesItsUser, Joined
<1>4. QED
  BY <1>1, <1>2, <1>3
  DEF InvitesInv, UsersAreDone, OneAccountPerEmail, RivalsOverlap, LateOverlap, ReuseOnlyByOverlap

(***************************************************************************)
(* A step of a redeem that registers nobody, and that does not make it     *)
(* come under way: it is refused, it fails, or it passes a check.          *)
(***************************************************************************)
LEMMA Passing ==
  ASSUME InvitesInv, NEW r \in Redeems, NEW s \in Underway \cup {"refused", "failed"},
         stage[r] # "done", stage[r] \in Underway \/ s \notin Underway,
         stage' = [stage EXCEPT ![r] = s],
         UNCHANGED <<records, tstatus, code, email, overlap>>
  PROVE  InvitesInv'
<1>0. InvitesTypeOK
  BY DEF InvitesInv
<1>1. InvitesTypeOK'
  BY <1>0 DEF InvitesTypeOK, records, Underway
<1>2. /\ UNCHANGED <<users, redeemedBy, code, email, overlap>>
      /\ \A x \in Redeems : stage'[x] \in Underway => stage[x] \in Underway
      /\ \A x \in Redeems : stage[x] = "done" => stage'[x] = "done"
  BY <1>0 DEF InvitesTypeOK, records
<1>3. InviteNamesItsUser' /\ OneAccountPerEmail' /\ ReuseOnlyByOverlap'
  BY <1>2 DEF InvitesInv, InviteNamesItsUser, Joined, OneAccountPerEmail, ReuseOnlyByOverlap
<1>4. users \subseteq Redeems
  BY <1>0 DEF InvitesTypeOK
<1>5. UsersAreDone' /\ RivalsOverlap' /\ LateOverlap'
  BY <1>2, <1>4 DEF InvitesInv, UsersAreDone, RivalsOverlap, LateOverlap
<1>6. QED
  BY <1>1, <1>3, <1>5 DEF InvitesInv

LEMMA LoadStep ==
  ASSUME InvitesInv, NEW r \in Redeems, LoadInvite(r)
  PROVE  InvitesInv'
<1>0. InvitesTypeOK /\ stage[r] = "idle" /\ UNCHANGED <<records, tstatus, code, email>>
  BY DEF InvitesInv, LoadInvite
<1>1. CASE Redeemable(code[r])
  <2>1. /\ stage' = [stage EXCEPT ![r] = "loaded"]
        /\ UNCHANGED <<invite, users, redeemedBy, tstatus, code, email>>
        /\ Redeems \subseteq DOMAIN stage
    BY <1>0, <1>1 DEF LoadInvite, records, InvitesTypeOK
  <2>2. /\ overlap \subseteq overlap'
        /\ overlap' \subseteq overlap \cup Redeems
        /\ \A x \in Rivals(r, code[r]) : r \in overlap' /\ x \in overlap'
    BY <1>1 DEF LoadInvite, Rivals
  <2>3. InvitesTypeOK'
    BY <1>0, <2>1, <2>2 DEF InvitesTypeOK, Underway
  <2>4. /\ \A x \in Redeems \ {r} : stage'[x] = stage[x]
        /\ users \subseteq Redeems
    BY <1>0, <2>1 DEF InvitesTypeOK
  <2>5. \A u \in users : u # r /\ code[u] # code[r]
    <3>1. Joined(code[r]) = {}
      <4>1. code[r] \in Codes /\ redeemedBy[code[r]] = NoUser
        BY <1>0, <1>1 DEF InvitesTypeOK, Redeemable
      <4>2. NoUser \notin Joined(code[r])
        BY <2>4, NoUserAssumption DEF Joined
      <4>3. QED
        BY <4>1, <4>2 DEF InvitesInv, InviteNamesItsUser
    <3>2. QED
      BY <3>1 DEF Joined
  <2>6. InviteNamesItsUser' /\ OneAccountPerEmail' /\ ReuseOnlyByOverlap'
    BY <2>1, <2>2 DEF InvitesInv, InviteNamesItsUser, Joined, OneAccountPerEmail, ReuseOnlyByOverlap
  <2>7. UsersAreDone'
    BY <2>1, <2>4, <2>5 DEF InvitesInv, UsersAreDone
  <2>8. LateOverlap'
    BY <2>1, <2>2, <2>4, <2>5 DEF InvitesInv, LateOverlap
  <2>9. RivalsOverlap'
    <3>1. ASSUME NEW x \in Redeems \ {r}, stage[x] \in Underway, code[x] = code[r]
          PROVE  r \in overlap' /\ x \in overlap'
      BY <2>2, <3>1 DEF Rivals
    <3>2. QED
      BY <2>1, <2>2, <2>4, <3>1 DEF InvitesInv, RivalsOverlap
  <2>10. QED
    BY <2>3, <2>6, <2>7, <2>8, <2>9 DEF InvitesInv
<1>2. CASE ~ Redeemable(code[r])
  <2>1. stage' = [stage EXCEPT ![r] = "refused"] /\ UNCHANGED overlap
    BY <1>2 DEF LoadInvite
  <2>2. QED
    BY <1>0, <2>1, Passing DEF Underway
<1>3. QED
  BY <1>1, <1>2

LEMMA RegisterStep ==
  ASSUME InvitesInv, NEW r \in Redeems, Register(r)
  PROVE  InvitesInv'
<1>0. /\ InvitesTypeOK /\ stage[r] = "checked" /\ UniqueEmail(email[r])
      /\ users' = users \cup {r}
      /\ redeemedBy' = [redeemedBy EXCEPT ![code[r]] = r]
      /\ stage' = [stage EXCEPT ![r] = "done"]
      /\ UNCHANGED <<invite, tstatus, code, email, overlap>>
  BY DEF InvitesInv, Register
<1>1. InvitesTypeOK'
  BY <1>0 DEF InvitesTypeOK
<1>2. /\ stage[r] \in Underway /\ stage'[r] = "done"
      /\ \A x \in Redeems \ {r} : stage'[x] = stage[x]
      /\ users \subseteq Redeems
  BY <1>0 DEF InvitesTypeOK, Underway
<1>3. UsersAreDone'
  BY <1>0, <1>2 DEF InvitesInv, UsersAreDone
<1>4. InviteNamesItsUser'
  <2>1. ASSUME NEW c \in Codes, c # code[r]
        PROVE  Joined(c)' = Joined(c) /\ redeemedBy'[c] = redeemedBy[c]
    BY <1>0, <2>1 DEF Joined, InvitesTypeOK
  <2>2. ASSUME NEW c \in Codes, c = code[r]
        PROVE  Joined(c)' # {} /\ redeemedBy'[c] \in Joined(c)'
    <3>1. r \in {u \in users' : code'[u] = c} /\ redeemedBy'[c] = r
      BY <1>0, <2>2 DEF InvitesTypeOK
    <3>2. QED
      BY <3>1 DEF Joined
  <2>3. \A c \in Codes : IF Joined(c)' = {} THEN redeemedBy'[c] = NoUser
                                           ELSE redeemedBy'[c] \in Joined(c)'
    BY <2>1, <2>2 DEF InvitesInv, InviteNamesItsUser
  <2>4. QED
    BY <2>3 DEF InviteNamesItsUser
<1>5. OneAccountPerEmail'
  BY <1>0 DEF InvitesInv, OneAccountPerEmail, UniqueEmail, Taken
<1>6. ReuseOnlyByOverlap'
  <2>1. \A u \in users : code[u] = code[r] => r \in overlap /\ u \in overlap
    BY <1>2 DEF InvitesInv, LateOverlap
  <2>2. QED
    BY <1>0, <2>1 DEF InvitesInv, ReuseOnlyByOverlap
<1>7. RivalsOverlap'
  BY <1>0, <1>2 DEF InvitesInv, RivalsOverlap, Underway
<1>8. LateOverlap'
  BY <1>0, <1>2 DEF InvitesInv, RivalsOverlap, LateOverlap, Underway
<1>9. QED
  BY <1>1, <1>3, <1>4, <1>5, <1>6, <1>7, <1>8 DEF InvitesInv

(***************************************************************************)
(* The steps that touch neither users nor redeems.                         *)
(***************************************************************************)
LEMMA OtherStep ==
  ASSUME InvitesInv, UNCHANGED <<redeemedBy, users, redeeming>>,
         invite' \in [Codes -> {"none", "fresh", "expired"}],
         tstatus' \in {"active", "read-only"}
  PROVE  InvitesInv'
<1>0. InvitesTypeOK /\ UNCHANGED <<redeemedBy, users, stage, code, email, overlap>>
  BY DEF InvitesInv, redeeming
<1>1. InvitesTypeOK'
  BY <1>0 DEF InvitesTypeOK
<1>2. InviteNamesItsUser' /\ OneAccountPerEmail' /\ ReuseOnlyByOverlap'
  BY <1>0 DEF InvitesInv, InviteNamesItsUser, Joined, OneAccountPerEmail, ReuseOnlyByOverlap
<1>3. UsersAreDone' /\ RivalsOverlap' /\ LateOverlap'
  BY <1>0 DEF InvitesInv, UsersAreDone, RivalsOverlap, LateOverlap
<1>4. QED
  BY <1>1, <1>2, <1>3 DEF InvitesInv

LEMMA InvitesInvStep == InvitesInv /\ [InvitesNext]_invitesVars => InvitesInv'
<1> SUFFICES ASSUME InvitesInv, [InvitesNext]_invitesVars PROVE InvitesInv'
  OBVIOUS
<1>0. InvitesTypeOK
  BY DEF InvitesInv
<1>1. ASSUME NEW c \in Codes, IssueCode(c) \/ Expire(c) PROVE InvitesInv'
  <2>1. /\ UNCHANGED <<redeemedBy, users, redeeming>>
        /\ invite' \in [Codes -> {"none", "fresh", "expired"}]
        /\ tstatus' \in {"active", "read-only"}
    BY <1>0, <1>1 DEF IssueCode, Expire, InvitesTypeOK
  <2>2. QED
    BY <2>1, OtherStep
<1>2. ASSUME NEW s \in {"active", "read-only"}, SetTenantStatus(s) PROVE InvitesInv'
  <2>1. /\ UNCHANGED <<redeemedBy, users, redeeming>>
        /\ invite' \in [Codes -> {"none", "fresh", "expired"}]
        /\ tstatus' \in {"active", "read-only"}
    BY <1>0, <1>2 DEF SetTenantStatus, records, InvitesTypeOK
  <2>2. QED
    BY <2>1, OtherStep
<1>3. ASSUME NEW r \in Redeems, CheckTenant(r) \/ CheckEmail(r) \/ RollBack(r) PROVE InvitesInv'
  <2>1. /\ stage[r] \in Underway
        /\ UNCHANGED <<records, tstatus, code, email, overlap>>
        /\ \E s \in Underway \cup {"refused", "failed"} : stage' = [stage EXCEPT ![r] = s]
    BY <1>3 DEF CheckTenant, CheckEmail, RollBack, Underway
  <2>2. stage[r] # "done"
    BY <2>1 DEF Underway
  <2>3. QED
    BY <2>1, <2>2, Passing
<1>4. CASE UNCHANGED invitesVars
  BY <1>0, <1>4, OtherStep DEF invitesVars, redeeming, InvitesTypeOK
<1>5. QED
  BY <1>1, <1>2, <1>3, <1>4, LoadStep, RegisterStep DEF InvitesNext

(***************************************************************************)
(* The invariant of redeem_invite: what its reads and its transaction      *)
(* keep true between any two of their steps.                               *)
(***************************************************************************)
THEOREM InvitesInvariance == InvitesSpec => []InvitesInv
BY InitInvitesInv, InvitesInvStep, PTL DEF InvitesSpec

(***************************************************************************)
(* The rows redeem_invite writes, and its requests, keep their types.      *)
(***************************************************************************)
THEOREM InvitesTypeCorrect == InvitesSpec => []InvitesTypeOK
<1>1. InvitesInv => InvitesTypeOK
  BY DEF InvitesInv
<1>2. QED
  BY InvitesInvariance, <1>1, PTL

(***************************************************************************)
(* redeem_invite writes user and invite together: a used invite names one  *)
(* of its users, an unused one nobody.                                     *)
(***************************************************************************)
THEOREM InvitesAreSpent == InvitesSpec => []InviteNamesItsUser
<1>1. InvitesInv => InviteNamesItsUser
  BY DEF InvitesInv
<1>2. QED
  BY InvitesInvariance, <1>1, PTL

(***************************************************************************)
(* Redeems that passed the check of one email together, and raced for the  *)
(* INSERT, have made one account.                                          *)
(***************************************************************************)
THEOREM EmailsAreUnique == InvitesSpec => []OneAccountPerEmail
<1>1. InvitesInv => OneAccountPerEmail
  BY DEF InvitesInv
<1>2. QED
  BY InvitesInvariance, <1>1, PTL

(***************************************************************************)
(* The check of redeemed_at turns away every redeem that begins after a    *)
(* user of the invite is committed: two users had overlapping redeems.     *)
(***************************************************************************)
THEOREM ReuseNeedsOverlap == InvitesSpec => []ReuseOnlyByOverlap
<1>1. InvitesInv => ReuseOnlyByOverlap
  BY DEF InvitesInv
<1>2. QED
  BY InvitesInvariance, <1>1, PTL

=============================================================================
