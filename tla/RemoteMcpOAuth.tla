--------------------------- MODULE RemoteMcpOAuth ---------------------------
(***************************************************************************)
(* The authorization server of the remote MCP resource: consent and the    *)
(* authorization code, its exchange for a grant, the rotation of refresh   *)
(* tokens and revocation (routes/remoteMcpOAuthRoutes.js,                  *)
(* remoteMcpOAuthStore.js).                                                *)
(*                                                                         *)
(* Requests run concurrently and are cut where the code waits for a query; *)
(* only rotation is a transaction, which reads without a lock and ends     *)
(* with a compare-and-set.  A request that is refused, fails or crashes    *)
(* ends without a further step; whether an answer reaches the client does  *)
(* not matter here, because any token ever made may be presented at any    *)
(* time, by several requests at once.                                      *)
(*                                                                         *)
(* One client, one user in one tenant and one resource: every query names  *)
(* them by equality.  Signatures, PKCE, redirect URIs and the client's     *)
(* secret are checked before the first step.  Administrators may change    *)
(* the standing of the user, the tenant and the client and the scopes the  *)
(* client may have between any two queries, so reading them gives any      *)
(* result: the request goes on or ends (Abandon).                          *)
(***************************************************************************)
EXTENDS Naturals

CONSTANTS
    Codes,      \* authorization codes
    Requests,   \* HTTP requests in flight
    Scopes,     \* scopes of the resource
    MaxGrants,  \* bound: rows of remote_mcp_oauth_grants
    CodeTTL,    \* REMOTE_MCP_AUTHORIZATION_CODE_TTL_SECONDS
    RefreshTTL, \* REMOTE_MCP_REFRESH_TOKEN_TTL_SECONDS
    MaxTime     \* bound: the clock

ASSUME TermsAssumption ==
    MaxGrants \in Nat /\ CodeTTL \in Nat /\ RefreshTTL \in Nat /\ MaxTime \in Nat

VARIABLES
    now,       \* the clock
    code,      \* remote_mcp_oauth_authorization_codes
    grant,     \* remote_mcp_oauth_grants in the order of insertion
    request,   \* location of each request and what it has read
    consented, \* history: scopes the user ever consented to
    started    \* history: when the first grant of a code was made

vars == <<now, code, grant, request, consented, started>>

-----------------------------------------------------------------------------
GrantIds == 1..MaxGrants

\* No code and no grant.
NoCode == "no code"

NoGrant == 0

CodeStatuses == {"issued", "consumed"}

GrantStatuses == {"active", "rotated", "revoked"}

\* next is replaced_by_grant_id; code is kept for the properties only.
NoRow == [status |-> "none", code |-> NoCode, scopes |-> {}, expires |-> 0, next |-> NoGrant]

PCs == {"idle", "issue", "consume", "create", "rotate", "swap", "revoke"}

Idle == [pc |-> "idle", code |-> NoCode, grant |-> NoGrant, scopes |-> {}]

Init ==
    /\ now = 0
    /\ code = [c \in Codes |-> [status |-> "none", scopes |-> {}, expires |-> 0]]
    /\ grant = [g \in GrantIds |-> NoRow]
    /\ request = [p \in Requests |-> Idle]
    /\ consented = {}
    /\ started = [c \in Codes |-> 0]

-----------------------------------------------------------------------------
At(p, pc) == request[p].pc = pc

Goto(p, pc) == request' = [request EXCEPT ![p].pc = pc]

End(p) == request' = [request EXCEPT ![p] = Idle]

Existing == {g \in GrantIds : grant[g].status # "none"}

\* readRemoteMcpGrantByRefreshToken, readRemoteMcpActiveGrantScopesForSubject.
Refreshable(g) == grant[g].status = "active" /\ now < grant[g].expires

Usable(c) == code[c].status = "issued" /\ now < code[c].expires

\* The row after the last one.
IsFresh(g) == \A h \in GrantIds : h \in Existing <=> h < g

-----------------------------------------------------------------------------
Tick ==
    /\ now < MaxTime
    /\ now' = now + 1
    /\ UNCHANGED <<code, grant, request, consented, started>>

-----------------------------------------------------------------------------
(* POST /code: the client's row with its allowed scopes is read, then the  *)
(* scopes of the grants in force, then the code is inserted.               *)
ExistingScopes == UNION {grant[g].scopes : g \in {h \in GrantIds : Refreshable(h)}}

\* Mutation: the code gets every scope the client may have.
MutAllAllowed(requested, clientScopes) == clientScopes

EffectiveScopes(requested, clientScopes) == (ExistingScopes \cup requested) \cap clientScopes

Consent(p, requested, clientScopes) ==
    /\ At(p, "idle")
    /\ requested \subseteq clientScopes
    /\ consented' = consented \cup requested
    /\ request' = [request EXCEPT ![p] = [Idle EXCEPT !.pc = "issue",
                         !.scopes = EffectiveScopes(requested, clientScopes)]]
    /\ UNCHANGED <<now, code, grant, started>>

IssueCode(p, c) ==
    /\ At(p, "issue")
    /\ code[c].status = "none"
    /\ code' = [code EXCEPT ![c] = [status |-> "issued", scopes |-> request[p].scopes,
                                    expires |-> now + CodeTTL]]
    /\ End(p)
    /\ UNCHANGED <<now, grant, consented, started>>

-----------------------------------------------------------------------------
(* POST /token with an authorization code.                                 *)
ReadCode(p, c) ==
    /\ At(p, "idle")
    /\ Usable(c)
    /\ request' = [request EXCEPT ![p] = [Idle EXCEPT !.pc = "consume", !.code = c,
                                                      !.scopes = code[c].scopes]]
    /\ UNCHANGED <<now, code, grant, consented, started>>

\* Mutation: the number of affected rows is not looked at.
MutConsumeUnchecked(p) ==
    /\ At(p, "consume")
    /\ code' = [code EXCEPT ![request[p].code].status = "consumed"]
    /\ Goto(p, "create")
    /\ UNCHANGED <<now, grant, consented, started>>

Consume(p) ==
    /\ At(p, "consume")
    /\ Usable(request[p].code)
    /\ code' = [code EXCEPT ![request[p].code].status = "consumed"]
    /\ Goto(p, "create")
    /\ UNCHANGED <<now, grant, consented, started>>

CreateGrant(p, g) ==
    /\ At(p, "create")
    /\ IsFresh(g)
    /\ grant' = [grant EXCEPT ![g] = [status |-> "active", code |-> request[p].code,
                                      scopes |-> request[p].scopes,
                                      expires |-> now + RefreshTTL, next |-> NoGrant]]
    /\ started' = [started EXCEPT ![request[p].code] = now]
    /\ End(p)
    /\ UNCHANGED <<now, code, consented>>

-----------------------------------------------------------------------------
(* POST /token with a refresh token.  The transaction of                   *)
(* rotateRemoteMcpOAuthGrant reads the grant once more; its insert is seen *)
(* by nobody before the compare-and-set commits it.                        *)
ReadGrant(p, g) ==
    /\ At(p, "idle")
    /\ Refreshable(g)
    /\ request' = [request EXCEPT ![p] = [Idle EXCEPT !.pc = "rotate", !.grant = g]]
    /\ UNCHANGED <<now, code, grant, consented, started>>

RotateRead(p) ==
    /\ At(p, "rotate")
    /\ Refreshable(request[p].grant)
    /\ Goto(p, "swap")
    /\ UNCHANGED <<now, code, grant, consented, started>>

\* The rows that a rotation of g into h leaves.
Rotated(g, h, expires) ==
    [grant EXCEPT ![g].status = "rotated", ![g].next = h,
                  ![h] = [grant[g] EXCEPT !.status = "active", !.expires = expires,
                                          !.next = NoGrant]]

\* Mutation: the successor gets a full term of its own.
MutSlidingTerm(p, h) ==
    /\ At(p, "swap")
    /\ grant[request[p].grant].status = "active"
    /\ IsFresh(h)
    /\ grant' = Rotated(request[p].grant, h, now + RefreshTTL)
    /\ End(p)
    /\ UNCHANGED <<now, code, consented, started>>

\* Mutation: the number of affected rows is not looked at.
MutSwapUnchecked(p, h) ==
    /\ At(p, "swap")
    /\ IsFresh(h)
    /\ LET g == request[p].grant IN
         grant' = IF grant[g].status = "active" THEN Rotated(g, h, grant[g].expires)
                  ELSE [grant EXCEPT ![h] = [grant[g] EXCEPT !.status = "active",
                                                             !.next = NoGrant]]
    /\ End(p)
    /\ UNCHANGED <<now, code, consented, started>>

\* Mutation: the old grant is revoked, without a link to its successor.
MutSwapRevokes(p, h) ==
    /\ At(p, "swap")
    /\ grant[request[p].grant].status = "active"
    /\ IsFresh(h)
    /\ grant' = [Rotated(request[p].grant, h, grant[request[p].grant].expires)
                   EXCEPT ![request[p].grant].next = NoGrant]
    /\ End(p)
    /\ UNCHANGED <<now, code, consented, started>>

Swap(p, h) ==
    /\ At(p, "swap")
    /\ grant[request[p].grant].status = "active"
    /\ IsFresh(h)
    /\ grant' = Rotated(request[p].grant, h, grant[request[p].grant].expires)
    /\ End(p)
    /\ UNCHANGED <<now, code, consented, started>>

-----------------------------------------------------------------------------
(* POST /revoke: an access token names its grant and needs one statement,  *)
(* a refresh token is read first.  A grant that is not active is left as   *)
(* it is, and the answer is 200 all the same.                              *)
RevokeGrant(g) ==
    /\ grant[g].status = "active"
    /\ grant' = [grant EXCEPT ![g].status = "revoked"]
    /\ UNCHANGED <<now, code, consented, started>>

RevokeByAccessJti(g) == RevokeGrant(g) /\ UNCHANGED request

RevokeRead(p, g) ==
    /\ At(p, "idle")
    /\ Refreshable(g)
    /\ request' = [request EXCEPT ![p] = [Idle EXCEPT !.pc = "revoke", !.grant = g]]
    /\ UNCHANGED <<now, code, grant, consented, started>>

RevokeByRefreshToken(p) == At(p, "revoke") /\ RevokeGrant(request[p].grant) /\ End(p)

\* A refusal, a failed query or a crash.
Abandon(p) ==
    /\ ~At(p, "idle")
    /\ End(p)
    /\ UNCHANGED <<now, code, grant, consented, started>>

-----------------------------------------------------------------------------
RequestStep(p) ==
    \/ \E requested, clientScopes \in SUBSET Scopes : Consent(p, requested, clientScopes)
    \/ \E c \in Codes : IssueCode(p, c) \/ ReadCode(p, c)
    \/ Consume(p)
    \/ \E g \in GrantIds : CreateGrant(p, g) \/ ReadGrant(p, g) \/ Swap(p, g) \/ RevokeRead(p, g)
    \/ RotateRead(p)
    \/ RevokeByRefreshToken(p)
    \/ Abandon(p)

Next ==
    \/ Tick
    \/ \E g \in GrantIds : RevokeByAccessJti(g)
    \/ \E p \in Requests : RequestStep(p)

Spec == Init /\ [][Next]_vars

-----------------------------------------------------------------------------
TypeOK ==
    /\ now \in 0..MaxTime
    /\ code \in [Codes -> [status : CodeStatuses \cup {"none"}, scopes : SUBSET Scopes,
                           expires : 0..(MaxTime + CodeTTL)]]
    /\ grant \in [GrantIds -> [status : GrantStatuses \cup {"none"}, code : Codes \cup {NoCode},
                               scopes : SUBSET Scopes, expires : 0..(MaxTime + RefreshTTL),
                               next : GrantIds \cup {NoGrant}]]
    /\ request \in [Requests -> [pc : PCs, code : Codes \cup {NoCode},
                                 grant : GrantIds \cup {NoGrant}, scopes : SUBSET Scopes]]
    /\ consented \subseteq Scopes
    /\ started \in [Codes -> 0..MaxTime]

(* A code yields one chain of grants: of two grants that descend from it   *)
(* the older is rotated, so at most one refresh token and one access token *)
(* are good at any time, however many exchanges and rotations race         *)
(* (consumeRemoteMcpAuthorizationCode, rotateRemoteMcpOAuthGrant).         *)
OneGrantPerCode ==
    \A g, h \in Existing : g < h /\ grant[g].code = grant[h].code => grant[g].status = "rotated"

(* A rotated grant has exactly one successor, which is later, descends     *)
(* from the same code and has the same scopes; no other grant names one.   *)
SuccessorKeepsTerms ==
    \A g \in Existing :
        /\ grant[g].status = "rotated" <=> grant[g].next # NoGrant
        /\ grant[g].next # NoGrant =>
             LET h == grant[g].next IN
               /\ h \in Existing /\ g < h
               /\ grant[h].code = grant[g].code /\ grant[h].scopes = grant[g].scopes
               /\ \A k \in Existing : grant[k].next = h => k = g

(* No chain of refreshes outlives the term that started with the exchange  *)
(* of the code: the user has to sign in again (refreshExpiresAt).          *)
SessionTermIsFixed ==
    \A g \in Existing : grant[g].expires = started[grant[g].code] + RefreshTTL

(* Whatever was revoked, re-consented or provisioned between the reads of  *)
(* a request, a code or grant has only scopes the user consented to.       *)
ScopesWereConsented ==
    /\ \A c \in Codes : code[c].scopes \subseteq consented
    /\ \A g \in Existing : grant[g].scopes \subseteq consented

\* The code is spent and nothing that descends from it is good.
Disconnected(c) ==
    /\ code[c].status = "consumed"
    /\ \A p \in Requests : ~(At(p, "create") /\ request[p].code = c)
    /\ \A g \in GrantIds : ~(grant[g].code = c /\ grant[g].status = "active")

(* A disconnected session stays disconnected: a rotation that has read the *)
(* grant before it was revoked does not bring it back, and neither does a  *)
(* second exchange of the code (acceptance MC-09).                         *)
DisconnectIsFinal == [][\A c \in Codes : Disconnected(c) => Disconnected(c)']_vars

=============================================================================
