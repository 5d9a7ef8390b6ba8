------------------------ MODULE RemoteMcpOAuthProofs ------------------------
(***************************************************************************)
(* The authorization server, for any number of codes, requests, scopes and *)
(* grants and any terms.                                                   *)
(*                                                                         *)
(* Only the compare-and-set on the code lets a request go on to create a   *)
(* grant, so at most one request per code ever does, and while it is about *)
(* to, no grant descends from the code (SoleCreator).  From then on the    *)
(* chain grows at its end only: a rotation replaces the one active grant,  *)
(* which is the newest of its code (OneGrantPerCode).  The terms and       *)
(* scopes follow because a successor is a copy.                            *)
(***************************************************************************)
EXTENDS RemoteMcpOAuth, TLAPS

\* What a request has read is there: codes and grants are never deleted.
ReadsExist(p) ==
    /\ request[p].pc \in {"consume", "create"} =>
         request[p].code \in Codes /\ code[request[p].code].status # "none"
    /\ request[p].pc \in {"rotate", "swap", "revoke"} => request[p].grant \in Existing

\* A request about to create a grant has consumed the code for itself.
SoleCreator(p) ==
    request[p].pc = "create" =>
        /\ code[request[p].code].status = "consumed"
        /\ \A g \in Existing : grant[g].code # request[p].code
        /\ \A q \in Requests : request[q].pc = "create" /\ request[q].code = request[p].code => q = p

\* A grant descends from a code that is spent.
Descends(g) == grant[g].code \in Codes /\ code[grant[g].code].status = "consumed"

RequestInv(p) ==
    /\ ReadsExist(p)
    /\ SoleCreator(p)
    /\ request[p].scopes \subseteq consented

OAuthInv ==
    /\ TypeOK
    /\ \A p \in Requests : RequestInv(p)
    /\ \A g \in Existing : Descends(g)
    /\ OneGrantPerCode
    /\ SuccessorKeepsTerms
    /\ SessionTermIsFixed
    /\ ScopesWereConsented

-----------------------------------------------------------------------------
(* Types. *)

CodeRows == [status : CodeStatuses \cup {"none"}, scopes : SUBSET Scopes,
             expires : 0..(MaxTime + CodeTTL)]

GrantRows == [status : GrantStatuses \cup {"none"}, code : Codes \cup {NoCode},
              scopes : SUBSET Scopes, expires : 0..(MaxTime + RefreshTTL),
              next : GrantIds \cup {NoGrant}]

RequestStates == [pc : PCs, code : Codes \cup {NoCode},
                  grant : GrantIds \cup {NoGrant}, scopes : SUBSET Scopes]

\* The state of a request that has just begun.
LEMMA BeginType ==
    ASSUME NEW pc \in PCs, NEW c \in Codes \cup {NoCode}, NEW g \in GrantIds \cup {NoGrant},
           NEW S \in SUBSET Scopes
    PROVE  /\ [Idle EXCEPT !.pc = pc, !.scopes = S] \in RequestStates
           /\ [Idle EXCEPT !.pc = pc, !.code = c, !.scopes = S] \in RequestStates
           /\ [Idle EXCEPT !.pc = pc, !.grant = g] \in RequestStates
           /\ Idle \in RequestStates
BY DEF Idle, RequestStates, PCs

\* The next location of a request, or its end, keeps the type of requests.
LEMMA GotoType ==
    ASSUME TypeOK, NEW p \in Requests
    PROVE  /\ \A pc \in PCs : Goto(p, pc) => request' \in [Requests -> RequestStates]
           /\ End(p) => request' \in [Requests -> RequestStates]
           /\ \A r \in RequestStates :
                request' = [request EXCEPT ![p] = r] => request' \in [Requests -> RequestStates]
<1>1. request \in [Requests -> RequestStates]
  BY DEF TypeOK, RequestStates
<1>2. request[p] \in RequestStates
  BY <1>1
<1>3. ASSUME NEW pc \in PCs PROVE [request[p] EXCEPT !.pc = pc] \in RequestStates
  BY <1>2 DEF RequestStates
<1>4. Idle \in RequestStates
  BY DEF Idle, RequestStates, PCs
<1> QED BY <1>1, <1>3, <1>4 DEF Goto, End

\* The parts of the state that only one kind of step changes.
TypedCode == code \in [Codes -> CodeRows]
TypedGrant == grant \in [GrantIds -> GrantRows]
TypedRequest == request \in [Requests -> RequestStates]
TypedRest == now \in 0..MaxTime /\ consented \subseteq Scopes /\ started \in [Codes -> 0..MaxTime]

\* They make up the types.
LEMMA TypeParts == TypeOK <=> TypedCode /\ TypedGrant /\ TypedRequest /\ TypedRest
BY DEF TypeOK, TypedCode, TypedGrant, TypedRequest, TypedRest, CodeRows, GrantRows, RequestStates

\* The same after a step.
LEMMA TypePartsNext == TypedCode' /\ TypedGrant' /\ TypedRequest' /\ TypedRest' => TypeOK'
BY DEF TypeOK, TypedCode, TypedGrant, TypedRequest, TypedRest, CodeRows, GrantRows, RequestStates

\* Every step keeps the types; a request acts on rows that exist.
LEMMA TypeStep ==
    ASSUME OAuthInv, [Next]_vars
    PROVE  TypeOK'
<1> USE TermsAssumption
<1>1. TypedCode /\ TypedGrant /\ TypedRequest /\ TypedRest /\ TypeOK
  BY TypeParts DEF OAuthInv
<1>2. CASE Tick
  BY <1>1, <1>2, TypePartsNext DEF Tick, TypedCode, TypedGrant, TypedRequest, TypedRest
<1>3. CASE UNCHANGED vars
  BY <1>1, <1>3, TypePartsNext DEF vars, TypedCode, TypedGrant, TypedRequest, TypedRest
<1>4. ASSUME NEW g \in GrantIds, RevokeGrant(g)
      PROVE  TypedCode' /\ TypedGrant' /\ TypedRest'
  BY <1>1, <1>4 DEF RevokeGrant, TypedCode, TypedGrant, TypedRest, GrantRows, GrantStatuses
<1>5. ASSUME NEW g \in GrantIds, RevokeByAccessJti(g) PROVE TypeOK'
  BY <1>1, <1>4, <1>5, TypePartsNext DEF RevokeByAccessJti, TypedRequest
<1>6. ASSUME NEW p \in Requests, RequestStep(p) PROVE TypeOK'
  <2>1. request[p] \in RequestStates /\ RequestInv(p)
    BY <1>1 DEF TypedRequest, OAuthInv
  <2>2. CASE \E requested, clientScopes \in SUBSET Scopes : Consent(p, requested, clientScopes)
    <3>1. PICK requested \in SUBSET Scopes, clientScopes \in SUBSET Scopes :
            Consent(p, requested, clientScopes)
      BY <2>2
    <3>2. EffectiveScopes(requested, clientScopes) \in SUBSET Scopes
      BY DEF EffectiveScopes
    <3>3. TypedRequest'
      BY <1>1, <3>1, <3>2, GotoType, BeginType DEF Consent, TypedRequest, PCs
    <3> QED BY <1>1, <3>1, <3>3, TypePartsNext DEF Consent, TypedCode, TypedGrant, TypedRest
  <2>3. ASSUME NEW c \in Codes, IssueCode(p, c) PROVE TypeOK'
    <3>1. [status |-> "issued", scopes |-> request[p].scopes, expires |-> now + CodeTTL] \in CodeRows
      BY <1>1, <2>1 DEF CodeRows, CodeStatuses, RequestStates, TypedRest
    <3>2. TypedCode' /\ TypedRequest'
      BY <1>1, <2>3, <3>1, GotoType DEF IssueCode, TypedCode, TypedRequest
    <3> QED BY <1>1, <2>3, <3>2, TypePartsNext DEF IssueCode, TypedGrant, TypedRest
  <2>4. ASSUME NEW c \in Codes, ReadCode(p, c) PROVE TypeOK'
    <3>1. code[c].scopes \in SUBSET Scopes
      BY <1>1 DEF TypedCode, CodeRows
    <3>2. TypedRequest'
      BY <1>1, <2>4, <3>1, GotoType, BeginType DEF ReadCode, TypedRequest, PCs
    <3> QED BY <1>1, <2>4, <3>2, TypePartsNext DEF ReadCode, TypedCode, TypedGrant, TypedRest
  <2>5. CASE Consume(p)
    <3>1. TypedCode'
      BY <1>1, <2>5 DEF Consume, TypedCode, CodeRows, CodeStatuses
    <3>2. TypedRequest'
      BY <1>1, <2>5, GotoType DEF Consume, TypedRequest, PCs
    <3> QED BY <1>1, <2>5, <3>1, <3>2, TypePartsNext DEF Consume, TypedGrant, TypedRest
  <2>6. ASSUME NEW g \in GrantIds, CreateGrant(p, g) PROVE TypeOK'
    <3>1. [status |-> "active", code |-> request[p].code, scopes |-> request[p].scopes,
           expires |-> now + RefreshTTL, next |-> NoGrant] \in GrantRows
      BY <1>1, <2>1 DEF GrantRows, GrantStatuses, RequestStates, TypedRest
    <3>2. TypedGrant' /\ TypedRequest'
      BY <1>1, <2>6, <3>1, GotoType DEF CreateGrant, TypedGrant, TypedRequest
    <3>3. TypedCode' /\ TypedRest'
      BY <1>1, <2>6 DEF CreateGrant, TypedCode, TypedRest
    <3> QED BY <3>2, <3>3, TypePartsNext
  <2>7. ASSUME NEW g \in GrantIds, ReadGrant(p, g) \/ RevokeRead(p, g) PROVE TypeOK'
    <3>1. TypedRequest'
      BY <1>1, <2>7, GotoType, BeginType DEF ReadGrant, RevokeRead, TypedRequest, PCs
    <3> QED BY <1>1, <2>7, <3>1, TypePartsNext DEF ReadGrant, RevokeRead, TypedCode, TypedGrant, TypedRest
  <2>8. ASSUME NEW h \in GrantIds, Swap(p, h) PROVE TypeOK'
    <3> DEFINE g == request[p].grant
    <3>1. g \in GrantIds /\ grant[g] \in GrantRows
      BY <1>1, <2>1, <2>8 DEF Swap, At, RequestInv, ReadsExist, Existing, TypedGrant
    <3>2. [grant[g] EXCEPT !.status = "active", !.expires = grant[g].expires, !.next = NoGrant] \in GrantRows
      BY <3>1 DEF GrantRows, GrantStatuses
    <3>3. [grant[g] EXCEPT !.status = "rotated", !.next = h] \in GrantRows
      BY <3>1 DEF GrantRows, GrantStatuses
    <3>4. Rotated(g, h, grant[g].expires) \in [GrantIds -> GrantRows]
      BY <1>1, <3>1, <3>2, <3>3 DEF Rotated, TypedGrant, GrantRows, GrantStatuses
    <3>5. TypedGrant' /\ TypedRequest'
      BY <1>1, <2>8, <3>4, GotoType DEF Swap, TypedGrant, TypedRequest
    <3> QED BY <1>1, <2>8, <3>5, TypePartsNext DEF Swap, TypedCode, TypedRest
  <2>9. CASE RotateRead(p)
    <3>1. TypedRequest'
      BY <1>1, <2>9, GotoType DEF RotateRead, TypedRequest, PCs
    <3> QED BY <1>1, <2>9, <3>1, TypePartsNext DEF RotateRead, TypedCode, TypedGrant, TypedRest
  <2>10. CASE RevokeByRefreshToken(p)
    <3>1. request[p].grant \in GrantIds
      BY <2>1, <2>10 DEF RevokeByRefreshToken, At, RequestInv, ReadsExist, Existing
    <3>2. TypedRequest'
      BY <1>1, <2>10, GotoType DEF RevokeByRefreshToken, TypedRequest
    <3> QED BY <1>4, <2>10, <3>1, <3>2, TypePartsNext DEF RevokeByRefreshToken
  <2>11. CASE Abandon(p)
    <3>1. TypedRequest'
      BY <1>1, <2>11, GotoType DEF Abandon, TypedRequest
    <3> QED BY <1>1, <2>11, <3>1, TypePartsNext DEF Abandon, TypedCode, TypedGrant, TypedRest
  <2> QED BY <1>6, <2>2, <2>3, <2>4, <2>5, <2>6, <2>7, <2>8, <2>9, <2>10, <2>11 DEF RequestStep
<1> QED BY <1>2, <1>3, <1>5, <1>6 DEF Next

-----------------------------------------------------------------------------
(* Preservation.  A step of the first kind changes one request and, for a  *)
(* consent, adds scopes; the others change a code or the grants as well.   *)

\* The invariants that do not speak of requests.
RowsInv ==
    /\ \A g \in Existing : Descends(g)
    /\ OneGrantPerCode /\ SuccessorKeepsTerms /\ SessionTermIsFixed /\ ScopesWereConsented

\* The other requests stay where they are, and p is not about to create.
OnlyMoves(p) ==
    /\ \A q \in Requests \ {p} : request'[q] = request[q]
    /\ request'[p].pc # "create"
    /\ request'[p].scopes \subseteq consented'
    /\ consented \subseteq consented'

\* Rows are told apart by the table of grants alone.
LEMMA ExistingKept ==
    ASSUME UNCHANGED grant
    PROVE  Existing' = Existing
BY DEF Existing

\* Neither codes nor grants change: everything but the request's own reads
\* is as before.
LEMMA MoveKeeps ==
    ASSUME OAuthInv, NEW p \in Requests, OnlyMoves(p), UNCHANGED <<code, grant, started>>, ReadsExist(p)'
    PROVE  (\A q \in Requests : RequestInv(q))' /\ RowsInv'
<1>1. Existing' = Existing
  BY ExistingKept
<1>2. RowsInv'
  BY <1>1 DEF OAuthInv, RowsInv, Descends, OneGrantPerCode, SuccessorKeepsTerms,
     SessionTermIsFixed, ScopesWereConsented, OnlyMoves
<1>3. ASSUME NEW q \in Requests PROVE RequestInv(q)'
  <2>1. RequestInv(q)
    BY DEF OAuthInv
  <2>2. CASE q = p
    BY <2>2 DEF RequestInv, SoleCreator, OnlyMoves
  <2>3. CASE q # p
    <3>1. request'[q] = request[q]
      BY <2>3 DEF OnlyMoves
    <3>2. ReadsExist(q)' /\ request'[q].scopes \subseteq consented'
      BY <1>1, <2>1, <3>1 DEF RequestInv, ReadsExist, OnlyMoves
    <3>3. SoleCreator(q)'
      BY <1>1, <2>1, <3>1 DEF RequestInv, SoleCreator, OnlyMoves
    <3> QED BY <3>2, <3>3 DEF RequestInv
  <2> QED BY <2>2, <2>3
<1> QED BY <1>2, <1>3

\* Consent, the reads and the end of a request.
LEMMA MoveSteps ==
    ASSUME OAuthInv, NEW p \in Requests,
           \/ \E requested, clientScopes \in SUBSET Scopes : Consent(p, requested, clientScopes)
           \/ \E c \in Codes : ReadCode(p, c)
           \/ \E g \in GrantIds : ReadGrant(p, g) \/ RevokeRead(p, g)
           \/ RotateRead(p) \/ Abandon(p)
    PROVE  OnlyMoves(p) /\ UNCHANGED <<code, grant, started>> /\ ReadsExist(p)'
<1>1. TypeOK /\ RequestInv(p) /\ ScopesWereConsented
  BY DEF OAuthInv
<1>2. CASE \E requested, clientScopes \in SUBSET Scopes : Consent(p, requested, clientScopes)
  <2>1. PICK requested \in SUBSET Scopes, clientScopes \in SUBSET Scopes :
          Consent(p, requested, clientScopes)
    BY <1>2
  <2>2. ExistingScopes \subseteq consented
    BY <1>1 DEF ExistingScopes, Refreshable, Existing, ScopesWereConsented
  <2>3. EffectiveScopes(requested, clientScopes) \subseteq consented'
    BY <2>1, <2>2 DEF EffectiveScopes, Consent
  <2> QED BY <1>1, <2>1, <2>3 DEF Consent, OnlyMoves, ReadsExist, Idle, TypeOK
<1>3. ASSUME NEW c \in Codes, ReadCode(p, c)
      PROVE  OnlyMoves(p) /\ UNCHANGED <<code, grant, started>> /\ ReadsExist(p)'
  BY <1>1, <1>3 DEF ReadCode, Usable, OnlyMoves, ReadsExist, Idle, TypeOK, ScopesWereConsented
<1>4. ASSUME NEW g \in GrantIds, ReadGrant(p, g) \/ RevokeRead(p, g)
      PROVE  OnlyMoves(p) /\ UNCHANGED <<code, grant, started>> /\ ReadsExist(p)'
  <2>1. g \in Existing' /\ UNCHANGED <<code, grant, started, consented>>
    BY <1>4 DEF ReadGrant, RevokeRead, Refreshable, Existing
  <2>2. /\ \A q \in Requests \ {p} : request'[q] = request[q]
        /\ request'[p].pc \in {"rotate", "revoke"} /\ request'[p].grant = g
        /\ request'[p].scopes = {}
    <3>1. CASE ReadGrant(p, g)
      BY <1>1, <3>1 DEF ReadGrant, Idle, TypeOK
    <3>2. CASE RevokeRead(p, g)
      BY <1>1, <3>2 DEF RevokeRead, Idle, TypeOK
    <3> QED BY <1>4, <3>1, <3>2
  <2> QED BY <2>1, <2>2 DEF OnlyMoves, ReadsExist
<1>5. CASE RotateRead(p)
  <2>1. UNCHANGED <<code, grant, started, consented>> /\ Existing' = Existing
    BY <1>5, ExistingKept DEF RotateRead
  <2>2. request' = [request EXCEPT ![p].pc = "swap"] /\ request[p].pc = "rotate"
    BY <1>5 DEF RotateRead, Goto, At
  <2> QED BY <1>1, <2>1, <2>2 DEF OnlyMoves, RequestInv, ReadsExist, TypeOK
<1>6. CASE Abandon(p)
  BY <1>1, <1>6 DEF Abandon, End, OnlyMoves, ReadsExist, Idle, TypeOK
<1> QED BY <1>2, <1>3, <1>4, <1>5, <1>6

\* The row of a code before it is issued is no request's and no grant's.
LEMMA IssueKeeps ==
    ASSUME OAuthInv, NEW p \in Requests, NEW c \in Codes, IssueCode(p, c)
    PROVE  (\A q \in Requests : RequestInv(q))' /\ RowsInv'
<1>1. TypeOK /\ RowsInv /\ \A q \in Requests : RequestInv(q)
  BY DEF OAuthInv, RowsInv
<1>2. Existing' = Existing /\ UNCHANGED <<grant, consented, started>>
  BY ExistingKept DEF IssueCode
<1>3. /\ code[c].status = "none"
      /\ code'[c].status = "issued" /\ code'[c].scopes = request[p].scopes
      /\ \A d \in Codes \ {c} : code'[d] = code[d]
  BY <1>1 DEF IssueCode, TypeOK
<1>4. request' = [request EXCEPT ![p] = Idle]
  BY DEF IssueCode, End
<1>5. ASSUME NEW q \in Requests PROVE RequestInv(q)'
  <2>1. CASE q = p
    BY <1>1, <1>4, <2>1 DEF RequestInv, ReadsExist, SoleCreator, Idle, TypeOK
  <2>2. CASE q # p
    <3>1. request'[q] = request[q] /\ RequestInv(q)
      BY <1>1, <1>4, <2>2 DEF TypeOK
    <3>2. ReadsExist(q)'
      BY <1>2, <1>3, <3>1 DEF RequestInv, ReadsExist
    <3>3. SoleCreator(q)'
      BY <1>1, <1>2, <1>3, <1>4, <3>1 DEF RequestInv, ReadsExist, SoleCreator, Idle, TypeOK
    <3> QED BY <1>2, <3>1, <3>2, <3>3 DEF RequestInv
  <2> QED BY <2>1, <2>2
<1>6. \A g \in Existing' : Descends(g)'
  BY <1>1, <1>2, <1>3 DEF RowsInv, Descends
<1>7. ScopesWereConsented'
  BY <1>1, <1>2, <1>3 DEF RowsInv, ScopesWereConsented, RequestInv
<1>8. OneGrantPerCode' /\ SuccessorKeepsTerms' /\ SessionTermIsFixed'
  BY <1>1, <1>2 DEF RowsInv, OneGrantPerCode, SuccessorKeepsTerms, SessionTermIsFixed
<1> QED BY <1>5, <1>6, <1>7, <1>8 DEF RowsInv

\* The compare-and-set succeeds once: until then the code had no grant and
\* no request that consumed it.
LEMMA ConsumeKeeps ==
    ASSUME OAuthInv, NEW p \in Requests, Consume(p)
    PROVE  (\A q \in Requests : RequestInv(q))' /\ RowsInv'
<1> DEFINE c == request[p].code
<1>1. TypeOK /\ RowsInv /\ \A q \in Requests : RequestInv(q)
  BY DEF OAuthInv, RowsInv
<1>2. Existing' = Existing /\ UNCHANGED <<grant, consented, started>>
  BY ExistingKept DEF Consume
<1>3. c \in Codes /\ code[c].status = "issued"
  BY <1>1 DEF Consume, At, Usable, RequestInv, ReadsExist
<1>4. /\ code'[c].status = "consumed" /\ code'[c].scopes = code[c].scopes
      /\ \A d \in Codes \ {c} : code'[d] = code[d]
  BY <1>1, <1>3 DEF Consume, TypeOK
<1>5. /\ request'[p].pc = "create" /\ request'[p].code = c /\ request'[p].scopes = request[p].scopes
      /\ \A q \in Requests \ {p} : request'[q] = request[q]
  BY <1>1 DEF Consume, Goto, TypeOK
<1>6. \A q \in Requests : request[q].pc = "create" => request[q].code # c
  BY <1>1, <1>3 DEF RequestInv, SoleCreator
<1>7. \A g \in Existing : grant[g].code # c
  BY <1>1, <1>3 DEF RowsInv, Descends
<1>8. ASSUME NEW q \in Requests PROVE RequestInv(q)'
  <2>1. CASE q = p
    <3>1. ReadsExist(q)'
      BY <1>3, <1>4, <1>5, <2>1 DEF ReadsExist
    <3>2. SoleCreator(q)'
      BY <1>2, <1>4, <1>5, <1>6, <1>7, <2>1 DEF SoleCreator
    <3> QED BY <1>1, <1>2, <1>5, <2>1, <3>1, <3>2 DEF RequestInv
  <2>2. CASE q # p
    <3>1. request'[q] = request[q] /\ RequestInv(q)
      BY <1>1, <1>5, <2>2
    <3>2. ReadsExist(q)'
      BY <1>2, <1>4, <3>1 DEF RequestInv, ReadsExist
    <3>3. SoleCreator(q)'
      BY <1>2, <1>4, <1>5, <1>6, <3>1 DEF RequestInv, ReadsExist, SoleCreator
    <3> QED BY <1>2, <3>1, <3>2, <3>3 DEF RequestInv
  <2> QED BY <2>1, <2>2
<1>9. (\A g \in Existing : Descends(g))' /\ ScopesWereConsented'
  BY <1>1, <1>2, <1>3, <1>4 DEF RowsInv, Descends, ScopesWereConsented
<1>10. OneGrantPerCode' /\ SuccessorKeepsTerms' /\ SessionTermIsFixed'
  BY <1>1, <1>2 DEF RowsInv, OneGrantPerCode, SuccessorKeepsTerms, SessionTermIsFixed
<1> QED BY <1>8, <1>9, <1>10 DEF RowsInv

\* A fresh row comes after every other, and none refers to it.
LEMMA FreshRow ==
    ASSUME OAuthInv, NEW h \in GrantIds, IsFresh(h)
    PROVE  /\ h \notin Existing
           /\ \A g \in Existing : g < h /\ grant[g].next # h
BY TermsAssumption DEF OAuthInv, IsFresh, SuccessorKeepsTerms, Existing, GrantIds, NoGrant

\* The first grant of a code: no other descends from it.
LEMMA CreateKeeps ==
    ASSUME OAuthInv, NEW p \in Requests, NEW h \in GrantIds, CreateGrant(p, h)
    PROVE  (\A q \in Requests : RequestInv(q))' /\ RowsInv'
<1> DEFINE c == request[p].code
<1>1. TypeOK /\ RowsInv /\ \A q \in Requests : RequestInv(q)
  BY DEF OAuthInv, RowsInv
<1>2. h \notin Existing /\ \A g \in Existing : g < h /\ grant[g].next # h
  BY FreshRow DEF CreateGrant
<1>3. /\ c \in Codes /\ code[c].status = "consumed" /\ request[p].scopes \subseteq consented
      /\ \A g \in Existing : grant[g].code # c
      /\ \A q \in Requests : request[q].pc = "create" /\ request[q].code = c => q = p
  BY <1>1 DEF CreateGrant, At, RequestInv, ReadsExist, SoleCreator
<1>4. /\ grant'[h] = [status |-> "active", code |-> c, scopes |-> request[p].scopes,
                      expires |-> now + RefreshTTL, next |-> NoGrant]
      /\ \A g \in GrantIds \ {h} : grant'[g] = grant[g]
  BY <1>1 DEF CreateGrant, TypeOK
<1>5. started'[c] = now /\ \A d \in Codes \ {c} : started'[d] = started[d]
  BY <1>1, <1>3 DEF CreateGrant, TypeOK
<1>6. Existing' = Existing \cup {h}
  BY <1>2, <1>4 DEF Existing
<1>7. UNCHANGED <<code, consented>> /\ request' = [request EXCEPT ![p] = Idle]
  BY DEF CreateGrant, End
<1>8. \A g \in Existing : g \in GrantIds /\ g # h /\ grant'[g] = grant[g]
  BY <1>2, <1>4 DEF Existing
<1>9. ASSUME NEW q \in Requests PROVE RequestInv(q)'
  <2>1. CASE q = p
    BY <1>1, <1>7, <2>1 DEF RequestInv, ReadsExist, SoleCreator, Idle, TypeOK
  <2>2. CASE q # p
    <3>1. request'[q] = request[q] /\ RequestInv(q)
      BY <1>1, <1>7, <2>2 DEF TypeOK
    <3>2. ReadsExist(q)'
      BY <1>6, <1>7, <3>1 DEF RequestInv, ReadsExist
    <3>3. SoleCreator(q)'
      BY <1>1, <1>3, <1>4, <1>6, <1>7, <1>8, <2>2, <3>1 DEF RequestInv, SoleCreator, Idle, TypeOK
    <3> QED BY <1>7, <3>1, <3>2, <3>3 DEF RequestInv
  <2> QED BY <2>1, <2>2
<1>10. (\A g \in Existing : Descends(g))' /\ ScopesWereConsented'
  BY <1>1, <1>3, <1>4, <1>6, <1>7, <1>8 DEF RowsInv, Descends, ScopesWereConsented
<1>11. OneGrantPerCode'
  BY <1>1, <1>2, <1>3, <1>4, <1>6, <1>8, TermsAssumption DEF RowsInv, OneGrantPerCode, Existing, GrantIds
<1>12. SuccessorKeepsTerms'
  BY <1>1, <1>2, <1>4, <1>6, <1>8 DEF RowsInv, SuccessorKeepsTerms
<1>13. SessionTermIsFixed'
  BY <1>1, <1>3, <1>4, <1>5, <1>6, <1>8 DEF RowsInv, SessionTermIsFixed, Descends
<1> QED BY <1>9, <1>10, <1>11, <1>12, <1>13 DEF RowsInv

\* A rotation extends the chain at its end: the grant it replaces was active,
\* so it was the newest of its code.
LEMMA SwapKeeps ==
    ASSUME OAuthInv, NEW p \in Requests, NEW h \in GrantIds, Swap(p, h)
    PROVE  (\A q \in Requests : RequestInv(q))' /\ RowsInv'
<1> DEFINE g == request[p].grant
<1>1. TypeOK /\ RowsInv /\ \A q \in Requests : RequestInv(q)
  BY DEF OAuthInv, RowsInv
<1>2. h \notin Existing /\ \A k \in Existing : k < h /\ grant[k].next # h
  BY FreshRow DEF Swap
<1>3. g \in Existing /\ g \in GrantIds /\ grant[g].status = "active" /\ g # h /\ h # NoGrant
  BY <1>1, <1>2, TermsAssumption DEF Swap, At, RequestInv, ReadsExist, Existing, GrantIds, NoGrant
<1>4. /\ grant'[g].status = "rotated" /\ grant'[g].next = h
      /\ grant'[g].code = grant[g].code /\ grant'[g].scopes = grant[g].scopes
      /\ grant'[g].expires = grant[g].expires
      /\ grant'[h].status = "active" /\ grant'[h].next = NoGrant
      /\ grant'[h].code = grant[g].code /\ grant'[h].scopes = grant[g].scopes
      /\ grant'[h].expires = grant[g].expires
      /\ \A k \in GrantIds \ {g, h} : grant'[k] = grant[k]
  BY <1>1, <1>3 DEF Swap, Rotated, TypeOK
<1>5. Existing' = Existing \cup {h}
  BY <1>2, <1>3, <1>4 DEF Existing
<1>6. UNCHANGED <<code, consented, started>> /\ request' = [request EXCEPT ![p] = Idle]
  BY DEF Swap, End
<1>7. \A k \in Existing : k \in GrantIds /\ k # h /\ (k # g => grant'[k] = grant[k])
  BY <1>2, <1>4 DEF Existing
<1>8. ASSUME NEW q \in Requests PROVE RequestInv(q)'
  <2>1. CASE q = p
    BY <1>1, <1>6, <2>1 DEF RequestInv, ReadsExist, SoleCreator, Idle, TypeOK
  <2>2. CASE q # p
    <3>1. request'[q] = request[q] /\ RequestInv(q)
      BY <1>1, <1>6, <2>2 DEF TypeOK
    <3>2. ReadsExist(q)'
      BY <1>5, <1>6, <3>1 DEF RequestInv, ReadsExist
    <3>3. SoleCreator(q)'
      BY <1>1, <1>3, <1>4, <1>5, <1>6, <1>7, <2>2, <3>1 DEF RequestInv, SoleCreator, Idle, TypeOK
    <3> QED BY <1>6, <3>1, <3>2, <3>3 DEF RequestInv
  <2> QED BY <2>1, <2>2
<1>9. (\A k \in Existing : Descends(k))' /\ ScopesWereConsented'
  BY <1>1, <1>3, <1>4, <1>5, <1>6, <1>7 DEF RowsInv, Descends, ScopesWereConsented
<1>10. OneGrantPerCode'
  <2>1. \A k \in Existing : grant[k].code = grant[g].code => k = g \/ (k < g /\ grant[k].status = "rotated")
    BY <1>1, <1>3, TermsAssumption DEF RowsInv, OneGrantPerCode, Existing, GrantIds
  <2> SUFFICES ASSUME NEW j \in Existing', NEW k \in Existing', j < k, grant'[j].code = grant'[k].code
               PROVE  grant'[j].status = "rotated"
    BY DEF OneGrantPerCode
  <2>2. CASE k = h
    BY <1>4, <1>5, <1>7, <2>1, <2>2, TermsAssumption DEF Existing, GrantIds
  <2>3. CASE k # h /\ j # h
    BY <1>1, <1>3, <1>4, <1>5, <1>7, <2>3 DEF RowsInv, OneGrantPerCode
  <2>4. CASE k # h /\ j = h
    BY <1>2, <1>5, <2>4, TermsAssumption DEF Existing, GrantIds
  <2> QED BY <2>2, <2>3, <2>4
<1>11. SuccessorKeepsTerms'
  <2> SUFFICES ASSUME NEW k \in Existing'
               PROVE  /\ grant'[k].status = "rotated" <=> grant'[k].next # NoGrant
                      /\ grant'[k].next # NoGrant =>
                           LET m == grant'[k].next IN
                             /\ m \in Existing' /\ k < m
                             /\ grant'[m].code = grant'[k].code /\ grant'[m].scopes = grant'[k].scopes
                             /\ \A j \in Existing' : grant'[j].next = m => j = k
    BY DEF SuccessorKeepsTerms
  <2>1. grant[g].next = NoGrant
    BY <1>1, <1>3 DEF RowsInv, SuccessorKeepsTerms
  <2>2. CASE k = h
    BY <1>4, <2>2
  <2>3. CASE k = g
    BY <1>2, <1>3, <1>4, <1>5, <1>7, <2>3
  <2>4. CASE k # g /\ k # h
    <3>1. k \in Existing /\ grant'[k] = grant[k]
      BY <1>5, <1>7, <2>4
    <3>2. /\ grant[k].status = "rotated" <=> grant[k].next # NoGrant
          /\ grant[k].next # NoGrant =>
               LET m == grant[k].next IN
                 /\ m \in Existing /\ k < m
                 /\ grant[m].code = grant[k].code /\ grant[m].scopes = grant[k].scopes
                 /\ \A j \in Existing : grant[j].next = m => j = k
      BY <1>1, <3>1 DEF RowsInv, SuccessorKeepsTerms
    <3> QED BY <1>2, <1>3, <1>4, <1>5, <1>7, <3>1, <3>2
  <2> QED BY <2>2, <2>3, <2>4
<1>12. SessionTermIsFixed'
  BY <1>1, <1>3, <1>4, <1>5, <1>6, <1>7 DEF RowsInv, SessionTermIsFixed
<1> QED BY <1>8, <1>9, <1>10, <1>11, <1>12 DEF RowsInv

\* A revocation changes the status of one active grant, which has no
\* successor and is no other's predecessor.
LEMMA RevokeKeeps ==
    ASSUME OAuthInv, NEW g \in GrantIds, RevokeGrant(g),
           \A q \in Requests : request'[q] \in {request[q], Idle}
    PROVE  (\A q \in Requests : RequestInv(q))' /\ RowsInv'
<1>1. TypeOK /\ RowsInv /\ \A q \in Requests : RequestInv(q)
  BY DEF OAuthInv, RowsInv
<1>2. /\ grant[g].status = "active" /\ grant'[g].status = "revoked"
      /\ grant'[g].next = grant[g].next /\ grant'[g].code = grant[g].code
      /\ grant'[g].scopes = grant[g].scopes /\ grant'[g].expires = grant[g].expires
      /\ \A k \in GrantIds \ {g} : grant'[k] = grant[k]
  BY <1>1 DEF RevokeGrant, TypeOK
<1>3. Existing' = Existing /\ g \in Existing
  BY <1>2 DEF Existing
<1>4. UNCHANGED <<code, consented, started>>
  BY DEF RevokeGrant
<1>5. \A k \in Existing : k \in GrantIds /\ (k # g => grant'[k] = grant[k])
  BY <1>2 DEF Existing
<1>6. ASSUME NEW q \in Requests PROVE RequestInv(q)'
  <2>1. CASE request'[q] = Idle
    BY <2>1 DEF RequestInv, ReadsExist, SoleCreator, Idle
  <2>2. CASE request'[q] = request[q]
    <3>1. SoleCreator(q)'
      BY <1>1, <1>2, <1>3, <1>4, <1>5, <2>2 DEF RequestInv, SoleCreator, Idle
    <3> QED BY <1>1, <1>3, <1>4, <2>2, <3>1 DEF RequestInv, ReadsExist
  <2> QED BY <2>1, <2>2
<1>7. (\A k \in Existing : Descends(k))' /\ ScopesWereConsented' /\ SessionTermIsFixed'
  BY <1>1, <1>2, <1>3, <1>4, <1>5 DEF RowsInv, Descends, ScopesWereConsented, SessionTermIsFixed
<1>8. OneGrantPerCode'
  BY <1>1, <1>2, <1>3, <1>5 DEF RowsInv, OneGrantPerCode
<1>9. SuccessorKeepsTerms'
  BY <1>1, <1>2, <1>3, <1>5 DEF RowsInv, SuccessorKeepsTerms
<1> QED BY <1>6, <1>7, <1>8, <1>9 DEF RowsInv

-----------------------------------------------------------------------------
\* At the start there are no rows and no requests.
LEMMA InitOAuthInv == Init => OAuthInv
<1> SUFFICES ASSUME Init PROVE OAuthInv
  OBVIOUS
<1>1. Existing = {}
  BY DEF Init, Existing, NoRow
<1>2. TypeOK
  BY TermsAssumption DEF Init, TypeOK, NoRow, Idle, PCs, GrantIds
<1> QED BY <1>1, <1>2 DEF Init, OAuthInv, RequestInv, ReadsExist, SoleCreator, OneGrantPerCode,
           SuccessorKeepsTerms, SessionTermIsFixed, ScopesWereConsented, Idle

\* Every step keeps the invariant.
LEMMA OAuthStep ==
    ASSUME OAuthInv, [Next]_vars
    PROVE  OAuthInv'
<1>1. TypeOK'
  BY TypeStep
<1>2. CASE Tick \/ UNCHANGED vars
  <2>1. UNCHANGED <<code, grant, request, consented, started>>
    BY <1>2 DEF Tick, vars
  <2>2. Existing' = Existing
    BY <2>1, ExistingKept
  <2> QED BY <1>1, <2>1, <2>2 DEF OAuthInv, RequestInv, ReadsExist, SoleCreator, Descends,
             OneGrantPerCode, SuccessorKeepsTerms, SessionTermIsFixed, ScopesWereConsented
<1>3. ASSUME NEW g \in GrantIds, RevokeByAccessJti(g) PROVE OAuthInv'
  BY <1>1, <1>3, RevokeKeeps DEF RevokeByAccessJti, OAuthInv, RowsInv
<1>4. ASSUME NEW p \in Requests, RequestStep(p) PROVE OAuthInv'
  <2>1. CASE RevokeByRefreshToken(p)
    <3>1. request[p].grant \in GrantIds /\ \A q \in Requests : request'[q] \in {request[q], Idle}
      BY <2>1 DEF RevokeByRefreshToken, At, End, OAuthInv, RequestInv, ReadsExist, Existing, TypeOK
    <3> QED BY <1>1, <2>1, <3>1, RevokeKeeps DEF RevokeByRefreshToken, OAuthInv, RowsInv
  <2>2. CASE \E c \in Codes : IssueCode(p, c)
    BY <1>1, <2>2, IssueKeeps DEF OAuthInv, RowsInv
  <2>3. CASE Consume(p)
    BY <1>1, <2>3, ConsumeKeeps DEF OAuthInv, RowsInv
  <2>4. CASE \E g \in GrantIds : CreateGrant(p, g)
    BY <1>1, <2>4, CreateKeeps DEF OAuthInv, RowsInv
  <2>5. CASE \E g \in GrantIds : Swap(p, g)
    BY <1>1, <2>5, SwapKeeps DEF OAuthInv, RowsInv
  <2>6. CASE \/ \E requested, clientScopes \in SUBSET Scopes : Consent(p, requested, clientScopes)
             \/ \E c \in Codes : ReadCode(p, c)
             \/ \E g \in GrantIds : ReadGrant(p, g) \/ RevokeRead(p, g)
             \/ RotateRead(p) \/ Abandon(p)
    <3>1. OnlyMoves(p) /\ UNCHANGED <<code, grant, started>> /\ ReadsExist(p)'
      BY <2>6, MoveSteps
    <3> QED BY <1>1, <3>1, MoveKeeps DEF OAuthInv, RowsInv
  <2> QED BY <1>4, <2>1, <2>2, <2>3, <2>4, <2>5, <2>6 DEF RequestStep
<1> QED BY <1>2, <1>3, <1>4 DEF Next

\* The invariant holds throughout.
LEMMA OAuthInvariant == Spec => []OAuthInv
<1>1. OAuthInv /\ [Next]_vars => OAuthInv'
  BY OAuthStep
<1> QED BY <1>1, InitOAuthInv, PTL DEF Spec

-----------------------------------------------------------------------------
\* The rows of remoteMcpOAuthStore.js keep their types.
THEOREM TypeCorrect == Spec => []TypeOK
<1>1. OAuthInv => TypeOK
  BY DEF OAuthInv
<1> QED BY <1>1, OAuthInvariant, PTL

\* consumeRemoteMcpAuthorizationCode and rotateRemoteMcpOAuthGrant leave at
\* most one grant of a code that is not rotated.
THEOREM CodeGrantsOnce == Spec => []OneGrantPerCode
<1>1. OAuthInv => OneGrantPerCode
  BY DEF OAuthInv
<1> QED BY <1>1, OAuthInvariant, PTL

\* A rotated grant has one successor, of the same code and scopes.
THEOREM SuccessorsKeepTerms == Spec => []SuccessorKeepsTerms
<1>1. OAuthInv => SuccessorKeepsTerms
  BY DEF OAuthInv
<1> QED BY <1>1, OAuthInvariant, PTL

\* rotateRemoteMcpOAuthGrant never extends the term that began with the
\* exchange of the code.
THEOREM TermIsFixed == Spec => []SessionTermIsFixed
<1>1. OAuthInv => SessionTermIsFixed
  BY DEF OAuthInv
<1> QED BY <1>1, OAuthInvariant, PTL

\* No code or grant has a scope without the user's consent, although POST
\* /code merges what it read of the grants in force.
THEOREM ScopesAreConsented == Spec => []ScopesWereConsented
<1>1. OAuthInv => ScopesWereConsented
  BY DEF OAuthInv
<1> QED BY <1>1, OAuthInvariant, PTL

\* A step does not revive a session: its code is spent, no request is about
\* to create a grant for it, and only an active grant can be rotated.
LEMMA DisconnectStep ==
    ASSUME OAuthInv, [Next]_vars, NEW c \in Codes, Disconnected(c)
    PROVE  Disconnected(c)'
<1>1. TypeOK /\ \A q \in Requests : RequestInv(q)
  BY DEF OAuthInv
<1>2. CASE Tick \/ UNCHANGED vars
  BY <1>2 DEF Tick, vars, Disconnected, At
<1>3. ASSUME NEW g \in GrantIds, RevokeGrant(g),
             \A q \in Requests : request'[q] \in {request[q], Idle}
      PROVE  Disconnected(c)'
  <2>1. /\ grant'[g].status = "revoked" /\ code' = code
        /\ \A k \in GrantIds \ {g} : grant'[k] = grant[k]
    BY <1>1, <1>3 DEF RevokeGrant, TypeOK
  <2> QED BY <1>3, <2>1 DEF Disconnected, At, Idle
<1>4. ASSUME NEW p \in Requests, RequestStep(p) PROVE Disconnected(c)'
  <2>1. CASE RevokeByRefreshToken(p)
    <3>1. request[p].grant \in GrantIds /\ \A q \in Requests : request'[q] \in {request[q], Idle}
      BY <1>1, <2>1 DEF RevokeByRefreshToken, At, End, RequestInv, ReadsExist, Existing, TypeOK
    <3> QED BY <1>3, <2>1, <3>1 DEF RevokeByRefreshToken
  <2>2. ASSUME NEW d \in Codes, IssueCode(p, d) PROVE Disconnected(c)'
    BY <1>1, <2>2 DEF IssueCode, End, Disconnected, At, Idle, TypeOK
  <2>3. CASE Consume(p)
    <3>1. request[p].code \in Codes /\ request[p].code # c
      BY <1>1, <2>3 DEF Consume, At, Usable, RequestInv, ReadsExist, Disconnected
    <3> QED BY <1>1, <2>3, <3>1 DEF Consume, Goto, Disconnected, At, TypeOK
  <2>4. ASSUME NEW g \in GrantIds, CreateGrant(p, g) PROVE Disconnected(c)'
    <3>1. request[p].code # c
      BY <2>4 DEF CreateGrant, Disconnected
    <3> QED BY <1>1, <2>4, <3>1 DEF CreateGrant, End, Disconnected, At, Idle, TypeOK
  <2>5. ASSUME NEW h \in GrantIds, Swap(p, h) PROVE Disconnected(c)'
    <3>1. request[p].grant \in GrantIds /\ grant[request[p].grant].code # c
      BY <1>1, <2>5 DEF Swap, At, RequestInv, ReadsExist, Existing, Disconnected
    <3> QED BY <1>1, <2>5, <3>1 DEF Swap, Rotated, End, Disconnected, At, Idle, TypeOK
  <2>6. CASE \/ \E requested, clientScopes \in SUBSET Scopes : Consent(p, requested, clientScopes)
             \/ \E d \in Codes : ReadCode(p, d)
             \/ \E g \in GrantIds : ReadGrant(p, g) \/ RevokeRead(p, g)
             \/ RotateRead(p) \/ Abandon(p)
    <3>1. OnlyMoves(p) /\ UNCHANGED <<code, grant, started>>
      BY <2>6, MoveSteps
    <3> QED BY <3>1 DEF OnlyMoves, Disconnected, At
  <2> QED BY <1>4, <2>1, <2>2, <2>3, <2>4, <2>5, <2>6 DEF RequestStep
<1> QED BY <1>2, <1>3, <1>4 DEF Next, RevokeByAccessJti

\* Neither a late rotation nor a second exchange of the code revives a
\* session that revokeRemoteMcpGrant ended.
THEOREM DisconnectedForGood == Spec => DisconnectIsFinal
<1>1. OAuthInv /\ [Next]_vars => [\A c \in Codes : Disconnected(c) => Disconnected(c)']_vars
  BY DisconnectStep
<1> QED BY <1>1, OAuthInvariant, PTL DEF Spec, DisconnectIsFinal
=============================================================================
