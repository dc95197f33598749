----------------------------- MODULE CsrfProofs -----------------------------
(* What Csrf guarantees for any number of tabs and any secrets.            *)
EXTENDS Csrf, FiniteSetTheorems, TLAPS

-----------------------------------------------------------------------------
(* Types *)

Requesting ==
    [at : {"none", "sent", "done"}, mutates : BOOLEAN, cookie : Tokens \cup {NoToken},
     header : Tokens \cup {NoToken}, token : Tokens \cup {NoToken}, sets : BOOLEAN,
     status : {0, 200, 403}]

\* A tab holds two tokens at most: its page's, which a submission repeats in
\* its header, and one that travels.
HoldsTwo(t) ==
    /\ req[t].at = "none" => req[t] = NoRequest
    /\ req[t].at = "sent" =>
        /\ req[t].token = NoToken /\ ~ req[t].sets /\ req[t].status = 0
        /\ req[t].header = IF req[t].mutates THEN page[t] ELSE NoToken
        /\ req[t].mutates => page[t] # NoToken
    /\ req[t].at = "done" =>
        /\ req[t].cookie = NoToken /\ req[t].header = NoToken
        /\ req[t].token # NoToken /\ req[t].status # 0

CsrfTypes ==
    /\ secret \in Secrets
    /\ cookie \in Tokens \cup {NoToken}
    /\ page \in [Tabs -> Tokens \cup {NoToken}]
    /\ req \in [Tabs -> Requesting]
    /\ calm \in [Tabs -> BOOLEAN]
    /\ \A t \in Tabs : HoldsTwo(t)

LEMMA TokensAreNot == NoToken \notin Tokens
<1>1. Cardinality(Tabs) \in Nat
    BY CsrfAssumption, FS_CardinalityType
<1>2. QED
    BY <1>1 DEF NoToken, Tokens, Nonces

-----------------------------------------------------------------------------
(* A new token *)

\* The token that travels in a tab's request or answer.
Travelling(t) == IF req[t].at = "sent" THEN req[t].cookie ELSE req[t].token

LEMMA InUseIsSmall ==
    ASSUME CsrfTypes
    PROVE  InUse \subseteq {NoToken, cookie} \cup {page[t] : t \in Tabs}
                           \cup {Travelling(t) : t \in Tabs}
<1>1. SUFFICES ASSUME NEW t \in Tabs
               PROVE  {req[t].cookie, req[t].header, req[t].token}
                        \subseteq {NoToken, page[t], Travelling(t)}
    BY DEF InUse
<1>2. HoldsTwo(t) /\ req[t].at \in {"none", "sent", "done"}
    BY DEF CsrfTypes, Requesting
<1>3. QED
    BY <1>2 DEF HoldsTwo, Travelling, NoRequest

LEMMA ImageIsSmall ==
    ASSUME NEW S, IsFiniteSet(S), NEW f
    PROVE  /\ IsFiniteSet({f[x] : x \in S})
           /\ Cardinality({f[x] : x \in S}) <= Cardinality(S)
<1> DEFINE T == {f[x] : x \in S}
           g == [x \in S |-> f[x]]
<1>1. g \in Surjection(S, T)
    BY DEF Surjection
<1>2. QED
    BY <1>1, FS_Surjection

\* There is always a nonce that neither the browser nor an answer holds.
LEMMA FreshNonce ==
    ASSUME CsrfTypes
    PROVE  \E n \in Nonces : n \notin {token.nonce : token \in InUse}
<1> DEFINE k == Cardinality(Tabs)
           P == {page[t] : t \in Tabs}
           travelling == [t \in Tabs |-> Travelling(t)]
           Q == {travelling[t] : t \in Tabs}
           A == P \cup Q
           B == A \cup {cookie}
           nonce == [token \in B |-> token.nonce]
           used == {nonce[token] : token \in B}
<1>1. k \in Nat
    BY CsrfAssumption, FS_CardinalityType
<1>2. /\ IsFiniteSet(P) /\ Cardinality(P) \in Nat /\ Cardinality(P) <= k
      /\ IsFiniteSet(Q) /\ Cardinality(Q) \in Nat /\ Cardinality(Q) <= k
    BY CsrfAssumption, ImageIsSmall, FS_CardinalityType
<1>3. IsFiniteSet(A) /\ Cardinality(A) \in Nat /\ Cardinality(A) <= 2 * k
    <2>1. IsFiniteSet(P \cap Q)
        BY <1>2, FS_Intersection
    <2>2. /\ IsFiniteSet(A)
          /\ Cardinality(A) = Cardinality(P) + Cardinality(Q) - Cardinality(P \cap Q)
        BY <1>2, FS_Union
    <2>3. Cardinality(P \cap Q) \in Nat /\ Cardinality(A) \in Nat
        BY <2>1, <2>2, FS_CardinalityType
    <2> HIDE DEF A, P, Q, k
    <2>4. QED
        BY <1>1, <1>2, <2>2, <2>3
<1>4. IsFiniteSet(B) /\ Cardinality(B) \in Nat /\ Cardinality(B) <= 2 * k + 1
    <2>1. /\ IsFiniteSet(B)
          /\ Cardinality(B) = IF cookie \in A THEN Cardinality(A) ELSE Cardinality(A) + 1
        BY <1>3, FS_AddElement
    <2> HIDE DEF A, B, k
    <2>2. QED
        BY <1>1, <1>3, <2>1
<1>5. IsFiniteSet(used) /\ Cardinality(used) \in Nat /\ Cardinality(used) <= 2 * k + 1
    <2>1. IsFiniteSet(used) /\ Cardinality(used) <= Cardinality(B)
        <3> HIDE DEF B, nonce
        <3>1. QED
            BY <1>4, ImageIsSmall
    <2>2. Cardinality(used) \in Nat
        BY <2>1, FS_CardinalityType
    <2> HIDE DEF used, B, k
    <2>3. Cardinality(B) \in Nat /\ Cardinality(B) <= 2 * k + 1
        BY <1>4
    <2>4. QED
        BY <1>1, <2>1, <2>2, <2>3
<1>6. IsFiniteSet(Nonces) /\ Cardinality(Nonces) = 2 * k + 2
    BY <1>1, FS_Interval DEF Nonces
<1>7. PICK n \in Nonces : n \notin used
    <2>1. CASE Nonces \subseteq used
        <3>1. Cardinality(Nonces) <= Cardinality(used)
            BY <1>5, <2>1, FS_Subset
        <3> HIDE DEF used, k
        <3>2. QED
            BY <1>1, <1>5, <1>6, <3>1
    <2>2. QED
        BY <2>1
<1>8. n # 0
    BY <1>1, <1>7 DEF Nonces
<1>9. n \notin {token.nonce : token \in InUse}
    <2>1. ASSUME NEW token \in InUse PROVE token.nonce # n
        <3>1. token \in B \cup {NoToken}
            BY <2>1, InUseIsSmall
        <3>2. CASE token \in B
            <4>1. nonce[token] \in used /\ nonce[token] = token.nonce
                BY <3>2
            <4>2. QED
                BY <4>1, <1>7
        <3>3. CASE token = NoToken
            BY <3>3, <1>8 DEF NoToken
        <3>4. QED
            BY <3>1, <3>2, <3>3
    <2>2. QED
        BY <2>1
<1>10. QED
    BY <1>7, <1>9

LEMMA NewToken ==
    ASSUME CsrfTypes
    PROVE  generateToken \in Tokens /\ generateToken.secret = secret /\ generateToken \notin InUse
<1> DEFINE n == generateToken.nonce
<1>1. n \in Nonces /\ n \notin {token.nonce : token \in InUse}
    BY FreshNonce DEF generateToken
<1>2. QED
    BY <1>1 DEF generateToken, Tokens, CsrfTypes

LEMMA ContextTokenType ==
    ASSUME CsrfTypes, NEW sent \in Tokens \cup {NoToken}
    PROVE  ContextToken(sent) \in Tokens /\ ContextToken(sent).secret = secret
BY NewToken DEF ContextToken, validSignature

-----------------------------------------------------------------------------
(* Every step keeps the types *)

LEMMA InitTypes == Init => CsrfTypes
BY DEF Init, CsrfTypes, Requesting, HoldsTwo, NoRequest

LEMMA NoRequestType == NoRequest \in Requesting
BY DEF NoRequest, Requesting

\* What the middleware makes of a request that is under way.
LEMMA AnswerType ==
    ASSUME CsrfTypes, NEW t \in Tabs, NEW token \in Tokens, req[t].at = "sent"
    PROVE  LET answer == Answer(req[t], token)
           IN  /\ answer \in Requesting
               /\ answer.at = "done" /\ answer.mutates = req[t].mutates
               /\ answer.cookie = NoToken /\ answer.header = NoToken
               /\ answer.token = token /\ answer.status # 0
               /\ answer.sets <=> token # req[t].cookie
               /\ answer.status = 403 <=> req[t].mutates /\ req[t].header # token
<1>1. req[t].mutates \in BOOLEAN
    BY DEF CsrfTypes, Requesting
<1> DEFINE answer == Answer(req[t], token)
<1>3. /\ answer.at = "done" /\ answer.mutates = req[t].mutates
      /\ answer.cookie = NoToken /\ answer.header = NoToken /\ answer.token = token
    BY DEF Answer
<1>4. answer.sets <=> token # req[t].cookie
    BY DEF Answer
<1>5. answer.status = IF req[t].mutates /\ req[t].header # token THEN 403 ELSE 200
    BY DEF Answer
<1>6. answer \in Requesting
    <2> DEFINE sets == token # req[t].cookie
               status == IF req[t].mutates /\ req[t].header # token THEN 403 ELSE 200
    <2>1. sets \in BOOLEAN /\ status \in {200, 403}
        OBVIOUS
    <2>2. answer = [at |-> "done", mutates |-> req[t].mutates, cookie |-> NoToken,
                    header |-> NoToken, token |-> token, sets |-> sets, status |-> status]
        BY DEF Answer
    <2> HIDE DEF sets, status, answer
    <2>3. PICK mutates \in BOOLEAN : mutates = req[t].mutates
        BY <1>1
    <2>4. answer = [at |-> "done", mutates |-> mutates, cookie |-> NoToken,
                    header |-> NoToken, token |-> token, sets |-> sets, status |-> status]
        BY <2>2, <2>3
    <2>5. QED
        BY <2>1, <2>4 DEF Requesting
<1>7. QED
    BY <1>3, <1>4, <1>5, <1>6

\* A step of one tab leaves the others as they are.
LEMMA OneTab ==
    ASSUME CsrfTypes, NEW t \in Tabs, NEW next \in Requesting, NEW shows \in Tokens \cup {NoToken},
           secret' \in Secrets, cookie' \in Tokens \cup {NoToken},
           page' = [page EXCEPT ![t] = shows], req' = [req EXCEPT ![t] = next],
           calm' \in [Tabs -> BOOLEAN], HoldsTwo(t)'
    PROVE  CsrfTypes'
<1>1. page' \in [Tabs -> Tokens \cup {NoToken}] /\ req' \in [Tabs -> Requesting]
    BY DEF CsrfTypes
<1>2. \A q \in Tabs \ {t} : HoldsTwo(q)'
    BY DEF CsrfTypes, HoldsTwo
<1>3. QED
    BY <1>1, <1>2 DEF CsrfTypes

\* A step of a tab, or of the middleware for it, within the site.
Browses(t) == Load(t) \/ Submit(t) \/ CSRF(t) \/ Receive(t) \/ Lose(t)

LEMMA TabTypes ==
    ASSUME CsrfTypes, NEW t \in Tabs, Browses(t) \/ LoadCrossSite(t)
    PROVE  CsrfTypes'
<1>1. req[t] \in Requesting /\ page[t] \in Tokens \cup {NoToken} /\ HoldsTwo(t)
    BY DEF CsrfTypes
<1>2. CASE Load(t) \/ LoadCrossSite(t)
    <2>1. PICK sent \in {cookie, NoToken} :
                req' = [req EXCEPT ![t] = Request(FALSE, sent, NoToken)]
        BY <1>2 DEF Load, LoadCrossSite
    <2> DEFINE next == Request(FALSE, sent, NoToken)
    <2>2. next \in Requesting
        BY DEF CsrfTypes, Request, Requesting
    <2>3. page' = [page EXCEPT ![t] = page[t]]
        BY <1>2 DEF CsrfTypes, Load, LoadCrossSite
    <2>4. HoldsTwo(t)'
        BY <2>1, <2>3 DEF CsrfTypes, HoldsTwo, Request
    <2>5. calm' \in [Tabs -> BOOLEAN]
        BY <1>2 DEF CsrfTypes, Load, LoadCrossSite, Settled, validSignature
    <2>6. secret' \in Secrets /\ cookie' \in Tokens \cup {NoToken}
        BY <1>2 DEF CsrfTypes, Load, LoadCrossSite
    <2> HIDE DEF next
    <2>7. QED
        BY <1>1, <2>1, <2>2, <2>3, <2>4, <2>5, <2>6, OneTab DEF next
<1>3. CASE Submit(t)
    <2> DEFINE next == Request(TRUE, cookie, page[t])
    <2>1. next \in Requesting
        BY <1>1 DEF CsrfTypes, Request, Requesting
    <2>2. req' = [req EXCEPT ![t] = next] /\ page' = [page EXCEPT ![t] = page[t]]
        BY <1>3 DEF CsrfTypes, Submit
    <2>3. HoldsTwo(t)'
        BY <1>3, <2>2 DEF CsrfTypes, HoldsTwo, Request, Submit
    <2>4. QED
        BY <1>1, <1>3, <2>1, <2>2, <2>3, OneTab DEF CsrfTypes, Submit
<1>4. CASE CSRF(t)
    <2> DEFINE token == ContextToken(req[t].cookie)
               next == Answer(req[t], token)
    <2>1. token \in Tokens /\ token # NoToken
        BY <1>1, ContextTokenType, TokensAreNot DEF Requesting
    <2>2. /\ next \in Requesting /\ next.at = "done" /\ next.cookie = NoToken
          /\ next.header = NoToken /\ next.token # NoToken /\ next.status # 0
        BY <1>4, <2>1, AnswerType DEF CSRF
    <2>3. req' = [req EXCEPT ![t] = next] /\ page' = [page EXCEPT ![t] = page[t]]
        BY <1>4 DEF CsrfTypes, CSRF
    <2>4. HoldsTwo(t)'
        <3> HIDE DEF next
        <3>1. req'[t] = next
            BY <2>3 DEF CsrfTypes
        <3>2. QED
            BY <2>2, <3>1 DEF HoldsTwo
    <2>5. QED
        BY <1>1, <1>4, <2>2, <2>3, <2>4, OneTab DEF CsrfTypes, CSRF
<1>5. CASE Receive(t) \/ Lose(t)
    <2>1. req' = [req EXCEPT ![t] = NoRequest] /\ UNCHANGED <<secret, calm>>
        BY <1>5 DEF Receive, Lose
    <2>2. PICK shows \in {page[t], req[t].token, NoToken} : page' = [page EXCEPT ![t] = shows]
        BY <1>5 DEF CsrfTypes, Receive, Lose
    <2>3. cookie' \in {cookie, req[t].token}
        BY <1>5 DEF Receive, Lose
    <2>4. HoldsTwo(t)'
        BY <2>1 DEF CsrfTypes, HoldsTwo, NoRequest
    <2>5. shows \in Tokens \cup {NoToken} /\ cookie' \in Tokens \cup {NoToken}
        BY <1>1, <2>2, <2>3 DEF CsrfTypes, Requesting
    <2>6. QED
        BY <2>1, <2>2, <2>4, <2>5, NoRequestType, OneTab DEF CsrfTypes
<1>6. QED
    BY <1>2, <1>3, <1>4, <1>5 DEF Browses

LEMMA TypesStep == CsrfTypes /\ [Next]_vars => CsrfTypes'
<1> SUFFICES ASSUME CsrfTypes, [Next]_vars PROVE CsrfTypes'
    OBVIOUS
<1>1. CASE UNCHANGED vars
    BY <1>1 DEF vars, CsrfTypes, HoldsTwo
<1>2. ASSUME NEW new \in Secrets, Restart(new) PROVE CsrfTypes'
    <2>1. calm' \in [Tabs -> BOOLEAN]
        BY <1>2 DEF CsrfTypes, Restart
    <2>2. QED
        BY <1>2, <2>1 DEF CsrfTypes, Restart, HoldsTwo
<1>3. QED
    BY <1>1, <1>2, TabTypes DEF Next, Browses

LEMMA TypesInvariance == Spec => []CsrfTypes
BY InitTypes, TypesStep, PTL DEF Spec

LEMMA TypesMeanTypeOK == CsrfTypes => TypeOK
<1> SUFFICES ASSUME CsrfTypes PROVE TypeOK
    OBVIOUS
<1>1. ASSUME NEW t \in Tabs
      PROVE  /\ req[t].at \in {"none", "sent", "done"}
             /\ req[t].at = "done" => req[t].token \in Tokens /\ req[t].status \in {200, 403}
             /\ req[t].at = "sent" /\ req[t].mutates => req[t].header \in Tokens
    <2>1. req[t] \in Requesting /\ page[t] \in Tokens \cup {NoToken} /\ HoldsTwo(t)
        BY DEF CsrfTypes
    <2>2. QED
        BY <2>1 DEF HoldsTwo, Requesting
<1>2. QED
    BY <1>1 DEF CsrfTypes, TypeOK

\* Every page loaded through the middleware and every accepted or refused
\* request carries a token, for any number of tabs: generateToken finds a
\* nonce that nobody holds (csrf.go:33).
THEOREM CsrfTypeCorrect == Spec => []TypeOK
BY TypesInvariance, TypesMeanTypeOK, PTL

-----------------------------------------------------------------------------
(* A settled browser *)

LEMMA NoRequestSettles == NoRequest.at = "none"
BY DEF NoRequest

\* In a settled browser the middleware answers with the browser's token.
LEMMA SettledAnswer ==
    ASSUME CsrfTypes, Settled, NEW t \in Tabs, CSRF(t)
    PROVE  /\ req' = [req EXCEPT ![t] = Answer(req[t], cookie)]
           /\ req'[t].at = "done" /\ req'[t].mutates = req[t].mutates
           /\ req'[t].token = cookie /\ ~ req'[t].sets
           /\ req'[t].status = 403 <=> req[t].mutates /\ req[t].header # cookie
<1>1. req[t].at = "sent" /\ req[t].cookie = cookie /\ cookie \in Tokens
    BY DEF CSRF, Settled, CsrfTypes
<1>2. ContextToken(req[t].cookie) = cookie
    BY <1>1 DEF Settled, ContextToken
<1>3. req' = [req EXCEPT ![t] = Answer(req[t], cookie)]
    BY <1>2 DEF CSRF
<1>4. req'[t] = Answer(req[t], cookie)
    BY <1>3 DEF CsrfTypes
<1>5. QED
    BY <1>1, <1>3, <1>4, AnswerType

LEMMA TabSettles ==
    ASSUME CsrfTypes, Settled, NEW t \in Tabs, Browses(t)
    PROVE  Settled' /\ cookie' = cookie
<1>1. CASE Load(t) \/ Submit(t)
    <2>1. /\ req'[t].at = "sent" /\ req'[t].cookie = cookie
          /\ \A q \in Tabs \ {t} : req'[q] = req[q]
        BY <1>1 DEF Load, Submit, CsrfTypes, Request
    <2>2. UNCHANGED <<secret, cookie>>
        BY <1>1 DEF Load, Submit
    <2>3. QED
        BY <2>1, <2>2 DEF Settled, validSignature
<1>2. CASE CSRF(t)
    <2>1. req'[t].at = "done" /\ ~ req'[t].sets
        BY <1>2, SettledAnswer
    <2>2. (\A q \in Tabs \ {t} : req'[q] = req[q]) /\ UNCHANGED <<secret, cookie>>
        BY <1>2 DEF CSRF, CsrfTypes
    <2>3. QED
        BY <2>1, <2>2 DEF Settled, validSignature
<1>3. CASE Receive(t) \/ Lose(t)
    <2>1. UNCHANGED <<secret, cookie>>
        BY <1>3 DEF Receive, Lose, Settled
    <2>2. req'[t].at = "none" /\ \A q \in Tabs \ {t} : req'[q] = req[q]
        BY <1>3, NoRequestSettles DEF Receive, Lose, CsrfTypes
    <2>3. QED
        BY <2>1, <2>2 DEF Settled, validSignature
<1>4. QED
    BY <1>1, <1>2, <1>3 DEF Browses

LEMMA StepSettles ==
    CsrfTypes /\ [Next]_vars =>
        (Settled /\ secret' = secret /\ ~ (\E t \in Tabs : LoadCrossSite(t))
            => Settled' /\ cookie' = cookie)
<1> SUFFICES ASSUME CsrfTypes, [Next]_vars, Settled, secret' = secret,
                    ~ (\E t \in Tabs : LoadCrossSite(t))
             PROVE  Settled' /\ cookie' = cookie
    OBVIOUS
<1>1. CASE UNCHANGED vars
    BY <1>1 DEF vars, Settled, validSignature
<1>2. ASSUME NEW new \in Secrets, Restart(new) PROVE Settled' /\ cookie' = cookie
    BY <1>2 DEF Restart, Settled, validSignature
<1>3. QED
    BY <1>1, <1>2, TabSettles DEF Next, Browses

\* Once every request and answer in flight agrees with a valid cookie, no
\* number of tabs replaces it until the secret changes or one of them comes in
\* from another site: the middleware issues a token only to a request without
\* a valid one (csrf.go:33).
THEOREM CsrfSettles == Spec => CookieSettles
BY TypesInvariance, StepSettles, PTL DEF Spec, CookieSettles

-----------------------------------------------------------------------------
(* Calm pages *)

\* A calm tab belongs to a settled browser, and its page, or the page that it
\* is waiting for, holds the browser's token; what it submits names that token.
CalmTab(t) ==
    calm[t] =>
        /\ Settled
        /\ req[t].at = "none" \/ req[t].mutates => page[t] \in {NoToken, cookie}
        /\ req[t].at = "done" => req[t].token = cookie /\ req[t].status # 403

CalmInv == \A t \in Tabs : CalmTab(t)

LEMMA TabStaysCalm ==
    ASSUME CsrfTypes, CalmInv, NEW t \in Tabs, Browses(t)
    PROVE  CalmInv'
<1>1. \A q \in Tabs \ {t} : page'[q] = page[q] /\ req'[q] = req[q] /\ calm'[q] = calm[q]
    BY DEF Browses, Load, Submit, CSRF, Receive, Lose, CsrfTypes
<1>2. \A q \in Tabs \ {t} : CalmTab(q)'
    BY <1>1, TabSettles DEF CalmInv, CalmTab
<1>3. HoldsTwo(t) /\ req[t].mutates \in BOOLEAN /\ calm[t] \in BOOLEAN
    BY DEF CsrfTypes, Requesting
<1>4. CASE Load(t)
    <2>1. /\ req'[t].at = "sent" /\ ~ req'[t].mutates
          /\ calm'[t] <=> Settled
        BY <1>4 DEF Load, CsrfTypes, Request
    <2>2. CalmTab(t)'
        BY <1>4, <2>1, TabSettles DEF CalmTab
    <2>3. QED
        BY <1>2, <2>2 DEF CalmInv
<1>5. CASE Submit(t)
    <2>1. req'[t].at = "sent" /\ UNCHANGED <<cookie, page, calm>> /\ req[t].at = "none"
        BY <1>5 DEF Submit, CsrfTypes, Request
    <2>2. CalmTab(t)'
        BY <1>5, <2>1, TabSettles DEF CalmInv, CalmTab
    <2>3. QED
        BY <1>2, <2>2 DEF CalmInv
<1>6. CASE CSRF(t)
    <2>1. UNCHANGED <<cookie, page, calm>> /\ req[t].at = "sent"
        BY <1>6 DEF CSRF
    <2>2. CASE calm[t]
        <3>1. Settled
            BY <2>2 DEF CalmInv, CalmTab
        <3>2. req[t].mutates => req[t].header = cookie
            BY <1>3, <2>1, <2>2 DEF HoldsTwo, CalmInv, CalmTab
        <3>3. /\ req'[t].token = cookie /\ req'[t].status # 403
              /\ req'[t].mutates = req[t].mutates
            BY <1>6, <3>1, <3>2, SettledAnswer
        <3>4. req'[t].at = "done"
            BY <1>6, <3>1, SettledAnswer
        <3>5. CalmTab(t)'
            BY <1>6, <2>1, <2>2, <3>1, <3>3, <3>4, TabSettles DEF CalmInv, CalmTab
        <3>6. QED
            BY <1>2, <3>5 DEF CalmInv
    <2>3. CASE ~ calm[t]
        BY <1>2, <2>1, <2>3 DEF CalmInv, CalmTab
    <2>4. QED
        BY <2>2, <2>3
<1>7. CASE Receive(t) \/ Lose(t)
    <2>1. req'[t].at = "none" /\ UNCHANGED calm
        BY <1>7, NoRequestSettles DEF Receive, Lose, CsrfTypes
    <2>2. CASE calm[t]
        <3>1. Settled /\ Settled' /\ cookie' = cookie
            BY <1>7, <2>2, TabSettles DEF CalmInv, CalmTab
        <3>2. page'[t] \in {NoToken, cookie}
            BY <1>7, <2>2 DEF Receive, Lose, CalmInv, CalmTab, CsrfTypes
        <3>3. CalmTab(t)'
            BY <2>1, <3>1, <3>2 DEF CalmTab
        <3>4. QED
            BY <1>2, <3>3 DEF CalmInv
    <2>3. CASE ~ calm[t]
        BY <1>2, <2>1, <2>3 DEF CalmInv, CalmTab
    <2>4. QED
        BY <2>2, <2>3
<1>8. QED
    BY <1>4, <1>5, <1>6, <1>7 DEF Browses

LEMMA StepStaysCalm == CsrfTypes /\ CalmInv /\ [Next]_vars => CalmInv'
<1> SUFFICES ASSUME CsrfTypes, CalmInv, [Next]_vars PROVE CalmInv'
    OBVIOUS
<1>1. CASE UNCHANGED vars
    BY <1>1 DEF vars, CalmInv, CalmTab, Settled, validSignature
<1>2. ASSUME NEW new \in Secrets, Restart(new) PROVE CalmInv'
    <2>1. \A t \in Tabs : calm'[t] <=> calm[t] /\ new = secret
        BY <1>2 DEF Restart, CsrfTypes
    <2>2. CASE new = secret
        BY <1>2, <2>1, <2>2 DEF Restart, CalmInv, CalmTab, Settled, validSignature
    <2>3. CASE new # secret
        BY <2>1, <2>3 DEF CalmInv, CalmTab
    <2>4. QED
        BY <2>2, <2>3
<1>3. ASSUME NEW t \in Tabs, LoadCrossSite(t) PROVE CalmInv'
    <2>1. \A q \in Tabs : ~ calm'[q]
        BY <1>3 DEF LoadCrossSite
    <2>2. QED
        BY <2>1 DEF CalmInv, CalmTab
<1>4. QED
    BY <1>1, <1>2, <1>3, TabStaysCalm DEF Next, Browses

\* Nobody is refused who loaded the page when the browser had settled on a
\* token, until the secret changes or a tab comes in from another site: with
\* any number of tabs, lost requests and restarts (csrf.go:52).
THEOREM CalmAccepted == Spec => []CalmPagesAreAccepted
<1>1. Init => CalmInv
    BY DEF Init, CalmInv, CalmTab
<1>2. CalmInv => CalmPagesAreAccepted
    BY DEF CalmInv, CalmTab, CalmPagesAreAccepted
<1>3. QED
    BY <1>1, <1>2, TypesInvariance, StepStaysCalm, PTL DEF Spec

-----------------------------------------------------------------------------
(* Rotation *)

\* What is accepted was issued under the secret that runs now (csrf.go:52).
THEOREM RotatedRefused == Spec => RotationRefuses
<1>1. ASSUME CsrfTypes, [Next]_vars, NEW t \in Tabs,
             req[t].at = "sent", req'[t].at = "done", req[t].mutates, req'[t].status = 200
      PROVE  req[t].header.secret = secret
    <2>1. CSRF(t)
        BY <1>1, NoRequestSettles
        DEF Next, vars, Load, LoadCrossSite, Submit, CSRF, Receive, Lose, Restart, CsrfTypes, Request
    <2>2. ContextToken(req[t].cookie) \in Tokens /\ ContextToken(req[t].cookie).secret = secret
        BY <1>1, ContextTokenType DEF CsrfTypes, Requesting
    <2>3. req'[t] = Answer(req[t], ContextToken(req[t].cookie))
        BY <1>1, <2>1 DEF CSRF, CsrfTypes
    <2>4. req[t].header = ContextToken(req[t].cookie)
        BY <1>1, <2>2, <2>3, AnswerType
    <2>5. QED
        BY <2>2, <2>4
<1>2. CsrfTypes /\ [Next]_vars =>
        \A t \in Tabs :
            /\ req[t].at = "sent" /\ req'[t].at = "done"
            /\ req[t].mutates /\ req'[t].status = 200
            => req[t].header.secret = secret
    BY <1>1
<1>3. QED
    BY <1>2, TypesInvariance, PTL DEF Spec, RotationRefuses

=============================================================================
