-------------------------------- MODULE Csrf --------------------------------
(***************************************************************************)
(* The CSRF middleware (internal/middleware/csrf.go) and one browser.  The *)
(* server keeps nothing but its secret: a token is in the cookie _csrf and *)
(* in the page the browser shows (the meta tag of                          *)
(* templates/layouts/base.html, which htmx copies into X-CSRF-Token).  The *)
(* cookie belongs to the browser, a page to a tab, so the requests of      *)
(* several tabs decide together which token survives.                      *)
(*                                                                         *)
(* Only requests that the middleware sees are modelled: the admin pages.   *)
(* The pages outside it carry an empty token and submit nothing.           *)
(***************************************************************************)
EXTENDS Naturals, FiniteSets

CONSTANTS
    Tabs,     \* the browser's tabs
    Secrets   \* values CSRF_SECRET has had

ASSUME CsrfAssumption == Secrets # {} /\ IsFiniteSet(Tabs)

VARIABLES
    secret,  \* the secret of the server that runs now
    cookie,  \* the browser's cookie _csrf
    page,    \* the token in each tab's page
    req,     \* each tab's request in flight
    calm     \* history: the tab's page was asked for in a settled browser, and
             \* since then the secret has not changed and no tab has come in
             \* from another site

vars == <<secret, cookie, page, req, calm>>

\* Bound: the random parts of tokens.  A tab holds two tokens at most and the
\* browser one, so that there is always one that nobody holds.
Nonces == 1 .. 2 * Cardinality(Tabs) + 2

NoToken == [nonce |-> 0, secret |-> "none"]
Tokens == [nonce : Nonces, secret : Secrets]

NoRequest == [at |-> "none", mutates |-> FALSE, cookie |-> NoToken, header |-> NoToken,
              token |-> NoToken, sets |-> FALSE, status |-> 0]

\* A request on its way with the cookie sent; the header X-CSRF-Token is set
\* for what htmx sends.
Request(mutates, sent, header) ==
    [at |-> "sent", mutates |-> mutates, cookie |-> sent, header |-> header,
     token |-> NoToken, sets |-> FALSE, status |-> 0]

-----------------------------------------------------------------------------
(* The middleware *)

\* Mutant: the signature is not checked.
validSignature_Any(token) == TRUE

validSignature(token) == token.secret = secret

\* The tokens that the browser or a response holds somewhere.
InUse == {cookie} \cup {page[t] : t \in Tabs}
         \cup UNION {{req[t].cookie, req[t].header, req[t].token} : t \in Tabs}

\* 32 random bytes: a nonce that nobody holds, any one will do.
generateToken ==
    [nonce |-> CHOOSE n \in Nonces : n \notin {token.nonce : token \in InUse},
     secret |-> secret]

\* Mutant: every request gets a token of its own.
ContextToken_AlwaysNew(sent) == generateToken

\* The token a request continues with: its cookie's, or a new one.
ContextToken(sent) ==
    IF sent # NoToken /\ validSignature(sent) THEN sent ELSE generateToken

\* Mutant: the token is not put into the context.
Answer_WithoutToken(request, token) ==
    [at |-> "done", mutates |-> request.mutates, cookie |-> NoToken, header |-> NoToken,
     token |-> IF request.mutates THEN token ELSE NoToken,
     sets |-> token # request.cookie,
     status |-> IF request.mutates /\ request.header # token THEN 403 ELSE 200]

\* A mutating request must name the token in its header; the cookie is set
\* whenever the token is new, even if the request is refused.
Answer(request, token) ==
    [at |-> "done", mutates |-> request.mutates, cookie |-> NoToken, header |-> NoToken,
     token |-> token,
     sets |-> token # request.cookie,
     status |-> IF request.mutates /\ request.header # token THEN 403 ELSE 200]

CSRF(t) ==
    /\ req[t].at = "sent"
    /\ req' = [req EXCEPT ![t] = Answer(req[t], ContextToken(req[t].cookie))]
    /\ UNCHANGED <<secret, cookie, page, calm>>

\* A deployment: another process, perhaps with another CSRF_SECRET.
Restart(new) ==
    /\ secret' = new
    /\ calm' = [t \in Tabs |-> calm[t] /\ new = secret]
    /\ UNCHANGED <<cookie, page, req>>

-----------------------------------------------------------------------------
(* The browser *)

\* The cookie is valid, and every request and response in flight agrees.
Settled ==
    /\ cookie # NoToken /\ validSignature(cookie)
    /\ \A t \in Tabs :
        /\ req[t].at = "sent" => req[t].cookie = cookie
        /\ req[t].at = "done" => ~ req[t].sets

Init ==
    /\ secret \in Secrets
    /\ cookie = NoToken
    /\ page = [t \in Tabs |-> NoToken]
    /\ req = [t \in Tabs |-> NoRequest]
    /\ calm = [t \in Tabs |-> FALSE]

\* The tab asks for an admin page: by a link of the site, an address typed in
\* or a reload.
Load(t) ==
    /\ req[t].at = "none"
    /\ req' = [req EXCEPT ![t] = Request(FALSE, cookie, NoToken)]
    /\ calm' = [calm EXCEPT ![t] = Settled]
    /\ UNCHANGED <<secret, cookie, page>>

\* The tab comes in from another site: by a link in a mail or a wiki, or back
\* from the login.  A cookie with SameSite=Strict stays behind, but the one
\* that the answer sets is stored.
LoadCrossSite(t) ==
    /\ req[t].at = "none"
    /\ req' = [req EXCEPT ![t] = Request(FALSE, NoToken, NoToken)]
    /\ calm' = [q \in Tabs |-> FALSE]
    /\ UNCHANGED <<secret, cookie, page>>

\* htmx sends a form or a delete with the page's token.
Submit(t) ==
    /\ req[t].at = "none" /\ page[t] # NoToken
    /\ req' = [req EXCEPT ![t] = Request(TRUE, cookie, page[t])]
    /\ UNCHANGED <<secret, cookie, page, calm>>

\* A loaded page replaces the tab's; the answer to a submission does not
\* bring a new meta tag.
Receive(t) ==
    /\ req[t].at = "done"
    /\ cookie' = IF req[t].sets THEN req[t].token ELSE cookie
    /\ page' = [page EXCEPT ![t] = IF req[t].mutates THEN @ ELSE req[t].token]
    /\ req' = [req EXCEPT ![t] = NoRequest]
    /\ UNCHANGED <<secret, calm>>

\* The request or its answer is lost, or the user stops waiting for it.
Lose(t) ==
    /\ req[t].at # "none"
    /\ page' = [page EXCEPT ![t] = IF req[t].mutates THEN @ ELSE NoToken]
    /\ req' = [req EXCEPT ![t] = NoRequest]
    /\ UNCHANGED <<secret, cookie, calm>>

Next ==
    \/ \E t \in Tabs :
        Load(t) \/ LoadCrossSite(t) \/ Submit(t) \/ CSRF(t) \/ Receive(t) \/ Lose(t)
    \/ \E new \in Secrets : Restart(new)

Spec == Init /\ [][Next]_vars

-----------------------------------------------------------------------------
(* Properties *)

\* Every page loaded through the middleware carries a token, and so does the
\* cookie once it is set.
TypeOK ==
    /\ secret \in Secrets
    /\ cookie \in Tokens \cup {NoToken}
    /\ page \in [Tabs -> Tokens \cup {NoToken}]
    /\ calm \in [Tabs -> BOOLEAN]
    /\ \A t \in Tabs :
        /\ req[t].at \in {"none", "sent", "done"}
        /\ req[t].at = "done" => req[t].token \in Tokens /\ req[t].status \in {200, 403}
        /\ req[t].at = "sent" /\ req[t].mutates => req[t].header \in Tokens

\* A settled browser stays settled until the secret changes or a tab comes in
\* from another site: no number of tabs loading and submitting at the same
\* time replaces its cookie.
CookieSettles ==
    [][Settled /\ secret' = secret /\ ~ (\E t \in Tabs : LoadCrossSite(t))
       => Settled' /\ cookie' = cookie]_vars

\* A page asked for in a settled browser can be submitted: a refusal means
\* that the page was loaded while some tab was getting a new cookie, or that
\* since then the secret has changed or a tab has come in from another site.
CalmPagesAreAccepted ==
    \A t \in Tabs : req[t].at = "done" /\ req[t].status = 403 => ~ calm[t]

\* A page issued under another secret cannot be submitted, whatever cookies
\* the tabs have exchanged meanwhile.
RotationRefuses ==
    [][\A t \in Tabs :
        /\ req[t].at = "sent" /\ req'[t].at = "done"
        /\ req[t].mutates /\ req'[t].status = 200
        => req[t].header.secret = secret]_vars

=============================================================================
