-------------------------------- MODULE Pages --------------------------------
(***************************************************************************)
(* The members' pages: Home and UnitDashboard (internal/handler/home.go)   *)
(* behind Wrap (handler.go), Recovery and Logging (internal/middleware),   *)
(* rendered by the Renderer, over the units of a UnitRegistry that         *)
(* administrators change meanwhile.  A request starts here with the groups *)
(* that the identity middleware has put into its context.                  *)
(***************************************************************************)
EXTENDS Renderer

CONSTANTS
    UserGroups,    \* the groups in the requests' context
    UnitIds,       \* ids of units
    UnitContents,  \* [slug, info, groups]: what a form says of a unit
    HomePage,      \* page file home.html
    UnitPage       \* page file unit_placeholder.html

Slugs == {content.slug : content \in UnitContents}

UnitTypes ==
    [slug : Slugs, info : {content.info : content \in UnitContents},
     groups : {content.groups : content \in UnitContents}]

ASSUME PagesAssumption ==
    /\ HomePage \in Names /\ UnitPage \in Names
    /\ UnitContents \subseteq UnitTypes
    /\ None \notin UnitTypes \cup UnitIds

VARIABLES
    units,      \* the unit under each id
    unitsBorn,  \* ids that a unit has ever had
    page,       \* the requests
    log         \* the line that the last step has logged, or NoRequest

vars == <<renderer, units, unitsBorn, page, log>>

Registry == INSTANCE UnitRegistry WITH
    Ids <- UnitIds, Contents <- UnitContents, registry <- units, born <- unitsBorn

-----------------------------------------------------------------------------
(* Answers *)

\* Mutant: the recorder starts without a status.
Request_NoStatus(at, slug, hx, expect) ==
    [at |-> at, slug |-> slug, hx |-> hx, status |-> 0, sent |-> 0,
     expect |-> expect, shown |-> None, panicked |-> FALSE, failed |-> FALSE]

\* status: what the statusRecorder of Logging holds; sent: what the client
\* got.  expect: the unit that a redirect has named.  failed, history: the
\* database has returned an error.
Request(at, slug, hx, expect) ==
    [at |-> at, slug |-> slug, hx |-> hx, status |-> 200, sent |-> 0,
     expect |-> expect, shown |-> None, panicked |-> FALSE, failed |-> FALSE]

NoRequest == Request("idle", None, FALSE, None)

\* Mutant: the recorder's method hides the code from itself.
WriteHeader_Unrecorded(c, code) == [c EXCEPT !.sent = IF @ = 0 THEN code ELSE @]

\* statusRecorder.WriteHeader: the last code is recorded, the first is sent.
WriteHeader(c, code) == [c EXCEPT !.status = code, !.sent = IF @ = 0 THEN code ELSE @]

\* The first Write sends the header if nobody has.
Write(c) == [c EXCEPT !.sent = IF @ = 0 THEN 200 ELSE @]

\* Recovery, inside Logging.
Recovered(c) == [WriteHeader(c, 500) EXCEPT !.panicked = TRUE]

-----------------------------------------------------------------------------
(* Handlers *)

Init ==
    /\ RendererInit
    /\ Registry!Init
    /\ page = [r \in Slots |-> NoRequest]
    /\ log = NoRequest

\* The request goes on without the renderer.
Steps(r, next) ==
    /\ page' = [page EXCEPT ![r] = next]
    /\ log' = NoRequest
    /\ UNCHANGED <<renderer, units, unitsBorn>>

\* It hands over to the renderer.
Renders(r, next, name) ==
    /\ page' = [page EXCEPT ![r] = next]
    /\ log' = NoRequest
    /\ Begun(r, name)
    /\ UNCHANGED <<up, devMode, broken, templates, torn, abandoned, units, unitsBorn>>

\* It has been answered and is logged; the browser keeps a redirect.
Ends(r, c) ==
    /\ page' = [page EXCEPT ![r] =
                  IF c.sent = 307 THEN Request("redirected", c.slug, c.hx, c.expect)
                  ELSE NoRequest]
    /\ log' = c
    /\ UNCHANGED <<up, devMode, broken, templates, torn, abandoned, units, unitsBorn>>

\* handleError: an HTMX request gets the header and then a toast.
HandleError(r, c, code) ==
    IF c.hx
    THEN LET toast == [Request("toast", None, TRUE, None) EXCEPT !.failed = c.failed]
         IN  Renders(r, WriteHeader(toast, code), Component)
    ELSE Ends(r, WriteHeader(c, code)) /\ UNCHANGED call

\* GET /, GET /units/{slug}, and any other path, which the mux gives to Home.
Get(r, hx) ==
    /\ up /\ page[r].at \in {"idle", "redirected"}
    /\ \/ Steps(r, Request("home", None, hx, None))
       \/ \E slug \in Slugs : Steps(r, Request("unit", slug, hx, None))
       \/ HandleError(r, Request("other", None, hx, None), 404)

\* The browser follows the redirect to the only unit.
Follow(r) ==
    /\ up /\ page[r].at = "redirected"
    /\ Steps(r, Request("unit", page[r].slug, page[r].hx, page[r].expect))

\* ListUnitsByUserGroups: one unit, or any other number of them.
Home(r) ==
    LET mine == Registry!ListUnitsByUserGroups(UserGroups)
    IN  /\ page[r].at = "home"
        /\ \/ /\ Cardinality(mine) = 1
              /\ \E id \in mine :
                    Ends(r, WriteHeader([page[r] EXCEPT !.slug = units[id].slug,
                                                        !.expect = id], 307))
              /\ UNCHANGED call
           \/ /\ Cardinality(mine) # 1
              /\ Renders(r, Request("page", None, FALSE, None), HomePage)

\* GetUnitBySlug.
UnitDashboard(r) ==
    LET found == Registry!GetUnitBySlug(page[r].slug)
    IN  /\ page[r].at = "unit"
        /\ \/ found = {} /\ HandleError(r, page[r], 404)
           \/ \E id \in found : Steps(r, [page[r] EXCEPT !.at = "layout", !.shown = id])

\* NewLayoutData lists the units for the navigation; an error leaves it
\* empty and the page goes on.
NewLayoutData(r) ==
    /\ page[r].at = "layout"
    /\ Renders(r, Request("page", None, FALSE, None), UnitPage)

\* A read returns an error: Home passes it on, UnitDashboard answers as if
\* there were no such unit.
ReadFails(r) ==
    LET c == [page[r] EXCEPT !.failed = TRUE]
    IN  \/ c.at = "home" /\ HandleError(r, c, 500)
        \/ c.at = "unit" /\ HandleError(r, c, 404)

\* The renderer returns or panics: a page that it has not found is a 500, a
\* component that it has not found is left out.
Rendered(r) ==
    /\ Done(r)
    /\ LET c == page[r]
           answered ==
               CASE call[r].result = "panic" -> Recovered(c)
                 [] call[r].result = "found" \/ c.at = "toast" -> Write(c)
                 [] OTHER -> WriteHeader(c, 500)
       IN  Ends(r, answered)
    /\ Becomes(r, NoCall)

\* The end of the process cuts every request off.
Crash ==
    /\ Fatal
    /\ page' = [r \in Slots |-> NoRequest]
    /\ log' = NoRequest
    /\ UNCHANGED <<units, unitsBorn>>

\* Administrators, through UnitAdmin.
Administer ==
    /\ \/ \E id \in UnitIds, content \in UnitContents :
            Registry!Create(id, content) \/ Registry!Update(id, content)
       \/ \E id \in Registry!Live : Registry!Delete(id)
    /\ log' = NoRequest
    /\ UNCHANGED <<renderer, page>>

Rendering ==
    /\ \/ \E r \in Slots : Render(r)
       \/ Start
       \/ devMode /\ \E name \in Names : Edit(name)
    /\ log' = NoRequest
    /\ UNCHANGED <<units, unitsBorn, page>>

Next ==
    \/ \E r \in Slots :
        \/ \E hx \in BOOLEAN : Get(r, hx)
        \/ Follow(r)
        \/ Home(r) \/ UnitDashboard(r) \/ NewLayoutData(r) \/ ReadFails(r)
        \/ Rendered(r)
    \/ Rendering
    \/ Crash
    \/ Administer

Spec == Init /\ [][Next]_vars

-----------------------------------------------------------------------------
(* Properties *)

Codes == {0, 200, 307, 404, 500}

\* Requests, calls and maps are well formed, and a handler waits exactly as
\* long as its call of the renderer runs.
TypeOK ==
    /\ templates \cup broken \subseteq Names
    /\ \A r \in Slots :
        /\ page[r].at \in {"idle", "redirected", "home", "unit", "layout", "page", "toast"}
        /\ page[r].status \in Codes \ {0} /\ page[r].sent \in Codes
        /\ call[r].at # "idle" <=> page[r].at \in {"page", "toast"}

\* What Logging writes is what the client got, except in dev mode for an
\* HTMX request whose error toast panicked: the header was out by then.
LogMatchesAnswer ==
    log # NoRequest /\ log.status # log.sent => devMode /\ log.hx /\ log.panicked /\ log.sent = 404

\* The database has returned an error to the request of r: it is waiting for
\* its toast, or has just been answered.
ReadHasFailed(r) == page[r].failed \/ log.failed

\* Whoever follows Home's redirect gets the unit that it named, whatever the
\* administrators change meanwhile: the 404 that a failed read is turned into
\* comes without one only for a unit that has been deleted.
RedirectsLead ==
    [][\A r \in Slots :
          LET named == page[r].expect
          IN  page[r].at = "unit" /\ named # None /\ page'[r].at # "unit" /\ up'
              => \/ page'[r].at = "layout" /\ page'[r].shown = named
                 \/ units[named] = None
                 \/ ReadHasFailed(r)']_vars

=============================================================================
