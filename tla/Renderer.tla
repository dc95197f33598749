------------------------------ MODULE Renderer ------------------------------
(***************************************************************************)
(* The template renderer (internal/render/render.go): one Renderer that    *)
(* all requests of the process share.  Its field templates points to a map *)
(* from page names to parsed templates.  In dev mode every Page and every  *)
(* Component first parses all the files again: it points the field to a    *)
(* new map, then stores one template after the other into the map that     *)
(* the field points to at that moment, which may be another request's.     *)
(*                                                                         *)
(* Nothing is locked.  A store and another access to the same map that     *)
(* overlap are a data race: the runtime ends the process when it notices   *)
(* ("fatal error: concurrent map writes", which no recover catches), and   *)
(* otherwise a write may be lost, with others, and a read may miss.        *)
(***************************************************************************)
EXTENDS Naturals, Sequences, FiniteSets, Functions

CONSTANTS
    Slots,      \* requests in flight at the same time
    Files,      \* the page files in the order of filepath.Glob
    Component,  \* stands for a component, which every parsed page contains
    None        \* no page

ASSUME RendererAssumption ==
    /\ Files \in Seq(Range(Files)) /\ IsInjective(Files)
    /\ {Component, None} \cap Range(Files) = {}

Names == Range(Files)

VARIABLES
    up,         \* the process is running
    devMode,    \* Renderer.devMode
    broken,     \* the files that do not parse at the moment
    templates,  \* names in the map that Renderer.templates points to
    torn,       \* a race has left that map in an unknown state
    abandoned,  \* history: the request that made that map has panicked
    call        \* the calls of Page and Component

renderer == <<up, devMode, broken, templates, torn, abandoned, call>>

-----------------------------------------------------------------------------
(* Calls *)

\* next: the file that the call parses next.  raced: another store overlaps
\* with its own.  remade: another call has made a map since this one did; old:
\* since it began to store, into a map that the field no longer points to.
NoCall ==
    [at |-> "idle", name |-> None, next |-> 0, raced |-> FALSE, old |-> FALSE,
     remade |-> FALSE, result |-> "none"]

RendererInit ==
    /\ up = TRUE
    /\ devMode \in BOOLEAN
    /\ broken = {}
    /\ templates = Names
    /\ torn = FALSE
    /\ abandoned = FALSE
    /\ call = [r \in Slots |-> NoCall]

\* Mutant: Page parses in production too.
Reparses_Always == TRUE

Reparses == devMode

\* Page of a page, or Component, begins.
Begun(r, name) ==
    call' = [call EXCEPT ![r] = [NoCall EXCEPT !.at = IF Reparses THEN "make" ELSE "look",
                                               !.name = name]]

\* A call that has returned, or panicked.
Returned(result) == [NoCall EXCEPT !.at = "done", !.result = result]

Done(r) == call[r].at = "done"

Becomes(r, next) == call' = [call EXCEPT ![r] = next]

\* Another call is storing into the map that the field points to.
OthersStore(r) == \E q \in Slots \ {r} : call[q].at = "store" /\ ~ call[q].old

-----------------------------------------------------------------------------
(* parseTemplates *)

\* r.templates = make(...): calls that are storing go on in the old map.
MakeMap(r) ==
    /\ call[r].at = "make"
    /\ templates' = {}
    /\ torn' = FALSE
    /\ abandoned' = FALSE
    /\ call' = [q \in Slots |->
                  IF q = r THEN [call[r] EXCEPT !.at = "parse", !.next = 1]
                  ELSE [call[q] EXCEPT !.remade = @ \/ call[q].at \in {"parse", "store"},
                                       !.old = @ \/ call[q].at = "store"]]
    /\ UNCHANGED <<up, devMode, broken>>

Parsing(r) == call[r].at = "parse" /\ call[r].next <= Len(Files)

\* Mutant: a file that does not parse is skipped.
ParseFile_SkipsBroken(r) ==
    /\ Parsing(r) /\ Files[call[r].next] \in broken
    /\ Becomes(r, [call[r] EXCEPT !.next = @ + 1])
    /\ UNCHANGED <<up, devMode, broken, templates, torn, abandoned>>

\* template.Must panics if the next page file does not parse.
ParseFile(r) ==
    /\ Parsing(r) /\ Files[call[r].next] \in broken
    /\ Becomes(r, Returned("panic"))
    /\ abandoned' = (abandoned \/ ~ call[r].remade)
    /\ UNCHANGED <<up, devMode, broken, templates, torn>>

\* r.templates[name] = tmpl begins, in the map that the field points to.
BeginStore(r) ==
    /\ Parsing(r) /\ Files[call[r].next] \notin broken
    /\ call' = [q \in Slots |->
                  IF q = r THEN [call[r] EXCEPT !.at = "store", !.raced = OthersStore(r)]
                  ELSE [call[q] EXCEPT !.raced = @ \/ (call[q].at = "store" /\ ~ call[q].old)]]
    /\ UNCHANGED <<up, devMode, broken, templates, torn, abandoned>>

\* It ends.
Store(r) ==
    LET c == call[r]
    IN  /\ c.at = "store"
        /\ torn' = (torn \/ (c.raced /\ ~ c.old))
        /\ templates' = IF c.old THEN templates
                        ELSE IF torn' THEN {} ELSE templates \cup {Files[c.next]}
        /\ Becomes(r, [c EXCEPT !.at = "parse", !.next = @ + 1, !.raced = FALSE, !.old = FALSE])
        /\ UNCHANGED <<up, devMode, broken, abandoned>>

-----------------------------------------------------------------------------
(* The lookup *)

LookingUp(r) == call[r].at = "look" \/ (call[r].at = "parse" /\ call[r].next > Len(Files))

Contains(name) == IF name = Component THEN templates # {} ELSE name \in templates

\* r.templates[name] of Page, or the loop of Component over the map.
LookUp(r) ==
    /\ LookingUp(r)
    /\ \E result \in {"found", "missing"} :
        /\ torn \/ OthersStore(r) \/ (result = "found" <=> Contains(call[r].name))
        /\ Becomes(r, Returned(result))
    /\ UNCHANGED <<up, devMode, broken, templates, torn, abandoned>>

Render(r) == MakeMap(r) \/ ParseFile(r) \/ BeginStore(r) \/ Store(r) \/ LookUp(r)

-----------------------------------------------------------------------------
(* The process and the files *)

\* A store overlaps with another store, or with a lookup.
Race == \E r \in Slots : call[r].raced \/ (LookingUp(r) /\ OthersStore(r))

\* The runtime notices: the process ends.
Fatal ==
    /\ Race
    /\ up' = FALSE
    /\ templates' = {}
    /\ torn' = FALSE
    /\ abandoned' = FALSE
    /\ call' = [r \in Slots |-> NoCall]
    /\ UNCHANGED <<devMode, broken>>

\* It is started again; New panics as long as a file is broken.
Start ==
    /\ ~ up /\ broken = {}
    /\ up' = TRUE
    /\ templates' = Names
    /\ UNCHANGED <<devMode, broken, torn, abandoned, call>>

\* The developer saves a file that does not parse, or repairs it.  Bound: one
\* such file at a time.
Edit(name) ==
    /\ \/ broken = {} /\ broken' = {name}
       \/ broken = {name} /\ broken' = {}
    /\ UNCHANGED <<up, devMode, templates, torn, abandoned, call>>

-----------------------------------------------------------------------------
(* Properties *)

\* When no request is parsing, the map holds every page, unless the request
\* that made it panicked on a broken file, or a race on it went unnoticed:
\* requests that store into each other's maps do no other harm, and the next
\* request repairs what they did.
SettledMapIsComplete ==
    up /\ (\A r \in Slots : call[r].at \notin {"parse", "store"})
    => templates = Names \/ torn \/ abandoned

\* A page is missing only in dev mode, and only if another request has made
\* a new map since this one made its own, or a race has spoilt the
\* map.  In production no request panics and no access to the map is a race.
MissingPageHasACause ==
    [][\A r \in Slots :
        /\ LookingUp(r) /\ call'[r].result = "missing"
           => devMode /\ (call[r].remade \/ OthersStore(r) \/ torn)
        /\ call'[r].result = "panic" \/ Race' => devMode]_renderer

=============================================================================
