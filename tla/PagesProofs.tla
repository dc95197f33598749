---------------------------- MODULE PagesProofs ----------------------------
(***************************************************************************)
(* What Pages and the Renderer guarantee for any requests in flight, page  *)
(* files and units: what is in the shared map of templates, what a client  *)
(* gets, and where a redirect leads.                                       *)
(***************************************************************************)
EXTENDS Pages, FiniteSetTheorems, TLAPS

-----------------------------------------------------------------------------
(* The inductive invariant *)

Calling ==
    [at : {"idle", "make", "parse", "store", "look", "done"},
     name : Names \cup {Component, None}, next : Nat, raced : BOOLEAN, old : BOOLEAN,
     remade : BOOLEAN, result : {"none", "found", "missing", "panic"}]

Parses(r) == call[r].at \in {"parse", "store"}

\* The map is still the one that r has made, and r goes on filling it.
Owns(r) == Parses(r) /\ ~ call[r].remade

\* A call parses only in dev mode and looks up at once only in production;
\* it stores the files in their order.
CallInv(r) ==
    LET c == call[r]
    IN  /\ c.at = "idle" => c = NoCall
        /\ c.at \notin {"idle", "done"} => c.name \in Names \cup {Component}
        /\ c.at # "done" => c.result = "none"
        /\ c.at \in {"make", "look"} => ~ c.remade
        /\ c.at # "store" => ~ c.raced /\ ~ c.old
        /\ c.old => c.remade
        /\ c.at = "parse" => c.next \in 1 .. Len(Files) + 1
        /\ c.at = "store" => c.next \in 1 .. Len(Files)
        /\ c.at \in {"make", "parse", "store"} \/ c.result = "panic" => devMode
        /\ c.at = "look" => ~ devMode

\* Whoever still owns the map has stored all that it has come past.
Filled(r) ==
    Owns(r) => torn \/ \A i \in 1 .. Len(Files) : i < call[r].next => Files[i] \in templates

\* The map is whole, or somebody is filling it, or it is spoilt.
MapInv ==
    /\ torn \/ abandoned => devMode
    /\ up => templates = Names \/ torn \/ abandoned \/ \E r \in Slots : Owns(r)
    /\ ~ up => \A r \in Slots : call[r] = NoCall

RendererInv ==
    /\ up \in BOOLEAN /\ devMode \in BOOLEAN /\ torn \in BOOLEAN /\ abandoned \in BOOLEAN
    /\ templates \subseteq Names /\ broken \subseteq Names
    /\ call \in [Slots -> Calling]
    /\ \A r \in Slots : CallInv(r) /\ Filled(r)
    /\ MapInv

\* Forms under distinct slugs, and no id is used twice.
UnitsInv ==
    /\ units \in [UnitIds -> UnitTypes \cup {None}]
    /\ Registry!Live \subseteq unitsBorn
    /\ \A i, j \in Registry!Live : units[i].slug = units[j].slug => i = j

Paging ==
    [at : {"idle", "redirected", "home", "unit", "layout", "page", "toast", "other"},
     slug : Slugs \cup {None}, hx : BOOLEAN, status : Codes \ {0}, sent : Codes,
     expect : UnitIds \cup {None}, shown : UnitIds \cup {None}, panicked : BOOLEAN,
     failed : BOOLEAN]

\* Nothing has been sent before an answer ends, but the header of a toast;
\* the unit that a redirect names keeps its slug as long as it lives.
Underway(c) ==
    /\ c.at # "other"
    /\ c.at # "toast" => c.sent = 0 /\ c.status = 200
    /\ c.at = "toast" => c.hx /\ c.sent \in {404, 500} /\ c.status = c.sent
    /\ c.expect # None =>
        /\ c.expect \in unitsBorn
        /\ units[c.expect] = None \/ units[c.expect].slug = c.slug

PageInv(r) ==
    /\ call[r].at # "idle" <=> page[r].at \in {"page", "toast"}
    /\ Underway(page[r])
    /\ ~ up => page[r] = NoRequest

PagesInv ==
    /\ RendererInv
    /\ UnitsInv
    /\ page \in [Slots -> Paging]
    /\ \A r \in Slots : PageInv(r)
    /\ LogMatchesAnswer

-----------------------------------------------------------------------------
(* The files and the map *)

LEMMA FileNames ==
    /\ Len(Files) \in Nat
    /\ Names = {Files[i] : i \in 1 .. Len(Files)}
    /\ None \notin Names /\ Component \notin Names
<1>1. Files \in Seq(Names)
    BY RendererAssumption DEF Names
<1>2. Len(Files) \in Nat /\ DOMAIN Files = 1 .. Len(Files)
    BY <1>1
<1>3. QED
    BY <1>2, RendererAssumption DEF Names, Range

\* Whoever owns the map and has parsed the last file has stored them all.
LEMMA OwnerIsThrough ==
    ASSUME RendererInv, NEW r \in Slots, Owns(r), call[r].next > Len(Files), ~ torn
    PROVE  templates = Names
<1>1. call[r].next \in Nat
    BY DEF RendererInv, Calling
<1>2. \A i \in 1 .. Len(Files) : Files[i] \in templates
    BY <1>1, FileNames DEF RendererInv, Filled
<1>3. QED
    BY <1>2, FileNames DEF RendererInv

\* What one call's step leaves alone.
LEMMA OtherCalls ==
    ASSUME RendererInv, NEW r \in Slots, NEW c \in Calling, Becomes(r, c),
           UNCHANGED devMode, torn => torn', torn' \/ templates \subseteq templates'
    PROVE  /\ call' \in [Slots -> Calling]
           /\ call'[r] = c
           /\ \A q \in Slots \ {r} :
                call'[q] = call[q] /\ CallInv(q)' /\ Filled(q)' /\ (Owns(q)' <=> Owns(q))
<1>1. call \in [Slots -> Calling]
    BY DEF RendererInv
<1>2. call' \in [Slots -> Calling] /\ call'[r] = c
    BY <1>1 DEF Becomes
<1>3. ASSUME NEW q \in Slots, q # r
      PROVE  call'[q] = call[q] /\ CallInv(q)' /\ Filled(q)' /\ (Owns(q)' <=> Owns(q))
    <2>1. call'[q] = call[q]
        BY <1>1, <1>3 DEF Becomes
    <2>2. CallInv(q) /\ Filled(q)
        BY DEF RendererInv
    <2>3. CallInv(q)'
        BY <2>1, <2>2 DEF CallInv
    <2>4. Owns(q)' <=> Owns(q)
        BY <2>1 DEF Owns, Parses
    <2>5. Filled(q)'
        BY <2>1, <2>2, <2>4 DEF Filled
    <2>6. QED
        BY <2>1, <2>3, <2>4, <2>5
<1>4. QED
    BY <1>2, <1>3

-----------------------------------------------------------------------------
(* The steps of the renderer *)

LEMMA NoCallType == NoCall \in Calling
    BY DEF NoCall, Calling

\* A call begins.
LEMMA BegunKeeps ==
    ASSUME RendererInv, NEW r \in Slots, NEW name \in Names \cup {Component}, up,
           call[r].at = "idle", Begun(r, name),
           UNCHANGED <<up, devMode, broken, templates, torn, abandoned>>
    PROVE  RendererInv'
<1> DEFINE c == [NoCall EXCEPT !.at = IF Reparses THEN "make" ELSE "look", !.name = name]
<1>1. c \in Calling /\ Becomes(r, c)
    BY DEF Begun, Becomes, NoCall, Calling
<1>2. /\ c.at \in {"make", "look"} /\ c.name = name /\ c.result = "none"
      /\ ~ c.raced /\ ~ c.old /\ ~ c.remade
      /\ c.at = "make" <=> devMode
    BY DEF NoCall, Reparses
<1> HIDE DEF c
<1>3. /\ call' \in [Slots -> Calling]
      /\ call'[r] = c
      /\ \A q \in Slots \ {r} :
            call'[q] = call[q] /\ CallInv(q)' /\ Filled(q)' /\ (Owns(q)' <=> Owns(q))
    BY <1>1, OtherCalls
<1>4. CallInv(r)' /\ Filled(r)'
    BY <1>2, <1>3 DEF CallInv, Filled, Owns, Parses
<1>5. ~ Owns(r)
    BY DEF Owns, Parses
<1>6. MapInv'
    BY <1>3, <1>5 DEF RendererInv, MapInv
<1>7. QED
    BY <1>3, <1>4, <1>6 DEF RendererInv

\* The handler takes the answer.
LEMMA TakenKeeps ==
    ASSUME RendererInv, NEW r \in Slots, Done(r), Becomes(r, NoCall),
           UNCHANGED <<up, devMode, broken, templates, torn, abandoned>>
    PROVE  RendererInv'
<1>1. /\ call' \in [Slots -> Calling]
      /\ call'[r] = NoCall
      /\ \A q \in Slots \ {r} :
            call'[q] = call[q] /\ CallInv(q)' /\ Filled(q)' /\ (Owns(q)' <=> Owns(q))
    BY NoCallType, OtherCalls
<1>2. CallInv(r)' /\ Filled(r)'
    BY <1>1 DEF CallInv, Filled, Owns, Parses, NoCall
<1>3. ~ Owns(r)
    BY DEF Done, Owns, Parses
<1>4. MapInv'
    BY <1>1, <1>3 DEF RendererInv, MapInv
<1>5. QED
    BY <1>1, <1>2, <1>4 DEF RendererInv

\* A new map has one owner, and nobody else fills it yet.
LEMMA MakeMapKeeps ==
    ASSUME RendererInv, NEW r \in Slots, MakeMap(r)
    PROVE  RendererInv'
<1>1. call \in [Slots -> Calling] /\ \A q \in Slots : CallInv(q)
    BY DEF RendererInv
<1>2. /\ call[r].at = "make" /\ templates' = {} /\ torn' = FALSE /\ abandoned' = FALSE
      /\ UNCHANGED <<up, devMode, broken>>
    BY DEF MakeMap
<1>3. call'[r] = [call[r] EXCEPT !.at = "parse", !.next = 1]
    BY DEF MakeMap
<1>4. ASSUME NEW q \in Slots, q # r
      PROVE  call'[q] = [call[q] EXCEPT !.remade = @ \/ call[q].at \in {"parse", "store"},
                                        !.old = @ \/ call[q].at = "store"]
    BY <1>4 DEF MakeMap
<1>5. ASSUME NEW q \in Slots, q # r
      PROVE  /\ call'[q] \in Calling
             /\ call'[q].at = call[q].at /\ call'[q].name = call[q].name
             /\ call'[q].next = call[q].next /\ call'[q].raced = call[q].raced
             /\ call'[q].result = call[q].result
             /\ call'[q].remade = (call[q].remade \/ call[q].at \in {"parse", "store"})
             /\ call'[q].old = (call[q].old \/ call[q].at = "store")
    <2>1. PICK c \in Calling : c = call[q]
        BY <1>1
    <2>2. PICK d : d = call'[q]
        OBVIOUS
    <2>3. PICK x \in BOOLEAN : x = (c.remade \/ c.at \in {"parse", "store"})
        OBVIOUS
    <2>4. PICK y \in BOOLEAN : y = (c.old \/ c.at = "store")
        OBVIOUS
    <2>5. d = [c EXCEPT !.remade = x, !.old = y]
        BY <1>4, <1>5, <2>1, <2>2, <2>3, <2>4, Zenon
    <2>6. d = [at |-> c.at, name |-> c.name, next |-> c.next, raced |-> c.raced,
               old |-> y, remade |-> x, result |-> c.result]
        BY <2>5 DEF Calling
    <2>7. /\ c.at \in {"idle", "make", "parse", "store", "look", "done"}
          /\ c.name \in Names \cup {Component, None} /\ c.next \in Nat /\ c.raced \in BOOLEAN
          /\ c.result \in {"none", "found", "missing", "panic"}
        BY DEF Calling
    <2>8. d \in Calling
        BY <2>6, <2>7 DEF Calling
    <2>9. d.at = c.at /\ d.name = c.name /\ d.next = c.next
          /\ d.raced = c.raced /\ d.result = c.result
        BY <2>6
    <2>10. d.remade = (c.remade \/ c.at \in {"parse", "store"})
        BY <2>3, <2>6, Zenon
    <2>11. d.old = (c.old \/ c.at = "store")
        BY <2>4, <2>6, Zenon
    <2>12. QED
        BY <2>1, <2>2, <2>8, <2>9, <2>10, <2>11, Zenon
<1>6. call' \in [Slots -> Calling]
    <2>1. call'[r] \in Calling
        <3>1. ASSUME NEW c \in Calling
              PROVE  [c EXCEPT !.at = "parse", !.next = 1] \in Calling
            BY DEF Calling
        <3>2. QED
            BY <1>1, <1>3, <3>1
    <2>2. call' = [q \in Slots |-> call'[q]]
        BY DEF MakeMap
    <2>3. \A q \in Slots : call'[q] \in Calling
        BY <1>5, <2>1
    <2>4. QED
        BY <2>2, <2>3, Zenon
<1>7. CallInv(r)' /\ Filled(r)' /\ Owns(r)' /\ devMode
    <2>1. CallInv(r) /\ call[r] \in Calling
        BY <1>1
    <2>2. devMode /\ ~ call[r].raced /\ ~ call[r].old /\ call[r].result = "none"
          /\ call[r].name \in Names \cup {Component}
        BY <1>2, <2>1 DEF CallInv
    <2>3. CallInv(r)'
        BY <1>2, <1>3, <2>1, <2>2, FileNames DEF CallInv, Calling
    <2>4. call'[r].at = "parse" /\ call'[r].next = 1
        BY <1>3, <2>1 DEF Calling
    <2>5. Filled(r)'
        BY <2>4, FileNames DEF Filled
    <2>6. ~ call'[r].remade
        BY <1>2, <1>3, <2>1 DEF Calling, CallInv
    <2>7. QED
        BY <2>2, <2>3, <2>4, <2>5, <2>6 DEF Owns, Parses
<1>8. ASSUME NEW q \in Slots, q # r PROVE CallInv(q)' /\ Filled(q)'
    <2>1. CallInv(q) /\ call[q] \in Calling
        BY <1>1
    <2>2. CallInv(q)'
        BY <1>2, <1>5, <1>8, <2>1 DEF CallInv, Calling, NoCall
    <2>3. ~ Owns(q)'
        BY <1>5, <1>8, <2>1 DEF Owns, Parses, Calling
    <2>4. QED
        BY <2>2, <2>3 DEF Filled
<1>9. up
    BY <1>2 DEF RendererInv, MapInv, NoCall
<1>10. MapInv'
    BY <1>2, <1>7, <1>9 DEF MapInv
<1>11. QED
    BY <1>2, <1>6, <1>7, <1>8, <1>10 DEF RendererInv


\* A panic ends a call; the map of an owner stays behind.
LEMMA ParseFileKeeps ==
    ASSUME RendererInv, NEW r \in Slots, ParseFile(r)
    PROVE  RendererInv'
<1> DEFINE c == Returned("panic")
<1>1. /\ Becomes(r, c) /\ abandoned' = (abandoned \/ ~ call[r].remade)
      /\ UNCHANGED <<up, devMode, broken, templates, torn>>
      /\ call[r].at = "parse"
    BY DEF ParseFile, Parsing
<1>2. c \in Calling /\ c.at = "done" /\ c.result = "panic" /\ ~ c.raced /\ ~ c.old /\ ~ c.remade
    BY DEF Returned, NoCall, Calling
<1> HIDE DEF c
<1>3. /\ call' \in [Slots -> Calling]
      /\ call'[r] = c
      /\ \A q \in Slots \ {r} :
            call'[q] = call[q] /\ CallInv(q)' /\ Filled(q)' /\ (Owns(q)' <=> Owns(q))
    BY <1>1, <1>2, OtherCalls
<1>4. devMode
    BY <1>1 DEF RendererInv, CallInv
<1>5. CallInv(r)' /\ Filled(r)'
    BY <1>1, <1>2, <1>3, <1>4 DEF CallInv, Filled, Owns, Parses
<1>6. up
    BY <1>1 DEF RendererInv, MapInv, NoCall
<1>7. abandoned' \/ ~ Owns(r)
    BY <1>1 DEF Owns
<1>8. MapInv'
    <2>1. CASE abandoned'
        BY <1>1, <1>4, <1>6, <2>1 DEF MapInv
    <2>2. CASE ~ abandoned'
        <3>1. ~ Owns(r) /\ ~ abandoned
            BY <1>1, <1>7, <2>2
        <3>2. QED
            BY <1>1, <1>3, <1>4, <1>6, <2>2, <3>1 DEF RendererInv, MapInv
    <2>3. QED
        BY <2>1, <2>2
<1>9. abandoned' \in BOOLEAN
    BY <1>1
<1>10. QED
    BY <1>1, <1>3, <1>5, <1>8, <1>9 DEF RendererInv

\* A store begins.
LEMMA BeginStoreKeeps ==
    ASSUME RendererInv, NEW r \in Slots, BeginStore(r)
    PROVE  RendererInv'
<1>1. call \in [Slots -> Calling] /\ \A q \in Slots : CallInv(q) /\ Filled(q)
    BY DEF RendererInv
<1>2. /\ call[r].at = "parse" /\ call[r].next <= Len(Files)
      /\ UNCHANGED <<up, devMode, broken, templates, torn, abandoned>>
    BY DEF BeginStore, Parsing
<1>3. PICK x \in BOOLEAN : x = OthersStore(r)
    BY DEF OthersStore
<1>4. call'[r] = [call[r] EXCEPT !.at = "store", !.raced = x]
    <2>1. call'[r] = [call[r] EXCEPT !.at = "store", !.raced = OthersStore(r)]
        BY DEF BeginStore
    <2>2. QED
        BY <1>3, <2>1, Zenon
<1>5. ASSUME NEW q \in Slots, q # r
      PROVE  /\ call'[q] \in Calling
             /\ call'[q].at = call[q].at /\ call'[q].name = call[q].name
             /\ call'[q].next = call[q].next /\ call'[q].old = call[q].old
             /\ call'[q].remade = call[q].remade /\ call'[q].result = call[q].result
             /\ call'[q].raced => call[q].raced \/ call[q].at = "store"
             /\ call[q].at = "idle" => call'[q] = call[q]
    <2>1. PICK c \in Calling : c = call[q]
        BY <1>1
    <2>2. PICK d : d = call'[q]
        OBVIOUS
    <2>3. PICK y \in BOOLEAN : y = (c.raced \/ (c.at = "store" /\ ~ c.old))
        OBVIOUS
    <2>4. d = [c EXCEPT !.raced = y]
        <3>1. call'[q] = [call[q] EXCEPT !.raced = call[q].raced
                                                  \/ (call[q].at = "store" /\ ~ call[q].old)]
            BY <1>5 DEF BeginStore
        <3>2. d = [c EXCEPT !.raced = c.raced \/ (c.at = "store" /\ ~ c.old)]
            BY <2>1, <2>2, <3>1, Zenon
        <3>3. QED
            BY <2>3, <3>2, Zenon
    <2>5. d \in Calling
        BY <2>4 DEF Calling
    <2>6. /\ d.at = c.at /\ d.name = c.name /\ d.next = c.next /\ d.old = c.old
          /\ d.remade = c.remade /\ d.result = c.result
        BY <2>4 DEF Calling
    <2>7. d.raced = y
        BY <2>4 DEF Calling
    <2>8. y => c.raced \/ c.at = "store"
        BY <2>3
    <2>9. c.at = "idle" => d = c
        <3>1. SUFFICES ASSUME c.at = "idle" PROVE d = c
            OBVIOUS
        <3>2. c = NoCall
            BY <1>1, <2>1, <3>1 DEF CallInv
        <3>3. y = FALSE
            BY <2>3, <3>1, <3>2 DEF NoCall
        <3>4. d = [NoCall EXCEPT !.raced = FALSE]
            BY <2>4, <3>2, <3>3, Zenon
        <3>5. d = [at |-> "idle", name |-> None, next |-> 0, raced |-> FALSE, old |-> FALSE,
                   remade |-> FALSE, result |-> "none"]
            BY <3>4 DEF NoCall
        <3>6. QED
            BY <3>2, <3>5, Zenon DEF NoCall
    <2>10. d.raced => c.raced \/ c.at = "store"
        BY <2>7, <2>8
    <2>11. QED
        BY <2>1, <2>2, <2>5, <2>6, <2>9, <2>10, Zenon
<1>6. /\ call'[r] \in Calling /\ call'[r].at = "store" /\ call'[r].name = call[r].name
      /\ call'[r].next = call[r].next /\ call'[r].old = call[r].old
      /\ call'[r].remade = call[r].remade /\ call'[r].result = call[r].result
    <2>1. PICK c \in Calling : c = call[r]
        BY <1>1
    <2>2. PICK d : d = [c EXCEPT !.at = "store", !.raced = x]
        OBVIOUS
    <2>3. d \in Calling
        BY <2>2 DEF Calling
    <2>4. /\ d.at = "store" /\ d.name = c.name /\ d.next = c.next /\ d.old = c.old
          /\ d.remade = c.remade /\ d.result = c.result
        BY <2>2 DEF Calling
    <2>5. QED
        BY <1>4, <2>1, <2>2, <2>3, <2>4, Zenon
<1>7. call' \in [Slots -> Calling]
    <2>1. call' = [q \in Slots |-> call'[q]]
        BY DEF BeginStore
    <2>2. \A q \in Slots : call'[q] \in Calling
        BY <1>5, <1>6
    <2>3. QED
        BY <2>1, <2>2, Zenon
<1>8. CallInv(r)' /\ Filled(r)' /\ (Owns(r)' <=> Owns(r))
    <2>1. CallInv(r) /\ Filled(r) /\ call[r] \in Calling
        BY <1>1
    <2>2. CallInv(r)'
        BY <1>2, <1>6, <2>1, FileNames DEF CallInv
    <2>3. Owns(r)' <=> Owns(r)
        BY <1>2, <1>6 DEF Owns, Parses
    <2>4. Filled(r)'
        BY <1>2, <1>6, <2>1, <2>3 DEF Filled
    <2>5. QED
        BY <2>2, <2>3, <2>4
<1>9. ASSUME NEW q \in Slots, q # r
      PROVE  CallInv(q)' /\ Filled(q)' /\ (Owns(q)' <=> Owns(q))
    <2>1. CallInv(q) /\ Filled(q)
        BY <1>1
    <2>2. CallInv(q)'
        BY <1>2, <1>5, <1>9, <2>1 DEF CallInv
    <2>3. Owns(q)' <=> Owns(q)
        BY <1>5, <1>9 DEF Owns, Parses
    <2>4. Filled(q)'
        BY <1>2, <1>5, <1>9, <2>1, <2>3 DEF Filled
    <2>5. QED
        BY <2>2, <2>3, <2>4
<1>10. up
    BY <1>2 DEF RendererInv, MapInv, NoCall
<1>11. MapInv'
    BY <1>2, <1>8, <1>9, <1>10 DEF RendererInv, MapInv
<1>12. QED
    BY <1>2, <1>7, <1>8, <1>9, <1>11 DEF RendererInv


\* A store ends: what its owner has come past is in the map.
LEMMA StoreKeeps ==
    ASSUME RendererInv, NEW r \in Slots, Store(r)
    PROVE  RendererInv'
<1>1. /\ call \in [Slots -> Calling] /\ templates \subseteq Names /\ torn \in BOOLEAN
      /\ CallInv(r) /\ Filled(r)
    BY DEF RendererInv
<1>2. PICK c \in Calling : c = call[r]
    BY <1>1
<1>3. /\ c.at = "store"
      /\ torn' = (torn \/ (c.raced /\ ~ c.old))
      /\ templates' = IF c.old THEN templates
                      ELSE IF torn' THEN {} ELSE templates \cup {Files[c.next]}
      /\ UNCHANGED <<up, devMode, broken, abandoned>>
    BY <1>2 DEF Store
<1>4. PICK d : d = [c EXCEPT !.at = "parse", !.next = @ + 1, !.raced = FALSE, !.old = FALSE]
    OBVIOUS
<1>5. Becomes(r, d)
    BY <1>2, <1>4 DEF Store
<1>6. /\ d \in Calling /\ d.at = "parse" /\ d.next = c.next + 1 /\ ~ d.raced /\ ~ d.old
      /\ d.name = c.name /\ d.remade = c.remade /\ d.result = c.result
    <2>1. d = [at |-> "parse", name |-> c.name, next |-> c.next + 1, raced |-> FALSE,
               old |-> FALSE, remade |-> c.remade, result |-> c.result]
        BY <1>4 DEF Calling
    <2>2. /\ c.name \in Names \cup {Component, None} /\ c.next \in Nat /\ c.remade \in BOOLEAN
          /\ c.result \in {"none", "found", "missing", "panic"}
        BY DEF Calling
    <2>3. d \in Calling
        BY <2>1, <2>2 DEF Calling
    <2>4. QED
        BY <2>1, <2>2, <2>3
<1>7. /\ devMode /\ c.next \in 1 .. Len(Files) /\ Files[c.next] \in Names
      /\ c.name \in Names \cup {Component} /\ c.result = "none" /\ (c.old => c.remade)
    BY <1>1, <1>2, <1>3, FileNames DEF CallInv
<1>8. torn' \in BOOLEAN /\ (torn => torn')
    BY <1>3
<1>9. torn' \/ templates \subseteq templates'
    BY <1>3
<1>10. templates' \subseteq Names
    BY <1>1, <1>3, <1>7
<1>11. /\ call' \in [Slots -> Calling]
       /\ call'[r] = d
       /\ \A q \in Slots \ {r} :
             call'[q] = call[q] /\ CallInv(q)' /\ Filled(q)' /\ (Owns(q)' <=> Owns(q))
    BY <1>3, <1>5, <1>6, <1>8, <1>9, OtherCalls
<1>12. CallInv(r)'
    BY <1>3, <1>6, <1>7, <1>11, FileNames DEF CallInv
<1>13. Owns(r)' <=> Owns(r)
    BY <1>2, <1>3, <1>6, <1>11 DEF Owns, Parses
<1>14. Filled(r)'
    <2>1. SUFFICES ASSUME ~ c.remade, ~ torn', NEW i \in 1 .. Len(Files), i < c.next + 1
                   PROVE  Files[i] \in templates'
        BY <1>6, <1>11 DEF Filled, Owns
    <2>2. ~ c.old /\ ~ torn
        BY <1>7, <1>8, <2>1
    <2>3. templates' = templates \cup {Files[c.next]}
        BY <1>3, <2>1, <2>2
    <2>4. CASE i = c.next
        BY <2>3, <2>4
    <2>5. CASE i < c.next
        BY <1>1, <1>2, <1>3, <2>1, <2>2, <2>3, <2>5 DEF Filled, Owns, Parses
    <2>6. QED
        BY <1>7, <2>1, <2>4, <2>5, FileNames
<1>15. up
    BY <1>2, <1>3 DEF RendererInv, MapInv, NoCall
<1>16. MapInv'
    <2>1. CASE torn'
        BY <1>3, <1>7, <1>15, <2>1 DEF MapInv
    <2>2. CASE ~ torn'
        <3>1. ~ torn /\ templates \subseteq templates'
            BY <1>8, <1>9, <2>2
        <3>2. templates = Names \/ abandoned \/ \E q \in Slots : Owns(q)
            BY <1>15, <3>1 DEF RendererInv, MapInv
        <3>3. templates' = Names \/ abandoned' \/ \E q \in Slots : Owns(q)'
            BY <1>3, <1>10, <1>11, <1>13, <3>1, <3>2
        <3>4. QED
            BY <1>3, <1>7, <1>15, <3>3 DEF MapInv
    <2>3. QED
        BY <2>1, <2>2
<1>17. QED
    BY <1>3, <1>8, <1>10, <1>11, <1>12, <1>14, <1>16 DEF RendererInv

\* A lookup: if it is its owner's, the map is whole.
LEMMA LookUpKeeps ==
    ASSUME RendererInv, NEW r \in Slots, LookUp(r)
    PROVE  RendererInv'
<1>1. PICK result \in {"found", "missing"} : Becomes(r, Returned(result))
    BY DEF LookUp
<1> DEFINE c == Returned(result)
<1>2. c \in Calling /\ c.at = "done" /\ c.result = result /\ ~ c.raced /\ ~ c.old /\ ~ c.remade
    BY DEF Returned, NoCall, Calling
<1>3. Becomes(r, c)
    BY <1>1
<1> HIDE DEF c
<1>4. LookingUp(r) /\ UNCHANGED <<up, devMode, broken, templates, torn, abandoned>>
    BY DEF LookUp
<1>5. /\ call' \in [Slots -> Calling]
      /\ call'[r] = c
      /\ \A q \in Slots \ {r} :
            call'[q] = call[q] /\ CallInv(q)' /\ Filled(q)' /\ (Owns(q)' <=> Owns(q))
    BY <1>2, <1>3, <1>4, OtherCalls
<1>6. CallInv(r)' /\ Filled(r)'
    BY <1>2, <1>5 DEF CallInv, Filled, Owns, Parses
<1>7. up
    BY <1>4 DEF RendererInv, MapInv, NoCall, LookingUp
<1>8. Owns(r) => torn \/ templates = Names
    <2>1. SUFFICES ASSUME Owns(r), ~ torn PROVE templates = Names
        OBVIOUS
    <2>2. call[r].next > Len(Files)
        BY <1>4, <2>1 DEF LookingUp, Owns, Parses
    <2>3. QED
        BY <2>1, <2>2, OwnerIsThrough
<1>9. MapInv'
    BY <1>4, <1>5, <1>7, <1>8 DEF RendererInv, MapInv
<1>10. QED
    BY <1>4, <1>5, <1>6, <1>9 DEF RendererInv

LEMMA RenderKeeps ==
    ASSUME RendererInv, NEW r \in Slots, Render(r)
    PROVE  RendererInv' /\ UNCHANGED <<up, devMode>>
<1>1. RendererInv'
    BY MakeMapKeeps, ParseFileKeeps, BeginStoreKeeps, StoreKeeps, LookUpKeeps DEF Render
<1>2. UNCHANGED <<up, devMode>>
    BY DEF Render, MakeMap, ParseFile, BeginStore, Store, LookUp
<1>3. QED
    BY <1>1, <1>2

\* Two accesses race only in dev mode.
LEMMA RacesNeedDevMode ==
    ASSUME RendererInv, Race
    PROVE  devMode
<1>1. PICK r \in Slots : call[r].raced \/ (LookingUp(r) /\ OthersStore(r))
    BY DEF Race
<1>2. CASE call[r].raced
    <2>1. CallInv(r)
        BY DEF RendererInv
    <2>2. QED
        BY <1>2, <2>1 DEF CallInv
<1>3. CASE OthersStore(r)
    <2>1. PICK q \in Slots : call[q].at = "store"
        BY <1>3 DEF OthersStore
    <2>2. CallInv(q)
        BY DEF RendererInv
    <2>3. QED
        BY <2>1, <2>2 DEF CallInv
<1>4. QED
    BY <1>1, <1>2, <1>3

\* The end of the process, its new start, and a file saved.
LEMMA ProcessKeeps ==
    ASSUME RendererInv, Fatal \/ Start \/ \E name \in Names : Edit(name)
    PROVE  RendererInv'
<1>1. ASSUME NEW r \in Slots, call'[r] = NoCall
      PROVE  CallInv(r)' /\ Filled(r)'
    BY <1>1 DEF CallInv, Filled, Owns, Parses, NoCall
<1>2. CASE Fatal
    <2>1. /\ call' = [r \in Slots |-> NoCall] /\ ~ up' /\ templates' = {}
          /\ torn' = FALSE /\ abandoned' = FALSE /\ up' = FALSE
          /\ UNCHANGED <<devMode, broken>>
        BY <1>2 DEF Fatal
    <2>2. \A r \in Slots : call'[r] = NoCall
        BY <2>1
    <2>3. call' \in [Slots -> Calling]
        BY <2>1, NoCallType
    <2>4. QED
        BY <1>1, <2>1, <2>2, <2>3 DEF RendererInv, MapInv
<1>3. CASE Start
    <2>1. ~ up /\ up' = TRUE /\ templates' = Names
          /\ UNCHANGED <<devMode, broken, torn, abandoned, call>>
        BY <1>3 DEF Start
    <2>2. \A r \in Slots : call'[r] = NoCall
        BY <2>1 DEF RendererInv, MapInv
    <2>3. QED
        BY <1>1, <2>1, <2>2 DEF RendererInv, MapInv
<1>4. CASE \E name \in Names : Edit(name)
    <2>1. broken' \subseteq Names /\ UNCHANGED <<up, devMode, templates, torn, abandoned, call>>
        BY <1>4 DEF Edit
    <2>2. \A r \in Slots : CallInv(r)' /\ Filled(r)' /\ (Owns(r)' <=> Owns(r))
        BY <2>1 DEF RendererInv, CallInv, Filled, Owns, Parses
    <2>3. MapInv'
        BY <2>1, <2>2 DEF RendererInv, MapInv
    <2>4. QED
        BY <2>1, <2>2, <2>3 DEF RendererInv
<1>5. QED
    BY <1>2, <1>3, <1>4

\* The renderer's state alone decides about the invariant.
LEMMA RestKeeps ==
    ASSUME RendererInv, UNCHANGED renderer
    PROVE  RendererInv'
<1>1. UNCHANGED <<up, devMode, broken, templates, torn, abandoned, call>>
    BY DEF renderer
<1>2. \A r \in Slots : CallInv(r)' /\ Filled(r)' /\ (Owns(r)' <=> Owns(r))
    BY <1>1 DEF RendererInv, CallInv, Filled, Owns, Parses
<1>3. MapInv'
    BY <1>1, <1>2 DEF RendererInv, MapInv
<1>4. QED
    BY <1>1, <1>2, <1>3 DEF RendererInv


-----------------------------------------------------------------------------
(* Requests *)

LEMMA Requests ==
    ASSUME NEW at \in {"idle", "redirected", "home", "unit", "layout", "page", "toast", "other"},
           NEW slug \in Slugs \cup {None}, NEW hx \in BOOLEAN, NEW expect \in UnitIds \cup {None}
    PROVE  LET c == Request(at, slug, hx, expect)
           IN  /\ c \in Paging
               /\ c.at = at /\ c.slug = slug /\ c.hx = hx /\ c.expect = expect
               /\ c.status = 200 /\ c.sent = 0
<1> DEFINE c == Request(at, slug, hx, expect)
<1>1. c = [at |-> at, slug |-> slug, hx |-> hx, status |-> 200, sent |-> 0,
           expect |-> expect, shown |-> None, panicked |-> FALSE, failed |-> FALSE]
    BY DEF Request
<1>2. c \in Paging
    BY <1>1 DEF Paging, Codes
<1>3. QED
    BY <1>1, <1>2

LEMMA Headers ==
    ASSUME NEW c \in Paging, NEW code \in Codes \ {0}
    PROVE  LET d == WriteHeader(c, code)
           IN  /\ d \in Paging
               /\ d.at = c.at /\ d.slug = c.slug /\ d.hx = c.hx /\ d.expect = c.expect
               /\ d.status = code /\ d.sent = IF c.sent = 0 THEN code ELSE c.sent
               /\ d.failed = c.failed
<1>1. PICK sent \in Codes : sent = IF c.sent = 0 THEN code ELSE c.sent
    BY DEF Paging
<1>2. PICK d : d = [c EXCEPT !.status = code, !.sent = sent]
    OBVIOUS
<1>3. WriteHeader(c, code) = d
    BY <1>1, <1>2 DEF WriteHeader
<1>4. d = [at |-> c.at, slug |-> c.slug, hx |-> c.hx, status |-> code, sent |-> sent,
           expect |-> c.expect, shown |-> c.shown, panicked |-> c.panicked,
           failed |-> c.failed]
    BY <1>2 DEF Paging
<1>5. d \in Paging
    BY <1>4 DEF Paging
<1>6. QED
    BY <1>1, <1>3, <1>4, <1>5

LEMMA Bodies ==
    ASSUME NEW c \in Paging
    PROVE  LET d == Write(c)
           IN  /\ d \in Paging
               /\ d.at = c.at /\ d.slug = c.slug /\ d.hx = c.hx /\ d.expect = c.expect
               /\ d.status = c.status /\ d.sent = IF c.sent = 0 THEN 200 ELSE c.sent
BY DEF Write, Paging, Codes

LEMMA Recoveries ==
    ASSUME NEW c \in Paging, NEW d, d = Recovered(c)
    PROVE  /\ d \in Paging /\ d.slug = c.slug /\ d.expect = c.expect
           /\ c.hx => d.hx
           /\ d.status = 500 /\ d.sent = (IF c.sent = 0 THEN 500 ELSE c.sent)
           /\ d.panicked
<1> DEFINE e == WriteHeader(c, 500)
<1>1. /\ e \in Paging
      /\ e.at = c.at /\ e.slug = c.slug /\ e.hx = c.hx /\ e.expect = c.expect
      /\ e.status = 500 /\ e.sent = IF c.sent = 0 THEN 500 ELSE c.sent
    BY Headers DEF Codes
<1>2. d = [e EXCEPT !.panicked = TRUE]
    BY DEF Recovered
<1> HIDE DEF e
<1>3. PICK yes \in BOOLEAN : yes = TRUE
    OBVIOUS
<1>4. d = [e EXCEPT !.panicked = yes]
    BY <1>2, <1>3
<1>5. d \in Paging
    BY <1>1, <1>4 DEF Paging
<1>6. /\ d.slug = e.slug /\ d.hx = e.hx /\ d.status = e.status
      /\ d.sent = e.sent /\ d.expect = e.expect /\ d.panicked = yes
    BY <1>1, <1>4 DEF Paging
<1>7. QED
    BY <1>1, <1>3, <1>5, <1>6

LEMMA NoRequestUnderway ==
    /\ NoRequest \in Paging /\ NoRequest.at = "idle" /\ Underway(NoRequest)
    /\ Underway(NoRequest)'
<1>1. /\ NoRequest \in Paging /\ NoRequest.at = "idle" /\ NoRequest.expect = None
      /\ NoRequest.status = 200 /\ NoRequest.sent = 0
    BY DEF NoRequest, Request, Paging, Codes
<1>2. QED
    BY <1>1 DEF Underway


LEMMA UnitsStay ==
    ASSUME UnitsInv, UNCHANGED <<units, unitsBorn>>
    PROVE  UnitsInv'
BY DEF UnitsInv, Registry!Live

\* One request goes on: nothing changes for the others.
LEMMA PageStep ==
    ASSUME PagesInv, NEW r \in Slots, NEW next \in Paging, up,
           page' = [page EXCEPT ![r] = next], UNCHANGED <<up, units, unitsBorn>>,
           call' \in [Slots -> Calling], \A q \in Slots \ {r} : call'[q] = call[q],
           call'[r].at # "idle" <=> next.at \in {"page", "toast"},
           Underway(next)
    PROVE  page' \in [Slots -> Paging] /\ \A q \in Slots : PageInv(q)'
<1>1. page \in [Slots -> Paging] /\ \A q \in Slots : PageInv(q)
    BY DEF PagesInv
<1>2. page' \in [Slots -> Paging] /\ page'[r] = next
    BY <1>1
<1>3. PageInv(r)'
    <2>1. Underway(page[r])'
        BY <1>2 DEF Underway
    <2>2. QED
        BY <1>2, <2>1 DEF PageInv
<1>4. ASSUME NEW q \in Slots \ {r} PROVE PageInv(q)'
    <2>1. page'[q] = page[q] /\ call'[q] = call[q] /\ PageInv(q)
        BY <1>1
    <2>2. QED
        BY <2>1 DEF PageInv, Underway
<1>5. QED
    BY <1>2, <1>3, <1>4

LEMMA CallsAreTyped == RendererInv => call \in [Slots -> Calling]
    BY DEF RendererInv

\* A handler goes on.
LEMMA StepsKeep ==
    ASSUME PagesInv, NEW r \in Slots, NEW next \in Paging, up,
           {page[r].at, next.at} \cap {"page", "toast"} = {}, Underway(next), Steps(r, next)
    PROVE  PagesInv'
<1>1. /\ page' = [page EXCEPT ![r] = next] /\ log' = NoRequest
      /\ UNCHANGED renderer /\ UNCHANGED <<units, unitsBorn>>
    BY DEF Steps
<1>2. RendererInv' /\ UnitsInv'
    BY <1>1, RestKeeps, UnitsStay DEF PagesInv
<1>3. UNCHANGED <<up, call>>
    BY <1>1 DEF renderer
<1>4. call' \in [Slots -> Calling] /\ \A q \in Slots \ {r} : call'[q] = call[q]
    BY <1>2, <1>3, CallsAreTyped DEF PagesInv
<1>5. call'[r].at # "idle" <=> next.at \in {"page", "toast"}
    BY <1>3 DEF PagesInv, PageInv
<1>6. page' \in [Slots -> Paging] /\ \A q \in Slots : PageInv(q)'
    BY <1>1, <1>3, <1>4, <1>5, PageStep
<1>7. LogMatchesAnswer'
    BY <1>1 DEF LogMatchesAnswer
<1>8. QED
    BY <1>2, <1>6, <1>7 DEF PagesInv

\* A handler calls the renderer.
LEMMA RendersKeep ==
    ASSUME PagesInv, NEW r \in Slots, NEW next \in Paging, NEW name \in Names \cup {Component},
           up, page[r].at \notin {"page", "toast"}, next.at \in {"page", "toast"},
           Underway(next), Renders(r, next, name)
    PROVE  PagesInv'
<1>1. /\ page' = [page EXCEPT ![r] = next] /\ log' = NoRequest /\ Begun(r, name)
      /\ UNCHANGED <<up, devMode, broken, templates, torn, abandoned>>
      /\ UNCHANGED <<units, unitsBorn>>
    BY DEF Renders
<1>2. call[r].at = "idle" /\ call \in [Slots -> Calling]
    BY CallsAreTyped DEF PagesInv, PageInv
<1>3. RendererInv' /\ UnitsInv'
    BY <1>1, <1>2, BegunKeeps, UnitsStay DEF PagesInv
<1>4. /\ call' \in [Slots -> Calling]
      /\ \A q \in Slots \ {r} : call'[q] = call[q]
      /\ call'[r].at # "idle"
    BY <1>1, <1>2, <1>3 DEF Begun, NoCall, RendererInv
<1>5. page' \in [Slots -> Paging] /\ \A q \in Slots : PageInv(q)'
    BY <1>1, <1>4, PageStep
<1>6. LogMatchesAnswer'
    BY <1>1 DEF LogMatchesAnswer
<1>7. QED
    BY <1>3, <1>5, <1>6 DEF PagesInv

\* The log line of an answer: what it says is what was sent, but for the
\* toast that panicked.
Truthful(c) == c.status # c.sent => devMode /\ c.hx /\ c.panicked /\ c.sent = 404

\* A request is answered, by the handler itself or after its call.
LEMMA EndsKeep ==
    ASSUME PagesInv, NEW r \in Slots, NEW c \in Paging, up, Truthful(c), Ends(r, c),
           c.expect # None => /\ c.expect \in unitsBorn
                              /\ units[c.expect] = None \/ units[c.expect].slug = c.slug,
           \/ call[r].at = "idle" /\ UNCHANGED call
           \/ Done(r) /\ Becomes(r, NoCall)
    PROVE  PagesInv'
<1> DEFINE next == IF c.sent = 307 THEN Request("redirected", c.slug, c.hx, c.expect)
                   ELSE NoRequest
<1>1. /\ page' = [page EXCEPT ![r] = next] /\ log' = c
      /\ UNCHANGED <<up, devMode, broken, templates, torn, abandoned>>
      /\ UNCHANGED <<units, unitsBorn>>
    BY DEF Ends
<1>2. next \in Paging /\ next.at \notin {"page", "toast"} /\ Underway(next)
    <2>1. CASE c.sent = 307
        <3>1. next = Request("redirected", c.slug, c.hx, c.expect)
            BY <2>1
        <3>2. c.slug \in Slugs \cup {None} /\ c.hx \in BOOLEAN /\ c.expect \in UnitIds \cup {None}
            BY DEF Paging
        <3>3. /\ next \in Paging /\ next.at = "redirected" /\ next.slug = c.slug
              /\ next.expect = c.expect /\ next.status = 200 /\ next.sent = 0
            BY <3>1, <3>2, Requests
        <3>4. QED
            BY <3>3 DEF Underway
    <2>2. CASE c.sent # 307
        BY <2>2, NoRequestUnderway
    <2>3. QED
        BY <2>1, <2>2
<1> HIDE DEF next
<1>3. RendererInv' /\ UnitsInv'
    BY <1>1, RestKeeps, TakenKeeps, UnitsStay DEF PagesInv, renderer
<1>4. call \in [Slots -> Calling] /\ call' \in [Slots -> Calling]
    BY <1>3, CallsAreTyped DEF PagesInv, RendererInv
<1>5. call'[r].at = "idle" /\ \A q \in Slots \ {r} : call'[q] = call[q]
    BY <1>4 DEF Becomes, NoCall
<1>6. page' \in [Slots -> Paging] /\ \A q \in Slots : PageInv(q)'
    BY <1>1, <1>2, <1>4, <1>5, PageStep
<1>7. LogMatchesAnswer'
    BY <1>1 DEF LogMatchesAnswer, Truthful
<1>8. QED
    BY <1>3, <1>6, <1>7 DEF PagesInv

\* To htmx an error is a toast.
LEMMA ToastsRender ==
    ASSUME NEW r, NEW c \in Paging, NEW code \in {404, 500}, c.hx, HandleError(r, c, code)
    PROVE  \E toast \in Paging :
             /\ Renders(r, toast, Component)
             /\ toast.at = "toast" /\ toast.hx /\ toast.expect = None
             /\ toast.status = code /\ toast.sent = code
             /\ toast.failed = c.failed
<1>1. PICK fresh : fresh = Request("toast", None, TRUE, None)
    OBVIOUS
<1> DEFINE begun == [fresh EXCEPT !.failed = c.failed]
<1>2. Renders(r, WriteHeader(begun, code), Component)
    BY <1>1, Zenon DEF HandleError
<1> DEFINE toast == WriteHeader(begun, code)
<1>3. Renders(r, toast, Component)
    BY Zenon, <1>2
<1>4. /\ fresh \in Paging /\ fresh.at = "toast" /\ fresh.hx = TRUE
      /\ fresh.expect = None /\ fresh.sent = 0
    BY <1>1 DEF Request, Paging, Codes
<1>5. /\ begun \in Paging /\ begun.at = "toast" /\ begun.hx = TRUE
      /\ begun.expect = None /\ begun.sent = 0 /\ begun.failed = c.failed
    BY <1>4 DEF Paging
<1> HIDE DEF begun
<1>6. /\ toast \in Paging /\ toast.at = begun.at /\ toast.hx = begun.hx
      /\ toast.expect = begun.expect /\ toast.status = code
      /\ toast.sent = IF begun.sent = 0 THEN code ELSE begun.sent
      /\ toast.failed = begun.failed
    <2>1. code \in Codes \ {0}
        BY DEF Codes
    <2>2. QED
        BY <1>5, <2>1, Headers
<1> HIDE DEF toast
<1>7. QED
    BY <1>3, <1>5, <1>6

\* An error: a status, or a toast that the renderer is to write.
LEMMA HandleErrorKeeps ==
    ASSUME PagesInv, NEW r \in Slots, NEW c \in Paging, NEW code \in {404, 500}, up,
           page[r].at \notin {"page", "toast"}, c.sent = 0,
           c.expect # None => /\ c.expect \in unitsBorn
                              /\ units[c.expect] = None \/ units[c.expect].slug = c.slug,
           HandleError(r, c, code)
    PROVE  PagesInv'
<1>1. CASE c.hx
    <2>1. PICK toast \in Paging :
                 /\ Renders(r, toast, Component)
                 /\ toast.at = "toast" /\ toast.hx /\ toast.expect = None
                 /\ toast.status = code /\ toast.sent = code
        BY <1>1, ToastsRender
    <2>2. Underway(toast)
        BY <2>1 DEF Underway
    <2>3. QED
        BY <2>1, <2>2, RendersKeep
<1>2. CASE ~ c.hx
    <2>1. PICK d : d = WriteHeader(c, code)
        OBVIOUS
    <2>2. Ends(r, d) /\ UNCHANGED call
        BY <1>2, <2>1 DEF HandleError
    <2>3. /\ d \in Paging /\ d.slug = c.slug /\ d.expect = c.expect
          /\ d.status = code /\ d.sent = code
        BY <2>1, Headers DEF Codes
    <2>4. Truthful(d)
        BY <2>3 DEF Truthful
    <2>5. call[r].at = "idle"
        BY DEF PagesInv, PageInv
    <2>6. QED
        BY <2>2, <2>3, <2>4, <2>5, EndsKeep
<1>3. QED
    BY <1>1, <1>2


-----------------------------------------------------------------------------
(* The handlers *)

\* A request at a handler belongs to a running process, and nothing has been
\* sent to it yet.
LEMMA AtHandler ==
    ASSUME PagesInv, NEW r \in Slots,
           page[r].at \in {"redirected", "home", "unit", "layout", "page", "toast"}
    PROVE  up /\ page[r] \in Paging /\ Underway(page[r])
BY NoRequestUnderway DEF PagesInv, PageInv

LEMMA GetKeeps ==
    ASSUME PagesInv, NEW r \in Slots, NEW hx \in BOOLEAN, Get(r, hx)
    PROVE  PagesInv'
<1>1. up /\ page[r].at \notin {"page", "toast"}
    BY DEF Get
<1>2. ASSUME NEW at \in {"home", "unit"}, NEW slug \in Slugs \cup {None},
             Steps(r, Request(at, slug, hx, None))
      PROVE  PagesInv'
    <2>1. PICK c : c = Request(at, slug, hx, None)
        OBVIOUS
    <2>2. /\ c \in Paging /\ c.at = at /\ c.expect = None /\ c.status = 200 /\ c.sent = 0
        BY <2>1 DEF Request, Paging, Codes
    <2>3. Underway(c)
        BY <2>2 DEF Underway
    <2>4. Steps(r, c)
        BY <1>2, <2>1
    <2>5. QED
        BY <1>1, <2>2, <2>3, <2>4, StepsKeep
<1>3. ASSUME HandleError(r, Request("other", None, hx, None), 404)
      PROVE  PagesInv'
    <2>1. PICK c : c = Request("other", None, hx, None)
        OBVIOUS
    <2>2. c \in Paging /\ c.expect = None /\ c.sent = 0
        BY <2>1 DEF Request, Paging, Codes
    <2>3. HandleError(r, c, 404)
        BY <1>3, <2>1
    <2>4. QED
        BY <1>1, <2>2, <2>3, HandleErrorKeeps
<1>4. QED
    BY <1>2, <1>3 DEF Get

LEMMA FollowKeeps ==
    ASSUME PagesInv, NEW r \in Slots, Follow(r)
    PROVE  PagesInv'
<1>1. up /\ page[r].at = "redirected"
    BY DEF Follow
<1>2. PICK c : c = page[r]
    OBVIOUS
<1>3. c \in Paging /\ Underway(c)
    BY <1>1, <1>2, AtHandler
<1>4. PICK d : d = Request("unit", c.slug, c.hx, c.expect)
    OBVIOUS
<1>5. /\ d \in Paging /\ d.at = "unit" /\ d.slug = c.slug /\ d.expect = c.expect
      /\ d.status = 200 /\ d.sent = 0
    BY <1>3, <1>4 DEF Request, Paging, Codes
<1>6. Underway(d)
    BY <1>3, <1>5 DEF Underway
<1>7. Steps(r, d)
    BY <1>2, <1>4 DEF Follow
<1>8. QED
    BY <1>1, <1>5, <1>6, <1>7, StepsKeep

\* The request for a page that the renderer is to write.
LEMMA PageRequest ==
    LET c == Request("page", None, FALSE, None)
    IN  c \in Paging /\ c.at = "page" /\ Underway(c)
<1> DEFINE c == Request("page", None, FALSE, None)
<1>1. /\ c \in Paging /\ c.at = "page" /\ c.expect = None /\ c.status = 200 /\ c.sent = 0
    BY DEF Request, Paging, Codes
<1>2. QED
    BY <1>1 DEF Underway

LEMMA HomeKeeps ==
    ASSUME PagesInv, NEW r \in Slots, Home(r)
    PROVE  PagesInv'
<1>1. page[r].at = "home"
    BY DEF Home
<1>2. up /\ call[r].at = "idle"
    BY <1>1, AtHandler DEF PagesInv, PageInv
<1>3. ASSUME NEW id \in Registry!ListUnitsByUserGroups(UserGroups), UNCHANGED call,
             Ends(r, WriteHeader([page[r] EXCEPT !.slug = units[id].slug, !.expect = id], 307))
      PROVE  PagesInv'
    <2>1. PICK c : c = page[r]
        OBVIOUS
    <2>2. c \in Paging /\ c.at = "home" /\ Underway(c)
        BY <1>1, <2>1, AtHandler
    <2>3. id \in UnitIds /\ units[id] # None
        BY DEF Registry!ListUnitsByUserGroups, Registry!Live
    <2>4. units[id] \in UnitTypes /\ id \in unitsBorn
        BY <2>3 DEF PagesInv, UnitsInv, Registry!Live
    <2>5. units[id].slug \in Slugs
        BY <2>4 DEF UnitTypes
    <2>6. PICK slug \in Slugs : slug = units[id].slug
        BY <2>5
    <2>7. PICK d : d = [c EXCEPT !.slug = slug, !.expect = id]
        OBVIOUS
    <2>8. d = [at |-> c.at, slug |-> slug, hx |-> c.hx, status |-> c.status, sent |-> c.sent,
               expect |-> id, shown |-> c.shown, panicked |-> c.panicked,
               failed |-> c.failed]
        BY <2>2, <2>7 DEF Paging
    <2>9. d \in Paging /\ d.slug = slug /\ d.expect = id /\ d.sent = 0
        BY <2>2, <2>3, <2>8 DEF Paging, Underway
    <2>10. PICK e : e = WriteHeader(d, 307)
        OBVIOUS
    <2>11. /\ e \in Paging /\ e.slug = slug /\ e.expect = id /\ e.status = 307 /\ e.sent = 307
        <3>1. 307 \in Codes \ {0}
            BY DEF Codes
        <3>2. QED
            BY <2>9, <2>10, <3>1, Headers
    <2>12. Truthful(e)
        BY <2>11 DEF Truthful
    <2>13. Ends(r, e)
        BY <1>3, <2>1, <2>6, <2>7, <2>10
    <2>14. QED
        BY <1>2, <1>3, <2>4, <2>6, <2>11, <2>12, <2>13, EndsKeep
<1>4. ASSUME Renders(r, Request("page", None, FALSE, None), HomePage)
      PROVE  PagesInv'
    BY <1>1, <1>2, <1>4, PageRequest, PagesAssumption, RendersKeep
<1>5. QED
    BY <1>3, <1>4 DEF Home

LEMMA UnitDashboardKeeps ==
    ASSUME PagesInv, NEW r \in Slots, UnitDashboard(r)
    PROVE  PagesInv'
<1>1. page[r].at = "unit"
    BY DEF UnitDashboard
<1>2. PICK c : c = page[r]
    OBVIOUS
<1>3. up /\ c \in Paging /\ c.at = "unit" /\ Underway(c) /\ c.sent = 0
    BY <1>1, <1>2, AtHandler DEF Underway
<1>4. CASE HandleError(r, page[r], 404)
    BY <1>1, <1>2, <1>3, <1>4, HandleErrorKeeps DEF Underway
<1>5. ASSUME NEW id \in Registry!GetUnitBySlug(page[r].slug),
             Steps(r, [page[r] EXCEPT !.at = "layout", !.shown = id])
      PROVE  PagesInv'
    <2>1. id \in UnitIds
        BY DEF Registry!GetUnitBySlug, Registry!Live
    <2>2. PICK d : d = [c EXCEPT !.at = "layout", !.shown = id]
        OBVIOUS
    <2>3. d = [at |-> "layout", slug |-> c.slug, hx |-> c.hx, status |-> c.status,
               sent |-> c.sent, expect |-> c.expect, shown |-> id, panicked |-> c.panicked,
               failed |-> c.failed]
        BY <1>3, <2>2 DEF Paging
    <2>4. /\ d \in Paging /\ d.at = "layout" /\ d.sent = c.sent /\ d.status = c.status
          /\ d.expect = c.expect /\ d.slug = c.slug
        BY <1>3, <2>1, <2>3 DEF Paging
    <2>5. Underway(d)
        BY <1>3, <2>4 DEF Underway
    <2>6. Steps(r, d)
        BY <1>2, <1>5, <2>2
    <2>7. QED
        BY <1>1, <1>3, <2>4, <2>5, <2>6, StepsKeep
<1>6. QED
    BY <1>4, <1>5 DEF UnitDashboard

LEMMA NewLayoutDataKeeps ==
    ASSUME PagesInv, NEW r \in Slots, NewLayoutData(r)
    PROVE  PagesInv'
<1>1. page[r].at = "layout" /\ Renders(r, Request("page", None, FALSE, None), UnitPage)
    BY DEF NewLayoutData
<1>2. up
    BY <1>1, AtHandler
<1>3. QED
    BY <1>1, <1>2, PageRequest, PagesAssumption, RendersKeep

LEMMA ReadFailsKeeps ==
    ASSUME PagesInv, NEW r \in Slots, ReadFails(r)
    PROVE  PagesInv'
<1>1. PICK c : c = page[r]
    OBVIOUS
<1>2. PICK d : d = [c EXCEPT !.failed = TRUE]
    OBVIOUS
<1>3. PICK code \in {404, 500} : d.at \in {"home", "unit"} /\ HandleError(r, d, code)
    BY <1>1, <1>2 DEF ReadFails
<1>4. PICK yes \in BOOLEAN : d = [c EXCEPT !.failed = yes]
    BY <1>2
<1>5. page \in [Slots -> Paging]
    BY DEF PagesInv
<1>6. d \in Paging /\ d.at = c.at /\ d.sent = c.sent /\ d.expect = c.expect /\ d.slug = c.slug
    BY <1>1, <1>4, <1>5 DEF Paging
<1>7. up /\ Underway(c) /\ c.sent = 0
    BY <1>1, <1>3, <1>6, AtHandler DEF Underway
<1>8. QED
    BY <1>1, <1>3, <1>6, <1>7, HandleErrorKeeps DEF Underway

\* The renderer's answer reaches the client and the log.
LEMMA RenderedKeeps ==
    ASSUME PagesInv, NEW r \in Slots, Rendered(r)
    PROVE  PagesInv'
<1>1. Done(r) /\ Becomes(r, NoCall)
    BY DEF Rendered
<1>2. PICK c : c = page[r]
    OBVIOUS
<1>3. c.at \in {"page", "toast"}
    BY <1>1, <1>2 DEF PagesInv, PageInv, Done
<1>4. up /\ c \in Paging /\ Underway(c)
    BY <1>2, <1>3, AtHandler
<1>5. /\ c.at = "page" => c.sent = 0 /\ c.status = 200
      /\ c.at = "toast" => c.hx /\ c.sent \in {404, 500} /\ c.status = c.sent
      /\ c.expect # None => /\ c.expect \in unitsBorn
                            /\ units[c.expect] = None \/ units[c.expect].slug = c.slug
    BY <1>4 DEF Underway
<1>6. PICK answered : /\ Ends(r, answered)
                      /\ \/ call[r].result = "panic" /\ answered = Recovered(c)
                         \/ call[r].result = "found" /\ answered = Write(c)
                         \/ c.at = "toast" /\ answered = Write(c)
                         \/ c.at # "toast" /\ answered = WriteHeader(c, 500)
    BY <1>2 DEF Rendered
<1>7. answered \in Paging /\ Truthful(answered) /\ answered.slug = c.slug
      /\ answered.expect = c.expect
    <2>1. CASE call[r].result = "panic" /\ answered = Recovered(c)
        <3>1. devMode
            BY <2>1 DEF PagesInv, RendererInv, CallInv
        <3>2. /\ answered \in Paging /\ answered.slug = c.slug /\ answered.expect = c.expect
              /\ answered.status = 500 /\ answered.panicked
              /\ answered.sent = IF c.sent = 0 THEN 500 ELSE c.sent
              /\ c.hx => answered.hx
            BY <1>4, <2>1, Recoveries
        <3>3. QED
            BY <1>3, <1>5, <3>1, <3>2 DEF Truthful
    <2>2. CASE answered = Write(c)
        <3>1. /\ answered \in Paging /\ answered.slug = c.slug /\ answered.expect = c.expect
              /\ answered.status = c.status
              /\ answered.sent = IF c.sent = 0 THEN 200 ELSE c.sent
            BY <1>4, <2>2, Bodies
        <3>2. QED
            BY <1>3, <1>5, <3>1 DEF Truthful
    <2>3. CASE c.at # "toast" /\ answered = WriteHeader(c, 500)
        <3>1. 500 \in Codes \ {0}
            BY DEF Codes
        <3>2. /\ answered \in Paging /\ answered.slug = c.slug /\ answered.expect = c.expect
              /\ answered.status = 500
              /\ answered.sent = IF c.sent = 0 THEN 500 ELSE c.sent
            BY <1>4, <2>3, <3>1, Headers
        <3>3. QED
            BY <1>3, <1>5, <2>3, <3>2 DEF Truthful
    <2>4. QED
        BY <1>6, <2>1, <2>2, <2>3
<1>8. QED
    BY <1>1, <1>4, <1>5, <1>6, <1>7, EndsKeep


-----------------------------------------------------------------------------
(* The other processes *)

\* Administrators: a new unit has an id that no redirect can have named, and
\* an old one keeps its slug.
LEMMA AdministerKeeps ==
    ASSUME PagesInv, Administer
    PROVE  PagesInv'
<1>1. /\ UnitsInv /\ units \in [UnitIds -> UnitTypes \cup {None}]
      /\ Registry!Live \subseteq unitsBorn
      /\ \A i, j \in Registry!Live : units[i].slug = units[j].slug => i = j
    BY DEF PagesInv, UnitsInv
<1>2. log' = NoRequest /\ UNCHANGED renderer /\ UNCHANGED page
    BY DEF Administer
<1>3. ASSUME NEW id \in UnitIds, NEW content \in UnitContents, Registry!Create(id, content)
      PROVE  UnitsInv' /\ \A c \in Paging : Underway(c) => Underway(c)'
    <2>1. /\ id \notin unitsBorn /\ content \in UnitTypes /\ content # None
          /\ \A other \in Registry!Live : units[other].slug # content.slug
          /\ units' = [units EXCEPT ![id] = content] /\ unitsBorn' = unitsBorn \cup {id}
        BY <1>3, PagesAssumption DEF Registry!Create
    <2>2. units' \in [UnitIds -> UnitTypes \cup {None}]
        BY <1>1, <2>1
    <2>3. Registry!Live' = Registry!Live \cup {id}
        BY <1>1, <2>1 DEF Registry!Live
    <2>4. \A i, j \in Registry!Live' : units'[i].slug = units'[j].slug => i = j
        BY <1>1, <2>1, <2>3 DEF Registry!Live
    <2>5. UnitsInv'
        BY <1>1, <2>1, <2>2, <2>3, <2>4 DEF UnitsInv
    <2>6. ASSUME NEW c \in Paging, Underway(c) PROVE Underway(c)'
        <3>1. c.expect # id
            BY <1>3, <2>1, <2>6, PagesAssumption DEF Underway
        <3>2. c.expect # None => units'[c.expect] = units[c.expect]
            BY <1>1, <2>1, <3>1 DEF Paging
        <3>3. QED
            BY <2>1, <2>6, <3>2 DEF Underway
    <2>7. QED
        BY <2>5, <2>6
<1>4. ASSUME NEW id \in Registry!Live, NEW new \in UnitTypes \cup {None},
             new = None \/ new.slug = units[id].slug,
             units' = [units EXCEPT ![id] = new], UNCHANGED unitsBorn
      PROVE  UnitsInv' /\ \A c \in Paging : Underway(c) => Underway(c)'
    <2>1. id \in UnitIds
        BY DEF Registry!Live
    <2>2. units' \in [UnitIds -> UnitTypes \cup {None}] /\ units'[id] = new
        BY <1>1, <1>4, <2>1
    <2>3. Registry!Live' \subseteq Registry!Live
        BY <1>1, <1>4 DEF Registry!Live
    <2>4. \A i \in Registry!Live' : units'[i].slug = units[i].slug
        BY <1>1, <1>4, <2>1, <2>2 DEF Registry!Live
    <2>5. UnitsInv'
        BY <1>1, <1>4, <2>2, <2>3, <2>4 DEF UnitsInv
    <2>6. ASSUME NEW c \in Paging, Underway(c) PROVE Underway(c)'
        <3>1. c.expect # None => c.expect \in UnitIds
            BY DEF Paging
        <3>2. c.expect # None =>
                 units'[c.expect] = None \/ units'[c.expect].slug = c.slug
            BY <1>1, <1>4, <2>2, <2>6, <3>1 DEF Underway, Registry!Live
        <3>3. QED
            BY <1>4, <2>6, <3>2 DEF Underway
    <2>7. QED
        BY <2>5, <2>6
<1>5. UnitsInv' /\ \A c \in Paging : Underway(c) => Underway(c)'
    <2>1. ASSUME NEW id \in UnitIds, NEW content \in UnitContents, Registry!Update(id, content)
          PROVE  UnitsInv' /\ \A c \in Paging : Underway(c) => Underway(c)'
        <3>1. id \in Registry!Live /\ units[id] \in UnitTypes
            BY <1>1, <2>1 DEF Registry!Update, Registry!Live
        <3>2. PICK new : new = [content EXCEPT !.slug = units[id].slug]
            OBVIOUS
        <3>3. content \in UnitTypes
            BY PagesAssumption
        <3>4. new \in UnitTypes /\ new.slug = units[id].slug
            BY <3>1, <3>2, <3>3 DEF UnitTypes
        <3>5. units' = [units EXCEPT ![id] = new] /\ UNCHANGED unitsBorn
            BY <2>1, <3>2 DEF Registry!Update
        <3>6. QED
            BY <1>4, <3>1, <3>4, <3>5
    <2>2. ASSUME NEW id \in Registry!Live, Registry!Delete(id)
          PROVE  UnitsInv' /\ \A c \in Paging : Underway(c) => Underway(c)'
        <3>1. units' = [units EXCEPT ![id] = None] /\ UNCHANGED unitsBorn
            BY <2>2 DEF Registry!Delete
        <3>2. QED
            BY <1>4, <3>1
    <2>3. QED
        BY <1>3, <2>1, <2>2 DEF Administer
<1>6. RendererInv'
    BY <1>2, RestKeeps DEF PagesInv
<1>7. \A q \in Slots : PageInv(q)'
    <2>1. SUFFICES ASSUME NEW q \in Slots PROVE PageInv(q)'
        OBVIOUS
    <2>2. page[q] \in Paging /\ PageInv(q)
        BY DEF PagesInv
    <2>3. Underway(page[q])'
        BY <1>2, <1>5, <2>2 DEF PageInv, Underway
    <2>4. QED
        BY <1>2, <2>2, <2>3 DEF PageInv, renderer
<1>8. LogMatchesAnswer'
    BY <1>2 DEF LogMatchesAnswer
<1>9. QED
    BY <1>2, <1>5, <1>6, <1>7, <1>8 DEF PagesInv

\* The renderer's own steps, and a file saved.
LEMMA RenderingKeeps ==
    ASSUME PagesInv, Rendering
    PROVE  PagesInv'
<1>1. log' = NoRequest /\ UNCHANGED <<units, unitsBorn, page>>
    BY DEF Rendering
<1>2. RendererInv'
    BY RenderKeeps, ProcessKeeps DEF Rendering, PagesInv
<1>3. up => up'
    BY RenderKeeps DEF Rendering, Start, Edit, PagesInv
<1>4. ASSUME NEW q \in Slots PROVE call'[q].at # "idle" <=> call[q].at # "idle"
    <2>1. call \in [Slots -> Calling] /\ CallInv(q)
        BY DEF PagesInv, RendererInv
    <2>2. ASSUME NEW r \in Slots, Render(r) PROVE call'[q].at # "idle" <=> call[q].at # "idle"
        <3>1. CASE MakeMap(r)
            BY <2>1, <3>1 DEF MakeMap, Calling
        <3>2. CASE ParseFile(r)
            BY <2>1, <3>2 DEF ParseFile, Parsing, Becomes, Returned, NoCall, Calling
        <3>3. CASE BeginStore(r)
            BY <2>1, <3>3 DEF BeginStore, Parsing, Calling
        <3>4. CASE Store(r)
            BY <2>1, <3>4 DEF Store, Becomes, Calling
        <3>5. CASE LookUp(r)
            BY <2>1, <3>5 DEF LookUp, LookingUp, Becomes, Returned, NoCall, Calling
        <3>6. QED
            BY <2>2, <3>1, <3>2, <3>3, <3>4, <3>5 DEF Render
    <2>3. QED
        BY <2>2 DEF Rendering, Start, Edit
<1>5. \A q \in Slots : PageInv(q)'
    BY <1>1, <1>3, <1>4 DEF PagesInv, PageInv, Underway
<1>6. UnitsInv' /\ LogMatchesAnswer'
    BY <1>1, UnitsStay DEF PagesInv, LogMatchesAnswer
<1>7. QED
    BY <1>1, <1>2, <1>5, <1>6 DEF PagesInv

LEMMA CrashKeeps ==
    ASSUME PagesInv, Crash
    PROVE  PagesInv'
<1>1. /\ Fatal /\ page' = [r \in Slots |-> NoRequest] /\ log' = NoRequest
      /\ UNCHANGED <<units, unitsBorn>>
    BY DEF Crash
<1>2. RendererInv' /\ UnitsInv' /\ LogMatchesAnswer'
    BY <1>1, ProcessKeeps, UnitsStay DEF PagesInv, LogMatchesAnswer
<1>3. \A r \in Slots : page'[r] = NoRequest /\ call'[r] = NoCall
    BY <1>1 DEF Fatal
<1>4. page' \in [Slots -> Paging]
    BY <1>1, NoRequestUnderway
<1>5. \A r \in Slots : PageInv(r)'
    BY <1>3, NoRequestUnderway DEF PageInv, Underway, NoCall
<1>6. QED
    BY <1>2, <1>4, <1>5 DEF PagesInv

LEMMA PagesInit == Init => PagesInv
<1> SUFFICES ASSUME Init PROVE PagesInv
    OBVIOUS
<1>1. RendererInit /\ Registry!Init /\ page = [r \in Slots |-> NoRequest] /\ log = NoRequest
    BY DEF Init
<1>2. \A r \in Slots : call[r] = NoCall
    BY <1>1 DEF RendererInit
<1>3. ASSUME NEW r \in Slots PROVE CallInv(r) /\ Filled(r)
    <2>1. call[r] = NoCall
        BY <1>2
    <2>2. QED
        BY <2>1 DEF CallInv, Filled, Owns, Parses, NoCall
<1>4. RendererInv
    BY <1>1, <1>2, <1>3, NoCallType DEF RendererInv, RendererInit, MapInv
<1>5. UnitsInv
    BY <1>1 DEF UnitsInv, Registry!Init, Registry!Live
<1>6. page \in [Slots -> Paging] /\ \A r \in Slots : page[r] = NoRequest
    BY <1>1, NoRequestUnderway
<1>7. \A r \in Slots : PageInv(r)
    BY <1>1, <1>2, <1>6, NoRequestUnderway DEF PageInv, NoCall, RendererInit
<1>8. LogMatchesAnswer
    BY <1>1 DEF LogMatchesAnswer
<1>9. QED
    BY <1>4, <1>5, <1>6, <1>7, <1>8 DEF PagesInv


-----------------------------------------------------------------------------
(* Theorems *)

\* Every step keeps the invariant.
LEMMA PagesStep == PagesInv /\ [Next]_vars => PagesInv'
<1> SUFFICES ASSUME PagesInv, [Next]_vars PROVE PagesInv'
    OBVIOUS
<1>1. CASE Next
    BY <1>1, GetKeeps, FollowKeeps, HomeKeeps, UnitDashboardKeeps, NewLayoutDataKeeps,
       ReadFailsKeeps, RenderedKeeps, RenderingKeeps, CrashKeeps, AdministerKeeps
       DEF Next
<1>2. CASE UNCHANGED vars
    <2>1. UNCHANGED renderer /\ UNCHANGED <<units, unitsBorn, page, log>>
        BY <1>2 DEF vars
    <2>2. RendererInv' /\ UnitsInv'
        BY <2>1, RestKeeps, UnitsStay DEF PagesInv
    <2>3. \A r \in Slots : PageInv(r)'
        BY <2>1 DEF PagesInv, PageInv, Underway, renderer
    <2>4. LogMatchesAnswer'
        BY <2>1 DEF PagesInv, LogMatchesAnswer, renderer
    <2>5. QED
        BY <2>1, <2>2, <2>3, <2>4 DEF PagesInv
<1>3. QED
    BY <1>1, <1>2

\* The shared map, the calls that fill it, the requests and the units agree,
\* whatever requests, developers and administrators do (Renderer.Page and
\* parseTemplates in render.go, the handlers of home.go, Logging and Recovery).
THEOREM PagesInvariance == Spec => []PagesInv
<1>1. Init => PagesInv
    BY PagesInit
<1>2. PagesInv /\ [Next]_vars => PagesInv'
    BY PagesStep
<1>3. QED
    BY <1>1, <1>2, PTL DEF Spec

\* Requests, calls and the map are well formed, and a handler waits exactly
\* as long as its call of Page or Component runs.
THEOREM PagesTypeCorrect == Spec => []TypeOK
<1>1. PagesInv => TypeOK
    BY DEF PagesInv, RendererInv, PageInv, Underway, Paging, TypeOK
<1>2. QED
    BY <1>1, PagesInvariance, PTL

\* Requests that parse at the same time and store into each other's maps
\* leave a whole map behind when they are through, unless the last request to
\* make a map has panicked or a race has spoilt the map (parseTemplates).
THEOREM SettledMaps == Spec => []SettledMapIsComplete
<1>1. PagesInv => SettledMapIsComplete
    BY DEF PagesInv, RendererInv, MapInv, Owns, Parses, SettledMapIsComplete
<1>2. QED
    BY <1>1, PagesInvariance, PTL

\* What Logging writes is the status that the client got, but for the error
\* toast of an HTMX request that panicked in dev mode (statusRecorder in
\* logging.go, Recovery, Wrap and handleError).
THEOREM LogsAreAnswers == Spec => []LogMatchesAnswer
<1>1. PagesInv => LogMatchesAnswer
    BY DEF PagesInv
<1>2. QED
    BY <1>1, PagesInvariance, PTL

\* A lookup that misses has a reason: dev mode, and a map that somebody else
\* has made since, or is storing into, or that a race has spoilt.
LEMMA Misses ==
    ASSUME RendererInv, NEW r \in Slots, LookUp(r), call'[r].result = "missing"
    PROVE  devMode /\ (call[r].remade \/ OthersStore(r) \/ torn)
<1>1. PICK result \in {"found", "missing"} :
        /\ torn \/ OthersStore(r) \/ (result = "found" <=> Contains(call[r].name))
        /\ Becomes(r, Returned(result))
    BY DEF LookUp
<1>2. call \in [Slots -> Calling] /\ CallInv(r)
    BY DEF RendererInv
<1>3. result = "missing"
    BY <1>1, <1>2 DEF Becomes, Returned, NoCall
<1>4. LookingUp(r) /\ up
    BY DEF LookUp, LookingUp, RendererInv, MapInv, NoCall
<1>5. call[r].name \in Names \cup {Component}
    BY <1>2, <1>4 DEF LookingUp, CallInv
<1>6. templates = Names => Contains(call[r].name)
    BY <1>5, PagesAssumption DEF Contains
<1>7. CASE torn \/ OthersStore(r)
    <2>1. ASSUME OthersStore(r) PROVE devMode
        BY <2>1 DEF OthersStore, RendererInv, CallInv
    <2>2. QED
        BY <1>7, <2>1 DEF RendererInv, MapInv
<1>8. CASE ~ torn /\ ~ OthersStore(r)
    <2>1. templates # Names
        BY <1>1, <1>3, <1>6, <1>8
    <2>2. CASE call[r].at = "look"
        <3>1. ~ devMode
            BY <1>2, <2>2 DEF CallInv
        <3>2. \A q \in Slots : ~ Owns(q)
            BY <3>1 DEF RendererInv, CallInv, Owns, Parses
        <3>3. QED
            BY <1>4, <1>8, <2>1, <3>1, <3>2 DEF RendererInv, MapInv
    <2>3. CASE call[r].at = "parse" /\ call[r].next > Len(Files)
        <3>1. devMode
            BY <1>2, <2>3 DEF CallInv
        <3>2. ~ Owns(r)
            BY <1>8, <2>1, <2>3, OwnerIsThrough
        <3>3. QED
            BY <2>3, <3>1, <3>2 DEF Owns, Parses
    <2>4. QED
        BY <1>4, <2>2, <2>3 DEF LookingUp
<1>9. QED
    BY <1>7, <1>8

\* Only its own lookup answers a call with "missing".
LEMMA OnlyLookUpMisses ==
    ASSUME PagesInv, [Next]_vars, NEW r \in Slots, LookingUp(r), call'[r].result = "missing"
    PROVE  LookUp(r)
<1>1. call \in [Slots -> Calling] /\ CallInv(r) /\ call[r].result = "none"
    BY DEF PagesInv, RendererInv, CallInv, LookingUp
<1>2. call' # call /\ call'[r] # call[r] /\ call'[r] # NoCall
    BY <1>1 DEF NoCall
<1>3. ASSUME NEW q \in Slots, NEW name, Begun(q, name) PROVE FALSE
    <2>1. call'[r] = call[r] \/ call'[r] = [NoCall EXCEPT !.at = IF Reparses THEN "make" ELSE "look",
                                                          !.name = name]
        BY <1>1, <1>3 DEF Begun
    <2>2. call'[r].result = "none"
        BY <1>1, <2>1 DEF NoCall
    <2>3. QED
        BY <2>2
<1>4. ASSUME NEW q \in Slots, Rendered(q) PROVE FALSE
    BY <1>1, <1>2, <1>4 DEF Rendered, Becomes
<1>5. ~ Crash
    BY <1>2 DEF Crash, Fatal
<1>6. ~ Administer
    BY <1>2 DEF Administer, renderer
<1>7. ASSUME NEW q \in Slots, NEW hx \in BOOLEAN,
             Get(q, hx) \/ Follow(q) \/ Home(q) \/ UnitDashboard(q) \/ NewLayoutData(q)
             \/ ReadFails(q)
      PROVE  FALSE
    <2>1. UNCHANGED call \/ \E name \in {HomePage, UnitPage, Component} : Begun(q, name)
        BY <1>7 DEF Get, Follow, Home, UnitDashboard, NewLayoutData, ReadFails, HandleError,
                    Steps, Renders, renderer
    <2>2. QED
        BY <1>2, <1>3, <2>1
<1>8. Rendering
    BY <1>2, <1>4, <1>5, <1>6, <1>7 DEF Next, vars, renderer
<1>9. PICK q \in Slots : Render(q)
    BY <1>2, <1>8 DEF Rendering, Start, Edit
<1>10. ~ MakeMap(q) /\ ~ BeginStore(q)
    <2>1. ASSUME NEW x, NEW y
          PROVE  /\ [call[r] EXCEPT !.remade = x, !.old = y].result = "none"
                 /\ [call[r] EXCEPT !.at = x, !.next = y].result = "none"
                 /\ [call[r] EXCEPT !.at = x, !.raced = y].result = "none"
                 /\ [call[r] EXCEPT !.raced = x].result = "none"
        BY <1>1 DEF Calling
    <2>2. ASSUME MakeMap(q) PROVE FALSE
        <3>1. CASE r = q
            <4>1. call'[r] = [call[r] EXCEPT !.at = "parse", !.next = 1]
                BY <2>2, <3>1 DEF MakeMap
            <4>2. QED
                BY <2>1, <4>1
        <3>2. CASE r # q
            <4>1. PICK x, y : call'[r] = [call[r] EXCEPT !.remade = x, !.old = y]
                BY <2>2, <3>2 DEF MakeMap
            <4>2. QED
                BY <2>1, <4>1
        <3>3. QED
            BY <3>1, <3>2
    <2>3. ASSUME BeginStore(q) PROVE FALSE
        <3>1. CASE r = q
            <4>1. PICK y : call'[r] = [call[r] EXCEPT !.at = "store", !.raced = y]
                BY <2>3, <3>1 DEF BeginStore
            <4>2. QED
                BY <2>1, <4>1
        <3>2. CASE r # q
            <4>1. PICK y : call'[r] = [call[r] EXCEPT !.raced = y]
                BY <2>3, <3>2 DEF BeginStore
            <4>2. QED
                BY <2>1, <4>1
        <3>3. QED
            BY <3>1, <3>2
    <2>4. QED
        BY <2>2, <2>3
<1>11. ~ ParseFile(q)
    <2>1. Returned("panic").result = "panic"
        BY DEF Returned, NoCall
    <2>2. ASSUME ParseFile(q) PROVE FALSE
        <3>1. call' = [call EXCEPT ![q] = Returned("panic")]
            BY <2>2 DEF ParseFile, Becomes
        <3>2. call'[r] = call[r] \/ call'[r] = Returned("panic")
            BY <1>1, <3>1
        <3>3. QED
            BY <1>1, <2>1, <3>2
    <2>3. QED
        BY <2>2
<1>12. ~ Store(q)
    <2>1. ASSUME Store(q) PROVE call'[r].result = "none"
        BY <1>1, <2>1 DEF Store, Becomes, Calling
    <2>2. QED
        BY <2>1
<1>13. LookUp(q)
    BY <1>9, <1>10, <1>11, <1>12 DEF Render
<1>14. q = r
    BY <1>1, <1>2, <1>13 DEF LookUp, Becomes
<1>15. QED
    BY <1>13, <1>14

LEMMA DevModeStays ==
    ASSUME RendererInv, [Next]_vars
    PROVE  UNCHANGED devMode
<1>1. CASE Rendering
    BY <1>1, RenderKeeps DEF Rendering, Start, Edit
<1>2. CASE Crash \/ Administer \/ UNCHANGED vars
    BY <1>2 DEF Crash, Fatal, Administer, vars, renderer
<1>3. ASSUME NEW r \in Slots, NEW hx \in BOOLEAN, Get(r, hx)
      PROVE  UNCHANGED devMode
    BY <1>3 DEF Get, HandleError, Steps, Renders, Ends, renderer
<1>4. ASSUME NEW r \in Slots, Follow(r) \/ UnitDashboard(r) \/ NewLayoutData(r)
      PROVE  UNCHANGED devMode
    BY <1>4 DEF Follow, UnitDashboard, NewLayoutData, HandleError, Steps, Renders, Ends, renderer
<1>5. ASSUME NEW r \in Slots, Home(r) \/ ReadFails(r) \/ Rendered(r)
      PROVE  UNCHANGED devMode
    BY <1>5 DEF Home, ReadFails, Rendered, HandleError, Renders, Ends
<1>6. QED
    BY <1>1, <1>2, <1>3, <1>4, <1>5 DEF Next

\* A member gets a page that does not render for want of its template only in
\* dev mode, and only because of another request's parsing; in production no
\* request panics and no access to the map is a race (Renderer.Page).
THEOREM MissingPages == Spec => MissingPageHasACause
<1> DEFINE Cause ==
        \A r \in Slots :
            /\ LookingUp(r) /\ call'[r].result = "missing"
               => devMode /\ (call[r].remade \/ OthersStore(r) \/ torn)
            /\ call'[r].result = "panic" \/ Race' => devMode
<1>1. PagesInv /\ PagesInv' /\ [Next]_vars => [Cause]_renderer
    <2> SUFFICES ASSUME PagesInv, PagesInv', [Next]_vars, NEW r \in Slots
                 PROVE  /\ LookingUp(r) /\ call'[r].result = "missing"
                           => devMode /\ (call[r].remade \/ OthersStore(r) \/ torn)
                        /\ call'[r].result = "panic" \/ Race' => devMode
        OBVIOUS
    <2>1. devMode' = devMode
        BY DevModeStays DEF PagesInv
    <2>2. LookingUp(r) /\ call'[r].result = "missing"
          => devMode /\ (call[r].remade \/ OthersStore(r) \/ torn)
        BY OnlyLookUpMisses, Misses DEF PagesInv
    <2>3. call'[r].result = "panic" => devMode'
        BY DEF PagesInv, RendererInv, CallInv
    <2>4. (RendererInv /\ Race => devMode)'
        BY RacesNeedDevMode, PTL
    <2>5. QED
        BY <2>1, <2>2, <2>3, <2>4 DEF PagesInv
<1>2. QED
    BY <1>1, PagesInvariance, PTL DEF Spec, MissingPageHasACause


\* A failed read leaves its mark on the answer, or on the toast it waits for.
LEMMA FailedReadsShow ==
    ASSUME PagesInv, NEW r \in Slots, ReadFails(r)
    PROVE  ReadHasFailed(r)'
<1>1. page \in [Slots -> Paging]
    BY DEF PagesInv
<1>2. PICK d : d = [page[r] EXCEPT !.failed = TRUE]
    OBVIOUS
<1>3. PICK yes \in BOOLEAN : yes /\ d = [page[r] EXCEPT !.failed = yes]
    BY <1>2
<1>4. d \in Paging
    <2>1. PICK c \in Paging : c = page[r]
        BY <1>1
    <2>2. d = [at |-> c.at, slug |-> c.slug, hx |-> c.hx, status |-> c.status, sent |-> c.sent,
               expect |-> c.expect, shown |-> c.shown, panicked |-> c.panicked, failed |-> yes]
        BY <1>3, <2>1 DEF Paging
    <2>3. QED
        BY <2>2 DEF Paging
<1>5. d.failed
    BY <1>1, <1>3 DEF Paging
<1>6. PICK code \in {404, 500} : HandleError(r, d, code)
    <2>1. HandleError(r, d, 404) \/ HandleError(r, d, 500)
        BY <1>2, Zenon DEF ReadFails
    <2>2. QED
        BY <2>1
<1>7. CASE d.hx
    <2>1. PICK toast \in Paging :
                 /\ Renders(r, toast, Component)
                 /\ toast.at = "toast" /\ toast.hx /\ toast.expect = None
                 /\ toast.status = code /\ toast.sent = code
                 /\ toast.failed = d.failed
        BY <1>4, <1>6, <1>7, ToastsRender
    <2>2. page'[r] = toast
        BY <1>1, <2>1 DEF Renders
    <2>3. QED
        BY <1>5, <2>1, <2>2 DEF ReadHasFailed
<1>8. CASE ~ d.hx
    <2>1. log' = WriteHeader(d, code)
        BY <1>6, <1>8 DEF HandleError, Ends
    <2>2. code \in Codes \ {0}
        BY DEF Codes
    <2>3. log'.failed = d.failed
        BY <1>4, <2>1, <2>2, Headers
    <2>4. QED
        BY <1>5, <2>3 DEF ReadHasFailed
<1>9. QED
    BY <1>7, <1>8

\* Whoever follows Home's redirect gets the unit that it named: a 404 without
\* an error of the database means that the unit has been deleted meanwhile
\* (Home, UnitDashboard, GetUnitBySlug; the slug of a unit never changes).
THEOREM Redirects == Spec => RedirectsLead
<1> DEFINE Lead ==
        \A r \in Slots :
          LET named == page[r].expect
          IN  page[r].at = "unit" /\ named # None /\ page'[r].at # "unit" /\ up'
              => \/ page'[r].at = "layout" /\ page'[r].shown = named
                 \/ units[named] = None
                 \/ ReadHasFailed(r)'
<1>1. PagesInv /\ [Next]_vars => [Lead]_vars
    <2> SUFFICES ASSUME PagesInv, [Next]_vars, NEW r \in Slots, page[r].at = "unit",
                        page[r].expect # None, page'[r].at # "unit", up',
                        ~ ReadHasFailed(r)'
                 PROVE  \/ page'[r].at = "layout" /\ page'[r].shown = page[r].expect
                        \/ units[page[r].expect] = None
        OBVIOUS
    <2>1. /\ page \in [Slots -> Paging] /\ page[r] \in Paging /\ Underway(page[r])
          /\ call[r].at = "idle"
        BY DEF PagesInv, PageInv
    <2>2. page' # page /\ page'[r] # page[r]
        OBVIOUS
    <2>3. ASSUME NEW q \in Slots, NEW next,
                 page' = [page EXCEPT ![q] = next]
          PROVE  q = r
        BY <2>1, <2>2, <2>3
    <2>4. ASSUME NEW q \in Slots, NEW next, Steps(q, next) PROVE q = r
        BY <2>3, <2>4 DEF Steps
    <2>5. ASSUME NEW q \in Slots, NEW next,
                 Ends(q, next) \/ \E name \in {HomePage, UnitPage, Component} : Renders(q, next, name)
          PROVE  q = r
        <3>1. PICK new : page' = [page EXCEPT ![q] = new]
            BY <2>5 DEF Ends, Renders
        <3>2. QED
            BY <2>3, <3>1
    <2>6. ASSUME NEW q \in Slots, NEW c, NEW code, HandleError(q, c, code) PROVE q = r
        BY <2>5, <2>6 DEF HandleError
    <2>7. ~ Administer /\ ~ Rendering /\ ~ UNCHANGED vars
        BY <2>2 DEF Administer, Rendering, vars
    <2>8. ~ Crash
        BY DEF Crash, Fatal
    <2>9. ASSUME NEW q \in Slots, NEW hx \in BOOLEAN, Get(q, hx) PROVE FALSE
        <3>1. q = r
            BY <2>4, <2>6, <2>9 DEF Get
        <3>2. QED
            BY <2>9, <3>1 DEF Get
    <2>10. ASSUME NEW q \in Slots, Follow(q) \/ NewLayoutData(q) PROVE FALSE
        <3>1. q = r
            BY <2>4, <2>5, <2>10 DEF Follow, NewLayoutData
        <3>2. QED
            BY <2>10, <3>1 DEF Follow, NewLayoutData
    <2>11. ASSUME NEW q \in Slots, Home(q) \/ Rendered(q) PROVE FALSE
        <3>1. q = r
            <4>1. CASE Home(q)
                BY <2>5, <4>1 DEF Home
            <4>2. CASE Rendered(q)
                <5>1. PICK answered : Ends(q, answered)
                    BY <4>2 DEF Rendered
                <5>2. QED
                    BY <2>5, <5>1
            <4>3. QED
                BY <2>11, <4>1, <4>2
        <3>2. QED
            BY <2>1, <2>11, <3>1 DEF Home, Rendered, Done
    <2>12. ASSUME NEW q \in Slots, ReadFails(q) PROVE FALSE
        <3>1. q = r
            BY <2>6, <2>12 DEF ReadFails
        <3>2. QED
            BY <2>12, <3>1, FailedReadsShow
    <2>13. PICK q \in Slots : UnitDashboard(q)
        BY <2>7, <2>8, <2>9, <2>10, <2>11, <2>12 DEF Next
    <2>14. q = r
        <3>1. HandleError(q, page[q], 404) \/ \E next : Steps(q, next)
            BY <2>13 DEF UnitDashboard
        <3>2. QED
            BY <2>4, <2>6, <3>1
    <2>15. ASSUME units[page[r].expect] # None
           PROVE  Registry!GetUnitBySlug(page[r].slug) = {page[r].expect}
        <3>1. page[r].expect \in Registry!Live /\ units[page[r].expect].slug = page[r].slug
            BY <2>1, <2>15 DEF Underway, Paging, Registry!Live
        <3>2. QED
            BY <3>1 DEF PagesInv, UnitsInv, Registry!GetUnitBySlug
    <2>16. SUFFICES ASSUME units[page[r].expect] # None
                    PROVE  page'[r].at = "layout" /\ page'[r].shown = page[r].expect
        OBVIOUS
    <2>17. Steps(r, [page[r] EXCEPT !.at = "layout", !.shown = page[r].expect])
        BY <2>13, <2>14, <2>15, <2>16 DEF UnitDashboard
    <2>18. QED
        BY <2>1, <2>17 DEF Steps, Paging
<1>2. QED
    BY <1>1, PagesInvariance, PTL DEF Spec, RedirectsLead

=============================================================================
