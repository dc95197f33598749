--------------------------- MODULE UnitAdminProofs ---------------------------
(***************************************************************************)
(* What UnitAdmin guarantees for any number of requests, pages, units and  *)
(* forms; above all that it implements UnitRegistry.                       *)
(***************************************************************************)
EXTENDS UnitAdmin, SequenceTheorems, FiniteSetTheorems, WellFoundedInduction, TLAPS

-----------------------------------------------------------------------------
(* Induction over the natural numbers, for sets *)

Less == {pair \in Nat \X Nat : pair[1] < pair[2]}

\* The library's well-founded relation on Nat, written as a set of pairs.
LEMMA LessIsWellFounded == IsWellFoundedOn(Less, Nat)
<1>1. OpToRel(<, Nat) = Less
    BY Zenon DEF OpToRel, Less
<1>2. QED
    BY <1>1, NatLessThanWellFounded, Zenon

\* A set of naturals that holds 0 and is closed under successor is Nat.
LEMMA NaturalInduction ==
    ASSUME NEW P \in SUBSET Nat, 0 \in P, \A n \in P : n + 1 \in P
    PROVE  P = Nat
<1>1. SUFFICES ASSUME Nat \ P # {} PROVE FALSE
    OBVIOUS
<1>2. PICK x \in Nat \ P : \A y \in Nat \ P : ~ (<<y, x>> \in Less)
    <2>1. Nat \ P \in SUBSET Nat
        OBVIOUS
    <2>2. QED
        BY <1>1, <2>1, LessIsWellFounded, WFMin, Zenon
<1>3. x # 0 /\ x - 1 \in Nat
    BY <1>2
<1>4. <<x - 1, x>> \in Less
    BY <1>2, <1>3 DEF Less
<1>5. x - 1 \in P
    BY <1>2, <1>3, <1>4
<1>6. (x - 1) + 1 \in P
    BY <1>5
<1>7. QED
    BY <1>2, <1>6

-----------------------------------------------------------------------------
(* parseGroupBindings keeps every group once *)

LEMMA RangeOfAppend ==
    ASSUME NEW S, NEW s \in Seq(S), NEW e \in S
    PROVE  /\ Range(Append(s, e)) = Range(s) \cup {e}
           /\ IsInjective(s) /\ e \notin Range(s) => IsInjective(Append(s, e))
<1> DEFINE t == Append(s, e)
           n == Len(s)
<1>1. /\ n \in Nat /\ DOMAIN s = 1 .. n /\ DOMAIN t = 1 .. n + 1
      /\ \A i \in 1 .. n : t[i] = s[i]
      /\ t[n + 1] = e
    BY AppendProperties, LenProperties
<1> HIDE DEF t, n
<1>2. Range(t) = Range(s) \cup {e}
    <2>1. \A i \in 1 .. n + 1 : t[i] \in Range(s) \cup {e}
        BY <1>1 DEF Range
    <2>2. Range(s) \subseteq Range(t)
        BY <1>1 DEF Range
    <2>3. e \in Range(t)
        BY <1>1 DEF Range
    <2>4. QED
        BY <1>1, <2>1, <2>2, <2>3 DEF Range
<1>3. ASSUME IsInjective(s), e \notin Range(s) PROVE IsInjective(t)
    <2>1. \A i \in 1 .. n : s[i] # e
        BY <1>1, <1>3 DEF Range
    <2>2. ASSUME NEW i \in 1 .. n + 1, NEW j \in 1 .. n + 1, t[i] = t[j] PROVE i = j
        BY <1>1, <1>3, <2>1, <2>2 DEF IsInjective
    <2>3. QED
        BY <1>1, <2>2 DEF IsInjective
<1>4. QED
    BY <1>2, <1>3 DEF t

\* The equation of the loop in parseGroupBindings, as a predicate on a table
\* of its results up to position n.
IsLoop(raw, n, f) ==
    f = [i \in 0 .. n |->
            IF i = 0 THEN <<>>
            ELSE IF raw[i] = Blank \/ raw[i] \in Range(f[i - 1]) THEN f[i - 1]
            ELSE Append(f[i - 1], raw[i])]

LEMMA LoopStep ==
    ASSUME NEW raw, NEW n \in Nat, NEW f, IsLoop(raw, n, f)
    PROVE  /\ f[0] = <<>>
           /\ \A i \in 0 .. n - 1 :
                f[i + 1] = IF raw[i + 1] = Blank \/ raw[i + 1] \in Range(f[i]) THEN f[i]
                           ELSE Append(f[i], raw[i + 1])
<1>1. \A i \in 0 .. n :
         f[i] = IF i = 0 THEN <<>>
                ELSE IF raw[i] = Blank \/ raw[i] \in Range(f[i - 1]) THEN f[i - 1]
                ELSE Append(f[i - 1], raw[i])
    BY DEF IsLoop
<1>2. ASSUME NEW i \in 0 .. n - 1
      PROVE  f[i + 1] = IF raw[i + 1] = Blank \/ raw[i + 1] \in Range(f[i]) THEN f[i]
                        ELSE Append(f[i], raw[i + 1])
    <2>1. i + 1 \in 0 .. n /\ i + 1 # 0 /\ (i + 1) - 1 = i
        OBVIOUS
    <2>2. QED
        BY <1>1, <2>1
<1>3. QED
    BY <1>1, <1>2

\* The recursive function inside parseGroupBindings exists.
LEMMA LoopExists ==
    ASSUME NEW raw, NEW n \in Nat
    PROVE  \E f : IsLoop(raw, n, f)
<1> DEFINE P == {m \in Nat : \E f : IsLoop(raw, m, f)}
<1>1. 0 \in P
    <2> DEFINE f == [i \in 0 .. 0 |-> <<>>]
    <2>1. IsLoop(raw, 0, f)
        BY DEF IsLoop
    <2>2. QED
        BY <2>1
<1>2. ASSUME NEW m \in P PROVE m + 1 \in P
    <2>1. PICK f : IsLoop(raw, m, f)
        OBVIOUS
    <2> DEFINE last == IF raw[m + 1] = Blank \/ raw[m + 1] \in Range(f[m]) THEN f[m]
                       ELSE Append(f[m], raw[m + 1])
               g == [i \in 0 .. m + 1 |-> IF i = m + 1 THEN last ELSE f[i]]
    <2>2. \A i \in 0 .. m :
            f[i] = IF i = 0 THEN <<>>
                   ELSE IF raw[i] = Blank \/ raw[i] \in Range(f[i - 1]) THEN f[i - 1]
                   ELSE Append(f[i - 1], raw[i])
        BY <2>1 DEF IsLoop
    <2>3. ASSUME NEW i \in 0 .. m + 1
          PROVE  g[i] = IF i = 0 THEN <<>>
                        ELSE IF raw[i] = Blank \/ raw[i] \in Range(g[i - 1]) THEN g[i - 1]
                        ELSE Append(g[i - 1], raw[i])
        <3>1. CASE i = m + 1
            <4>1. i # 0 /\ i - 1 = m /\ g[i - 1] = f[m] /\ g[i] = last
                BY <3>1
            <4>2. QED
                BY <3>1, <4>1
        <3>2. CASE i # m + 1
            <4>1. i \in 0 .. m /\ g[i] = f[i] /\ (i # 0 => g[i - 1] = f[i - 1])
                BY <3>2
            <4> HIDE DEF g
            <4>2. QED
                BY <2>2, <4>1
        <3>3. QED
            BY <3>1, <3>2
    <2>4. IsLoop(raw, m + 1, g)
        BY <2>3 DEF IsLoop
    <2>5. QED
        BY <2>4
<1>3. P = Nat
    <2> HIDE DEF P
    <2>1. QED
        BY <1>1, <1>2, NaturalInduction DEF P
<1>4. QED
    BY <1>3

\* Up to position i: the groups of the raw list, each once.
Kept(raw, i) == {raw[j] : j \in 1 .. i} \ {Blank}

LEMMA LoopKeeps ==
    ASSUME NEW raw \in Seq(Groups \cup {Blank}), NEW f, IsLoop(raw, Len(raw), f)
    PROVE  /\ f[Len(raw)] \in Seq(Groups) /\ IsInjective(f[Len(raw)])
           /\ Range(f[Len(raw)]) = Kept(raw, Len(raw))
<1> DEFINE n == Len(raw)
           Good(i) == f[i] \in Seq(Groups) /\ IsInjective(f[i]) /\ Range(f[i]) = Kept(raw, i)
           P == {i \in Nat : i <= n => Good(i)}
<1>1. n \in Nat /\ \A i \in 1 .. n : raw[i] \in Groups \cup {Blank}
    BY LenProperties, ElementOfSeq
<1>2. 0 \in P
    <2>1. f[0] = <<>>
        BY <1>1, LoopStep
    <2>2. <<>> \in Seq(Groups) /\ DOMAIN <<>> = {}
        BY EmptySeq
    <2>3. IsInjective(<<>>) /\ Range(<<>>) = {} /\ Kept(raw, 0) = {}
        BY <2>2 DEF IsInjective, Range, Kept
    <2>4. QED
        BY <2>1, <2>2, <2>3
<1>3. ASSUME NEW i \in P PROVE i + 1 \in P
    <2>1. SUFFICES ASSUME i + 1 <= n PROVE Good(i + 1)
        OBVIOUS
    <2>2. Good(i) /\ i \in 0 .. n - 1 /\ i + 1 \in 1 .. n
        BY <1>1, <2>1
    <2> DEFINE e == raw[i + 1]
    <2>3. f[i + 1] = IF e = Blank \/ e \in Range(f[i]) THEN f[i] ELSE Append(f[i], e)
        BY <1>1, <2>2, LoopStep
    <2>4. Kept(raw, i + 1) = Kept(raw, i) \cup ({e} \ {Blank})
        <3>1. 1 .. i + 1 = (1 .. i) \cup {i + 1}
            BY <2>2
        <3>2. QED
            BY <3>1 DEF Kept
    <2>5. e \in Groups \cup {Blank}
        BY <1>1, <2>2
    <2> HIDE DEF e
    <2>6. CASE e = Blank \/ e \in Range(f[i])
        BY <2>2, <2>3, <2>4, <2>6
    <2>7. CASE ~ (e = Blank \/ e \in Range(f[i]))
        <3>1. e \in Groups /\ e \notin Range(f[i]) /\ f[i + 1] = Append(f[i], e)
            BY <2>3, <2>5, <2>7
        <3>2. f[i + 1] \in Seq(Groups)
            BY <2>2, <3>1
        <3>3. Range(f[i + 1]) = Range(f[i]) \cup {e} /\ IsInjective(f[i + 1])
            BY <2>2, <3>1, RangeOfAppend
        <3>4. Kept(raw, i + 1) = Range(f[i + 1])
            BY <2>2, <2>4, <2>7, <3>3
        <3>5. QED
            BY <3>2, <3>3, <3>4
    <2>8. QED
        BY <2>6, <2>7
<1>4. P = Nat
    <2> HIDE DEF P
    <2>1. QED
        BY <1>2, <1>3, NaturalInduction DEF P
<1>5. QED
    BY <1>1, <1>4

\* What parseGroupBindings returns for every list of parts.
LEMMA ParseGroupBindings ==
    ASSUME NEW raw \in Seq(Groups \cup {Blank})
    PROVE  /\ parseGroupBindings(raw) \in Seq(Groups)
           /\ IsInjective(parseGroupBindings(raw))
           /\ Range(parseGroupBindings(raw)) = Range(raw) \ {Blank}
<1> DEFINE f == CHOOSE g : IsLoop(raw, Len(raw), g)
<1>1. Len(raw) \in Nat /\ DOMAIN raw = 1 .. Len(raw)
    BY LenProperties
<1>2. IsLoop(raw, Len(raw), f)
    BY <1>1, LoopExists
<1>3. parseGroupBindings(raw) = f[Len(raw)]
    BY DEF parseGroupBindings, IsLoop
<1>4. Kept(raw, Len(raw)) = Range(raw) \ {Blank}
    BY <1>1 DEF Kept, Range
<1> HIDE DEF f
<1>5. QED
    BY <1>2, <1>3, <1>4, LoopKeeps

-----------------------------------------------------------------------------
(* The inductive invariant *)

\* The requests that will still take an id from the sequence.
Pending == {r \in Slots : req[r].op = "create" /\ ~ InTx(r)}

Requesting ==
    [at : {"idle", "check", "insert", "existing", "update", "clear", "bind", "remove"},
     op : {"none", "create", "update", "delete"}, id : Nat, form : Forms \cup {None},
     groups : Seq(Groups), bound : Nat, gone : SUBSET Groups, raced : BOOLEAN,
     answer : {0, 200, 303, 404, 500}, cause : {"none", "conflict", "fault"}]

\* A request runs the statements of its operation, with the groups of its form.
SlotTypes(r) ==
    LET c == req[r]
    IN  /\ c.at = "idle" => c.op = "none"
        /\ c.at \in {"check", "insert"} => c.op = "create"
        /\ c.at \in {"existing", "update", "clear"} => c.op = "update"
        /\ c.at = "bind" => c.op \in {"create", "update"}
        /\ c.at = "remove" => c.op = "delete"
        /\ c.op \in {"create", "update"} =>
            c.form \in Forms /\ c.groups = parseGroupBindings(c.form.parts)
        /\ c.at \in {"existing", "update", "clear", "bind", "remove"} => c.id \in Ids
        /\ c.bound <= Len(c.groups)
        /\ c.at # "bind" => c.bound = 0 /\ c.gone = {}

Numbering ==
    /\ lastId \in Nat
    /\ lastId + Cardinality(Pending) <= MaxUnits

Tables ==
    /\ units \in [Ids -> Rows \cup {None}]
    /\ unit_group_bindings \subseteq Ids \X Groups
    /\ born \subseteq 1 .. lastId
    /\ \A id \in Ids : Exists(id) => id \in born
    /\ \A id \in Ids : BoundTo(id) # {} => Exists(id)

\* A unit's bindings are those of one form.
BindingsAreWhole ==
    \A id \in Ids :
        Exists(id) => BoundTo(id) \in {content.groups : content \in FormContents}

SlugsDiffer ==
    \A id, other \in Ids :
        Exists(id) /\ Exists(other) /\ units[id].slug = units[other].slug => id = other

\* What the open transaction of r may rely on because of its locks, and what
\* it has seen: the unit that it updates exists with the bindings that it has
\* cleared; nobody has the id or the slug of the one that it creates.
Holds(r) ==
    LET c == req[r]
    IN  /\ InTx(r) /\ c.op = "update" => Exists(c.id)
        /\ c.at = "bind" /\ c.op = "update" => c.gone = BoundTo(c.id)
        /\ InTx(r) /\ c.op = "create" =>
            c.id <= lastId /\ c.id \notin born /\ c.gone = {} /\ ~ SlugTaken(c.form.slug)

\* Open transactions of one kind are about different units and slugs.
Apart(r, q) ==
    InTx(r) /\ InTx(q) /\ req[r].op = req[q].op =>
        /\ req[r].id # req[q].id
        /\ req[r].op = "create" => req[r].form.slug # req[q].form.slug

\* A request that its next statement will refuse has lost a race.
Remembers(r) ==
    /\ req[r].at = "insert" /\ SlugTaken(req[r].form.slug) => req[r].raced
    /\ req[r].at = "update" /\ ~ Exists(req[r].id) => req[r].raced

\* A page lists units that have been committed.
Listed(d) ==
    /\ page[d].todo \subseteq born
    /\ \A item \in page[d].shown :
        /\ item.id \in born /\ item.groups \subseteq Groups
        /\ \/ item.groups \in {content.groups : content \in FormContents}
           \/ item.groups = {} /\ ~ Exists(item.id)

PageTypes ==
    page \in [Readers -> [todo : SUBSET Ids, shown : SUBSET [id : Ids, groups : SUBSET Groups]]]

RegistryInv ==
    /\ Tables /\ BindingsAreWhole /\ SlugsDiffer
    /\ PageTypes /\ \A d \in Readers : Listed(d)

SlotsInv ==
    /\ req \in [Slots -> Requesting] /\ \A r \in Slots : SlotTypes(r)
    /\ Numbering
    /\ \A r \in Slots : Holds(r) /\ Remembers(r)
    /\ \A r, q \in Slots : r # q => Apart(r, q)

UnitInv == RegistryInv /\ SlotsInv

-----------------------------------------------------------------------------
(* Forms and records *)

LEMMA FormTypesOf ==
    ASSUME NEW form \in Forms
    PROVE  /\ form.slug \in Slugs /\ form.info \in Infos /\ form.named \in BOOLEAN
           /\ form.parts \in Seq(Groups \cup {Blank})
           /\ form # None
BY UnitAssumption DEF FormTypes, Infos

\* The groups that a request inserts are those its form names.
LEMMA GroupsOf ==
    ASSUME NEW form \in Forms
    PROVE  /\ parseGroupBindings(form.parts) \in Seq(Groups)
           /\ IsInjective(parseGroupBindings(form.parts))
           /\ Range(parseGroupBindings(form.parts)) \in {content.groups : content \in FormContents}
           /\ [slug |-> form.slug, info |-> form.info,
               groups |-> Range(parseGroupBindings(form.parts))] \in FormContents
<1> DEFINE content == [slug |-> form.slug, info |-> form.info,
                       groups |-> Range(form.parts) \ {Blank}]
<1>1. content \in FormContents
    BY DEF FormContents
<1>2. content.groups \in {c.groups : c \in FormContents}
    BY <1>1
<1>3. QED
    BY <1>1, <1>2, FormTypesOf, ParseGroupBindings

Answers ==
    {Answered(answer, cause) :
        answer \in {0, 200, 303, 404, 500}, cause \in {"none", "conflict", "fault"}}

LEMMA ConflictAnswers == \E ended \in Answers : ended = Answered(500, "conflict")
BY DEF Answers

LEMMA PlainAnswers ==
    ASSUME NEW answer \in {404, 200}
    PROVE  \E ended \in Answers : ended = Answered(answer, "none")
<1>1. CASE answer = 404
    BY <1>1 DEF Answers
<1>2. CASE answer = 200
    BY <1>2 DEF Answers
<1>3. QED
    BY <1>1, <1>2

LEMMA AnswersType ==
    ASSUME NEW next \in Answers
    PROVE  /\ next \in Requesting /\ next.at = "idle" /\ next.op = "none" /\ next.bound = 0
           /\ next.gone = {} /\ next.groups = <<>>
<1>1. PICK answer \in {0, 200, 303, 404, 500}, cause \in {"none", "conflict", "fault"} :
        next = Answered(answer, cause)
    BY DEF Answers
<1>2. QED
    BY <1>1, EmptySeq DEF Answered, Requesting

LEMMA StartedType ==
    ASSUME NEW form \in Forms, NEW id \in Nat,
           NEW op \in {"create", "update"}, NEW at \in {"check", "existing"}
    PROVE  Started(op, id, form, at) \in Requesting
<1>1. form # None /\ parseGroupBindings(form.parts) \in Seq(Groups)
    BY FormTypesOf, GroupsOf
<1>2. QED
    BY <1>1 DEF Started, Requesting

LEMMA RemovalType ==
    ASSUME NEW id \in Ids
    PROVE  Started("delete", id, None, "remove") \in Requesting
BY EmptySeq, UnitAssumption DEF Started, Requesting, Ids

\* The steps inside a transaction change one or two fields.
LEMMA ClearedType ==
    ASSUME NEW c \in Requesting, NEW gone \in SUBSET Groups
    PROVE  \E next \in Requesting :
            /\ next = [c EXCEPT !.at = "bind", !.gone = gone]
            /\ next.at = "bind" /\ next.op = c.op /\ next.id = c.id /\ next.form = c.form
            /\ next.groups = c.groups /\ next.bound = c.bound /\ next.gone = gone
            /\ next.cause = c.cause
<1> DEFINE next == [at |-> "bind", op |-> c.op, id |-> c.id, form |-> c.form,
                    groups |-> c.groups, bound |-> c.bound, gone |-> gone, raced |-> c.raced,
                    answer |-> c.answer, cause |-> c.cause]
<1>1. next \in Requesting
    BY DEF Requesting
<1>2. next = [c EXCEPT !.at = "bind", !.gone = gone]
    <2> DEFINE bind == [at |-> "bind", op |-> c.op, id |-> c.id, form |-> c.form,
                        groups |-> c.groups, bound |-> c.bound, gone |-> c.gone,
                        raced |-> c.raced, answer |-> c.answer, cause |-> c.cause]
    <2>1. [c EXCEPT !.at = "bind"] = bind
        BY DEF Requesting
    <2>2. [bind EXCEPT !.gone = gone] = next
        OBVIOUS
    <2> HIDE DEF bind, next
    <2>3. QED
        BY <2>1, <2>2
<1>3. /\ next.at = "bind" /\ next.op = c.op /\ next.id = c.id /\ next.form = c.form
      /\ next.groups = c.groups /\ next.bound = c.bound /\ next.gone = gone
      /\ next.cause = c.cause
    OBVIOUS
<1> HIDE DEF next
<1>4. QED
    BY <1>1, <1>2, <1>3

LEMMA InsertedType ==
    ASSUME NEW c \in Requesting, NEW next, next = [c EXCEPT !.bound = c.bound + 1]
    PROVE  /\ next \in Requesting
           /\ next.at = c.at /\ next.op = c.op /\ next.id = c.id /\ next.form = c.form
           /\ next.groups = c.groups /\ next.bound = c.bound + 1 /\ next.gone = c.gone
BY DEF Requesting

LEMMA PendingIsFinite ==
    /\ IsFiniteSet(Pending) /\ Cardinality(Pending) \in Nat
    /\ IsFiniteSet(Pending') /\ Cardinality(Pending') \in Nat
<1>1. Pending \subseteq Slots /\ Pending' \subseteq Slots
    BY DEF Pending
<1>2. QED
    BY <1>1, UnitAssumption, FS_Subset, FS_CardinalityType

\* Requests that end, or take their id, need no more ids than before.
LEMMA NumbersLast ==
    ASSUME UnitInv, lastId' = lastId, Pending' \subseteq Pending
    PROVE  Numbering'
<1>1. Cardinality(Pending') <= Cardinality(Pending)
    BY PendingIsFinite, FS_Subset
<1>2. QED
    BY <1>1, PendingIsFinite, UnitAssumption DEF UnitInv, SlotsInv, Numbering

LEMMA NumbersSuffice == ASSUME UnitInv PROVE lastId \in 0 .. MaxUnits /\ born \subseteq Ids
<1>1. lastId \in 0 .. MaxUnits
    BY PendingIsFinite, UnitAssumption DEF UnitInv, SlotsInv, Numbering
<1>2. QED
    BY <1>1, UnitAssumption DEF UnitInv, RegistryInv, Tables, Ids

-----------------------------------------------------------------------------
(* A step of one request that leaves the tables alone *)

LEMMA OneSlot ==
    ASSUME UnitInv, NEW r \in Slots, NEW next \in Requesting, req' = [req EXCEPT ![r] = next],
           UNCHANGED <<units, unit_group_bindings, page, born>>,
           lastId' \in Nat, lastId' >= lastId, Numbering',
           SlotTypes(r)', Holds(r)', Remembers(r)', \A q \in Slots \ {r} : Apart(r, q)'
    PROVE  UnitInv'
<1>1. req' \in [Slots -> Requesting] /\ \A q \in Slots \ {r} : req'[q] = req[q]
    BY DEF UnitInv, SlotsInv
<1>2. RegistryInv'
    <2>1. Tables'
        <3>1. lastId \in Nat /\ born \subseteq 1 .. lastId
            BY DEF UnitInv, RegistryInv, Tables, SlotsInv, Numbering
        <3>2. born' \subseteq 1 .. lastId'
            BY <3>1
        <3>3. QED
            BY <3>2 DEF UnitInv, RegistryInv, Tables, Exists, BoundTo
    <2>2. BindingsAreWhole' /\ SlugsDiffer'
        BY DEF UnitInv, RegistryInv, BindingsAreWhole, SlugsDiffer, Exists, BoundTo
    <2>3. PageTypes' /\ \A d \in Readers : Listed(d)'
        BY DEF UnitInv, RegistryInv, PageTypes, Listed, Exists
    <2>4. QED
        BY <2>1, <2>2, <2>3 DEF RegistryInv
<1>3. ASSUME NEW q \in Slots \ {r}
      PROVE  SlotTypes(q)' /\ Holds(q)' /\ Remembers(q)'
    <2>1. SlotTypes(q) /\ Holds(q) /\ Remembers(q) /\ req[q] \in Requesting
        BY DEF UnitInv, SlotsInv
    <2>2. SlotTypes(q)' /\ Remembers(q)'
        BY <1>1, <2>1 DEF SlotTypes, Remembers, SlugTaken, Exists
    <2>3. req[q].id \in Nat /\ lastId \in Nat
        BY <2>1 DEF Requesting, UnitInv, SlotsInv, Numbering
    <2>4. Holds(q)'
        BY <1>1, <2>1, <2>3 DEF Holds, InTx, SlugTaken, Exists, BoundTo
    <2>5. QED
        BY <2>2, <2>4
<1>4. ASSUME NEW p \in Slots, NEW q \in Slots, p # q PROVE Apart(p, q)'
    <2>1. CASE p = r
        BY <1>4, <2>1
    <2>2. CASE q = r
        <3>1. Apart(r, p)'
            BY <1>4, <2>2
        <3>2. QED
            BY <2>2, <3>1 DEF Apart, InTx
    <2>3. CASE p # r /\ q # r
        <3>1. Apart(p, q)
            BY <1>4 DEF UnitInv, SlotsInv
        <3>2. QED
            BY <1>1, <2>3, <3>1 DEF Apart, InTx
    <2>4. QED
        BY <2>1, <2>2, <2>3
<1>5. QED
    BY <1>1, <1>2, <1>3, <1>4 DEF UnitInv, SlotsInv

LEMMA Moving ==
    ASSUME UnitInv, NEW r \in Slots, NEW next \in Requesting, req' = [req EXCEPT ![r] = next],
           UNCHANGED <<tables, page>>, Pending' \subseteq Pending,
           SlotTypes(r)', Holds(r)', Remembers(r)', \A q \in Slots \ {r} : Apart(r, q)'
    PROVE  UnitInv'
<1>1. lastId' = lastId /\ lastId' \in Nat /\ lastId' >= lastId
    BY DEF tables, UnitInv, SlotsInv, Numbering
<1>2. Numbering'
    BY <1>1, NumbersLast
<1>3. UNCHANGED <<units, unit_group_bindings, page, born>>
    BY DEF tables
<1>4. QED
    BY <1>1, <1>2, <1>3, OneSlot

\* A request that ends without a change, one way or the other.
LEMMA Ending ==
    ASSUME UnitInv, NEW r \in Slots, NEW next \in Answers, req' = [req EXCEPT ![r] = next],
           UNCHANGED <<tables, page>>
    PROVE  UnitInv'
<1>1. req'[r] = next /\ \A q \in Slots \ {r} : req'[q] = req[q]
    BY DEF UnitInv, SlotsInv
<1>2. Pending' \subseteq Pending
    BY <1>1, AnswersType DEF Pending, InTx
<1>3. SlotTypes(r)' /\ Holds(r)' /\ Remembers(r)' /\ \A q \in Slots \ {r} : Apart(r, q)'
    BY <1>1, AnswersType, EmptySeq DEF SlotTypes, Holds, Remembers, Apart, InTx
<1>4. QED
    BY <1>2, <1>3, AnswersType, Moving

LEMMA SlotFacts ==
    ASSUME UnitInv, NEW r \in Slots
    PROVE  /\ req[r] \in Requesting /\ SlotTypes(r) /\ Holds(r) /\ Remembers(r)
           /\ \A q \in Slots \ {r} : Apart(r, q)
           /\ \A next : [req EXCEPT ![r] = next][r] = next
           /\ \A next : \A q \in Slots \ {r} : [req EXCEPT ![r] = next][q] = req[q]
BY DEF UnitInv, SlotsInv

LEMMA PostCreateInv ==
    ASSUME UnitInv, NEW r \in Slots, NEW form \in Forms, PostCreate(r, form)
    PROVE  UnitInv'
<1> DEFINE next == Started("create", 0, form, "check")
<1>1. /\ next \in Requesting /\ next.at = "check" /\ next.op = "create" /\ next.bound = 0
      /\ next.form = form /\ next.groups = parseGroupBindings(form.parts) /\ next.gone = {}
    BY StartedType, FormTypesOf DEF Started
<1>2. req' = [req EXCEPT ![r] = next] /\ UNCHANGED <<tables, page>> /\ IdsLeft
    BY DEF PostCreate
<1> HIDE DEF next
<1>3. req'[r] = next /\ \A q \in Slots \ {r} : req'[q] = req[q]
    BY <1>2, SlotFacts
<1>4. parseGroupBindings(form.parts) \in Seq(Groups)
    BY GroupsOf
<1>5. SlotTypes(r)' /\ Holds(r)' /\ Remembers(r)' /\ \A q \in Slots \ {r} : Apart(r, q)'
    BY <1>1, <1>3, <1>4, LenProperties DEF SlotTypes, Holds, Remembers, Apart, InTx
<1>6. Numbering'
    <2>1. Pending' \subseteq Pending \cup {r}
        BY <1>3 DEF Pending, InTx
    <2>2. /\ IsFiniteSet(Pending \cup {r})
          /\ Cardinality(Pending \cup {r}) =
               IF r \in Pending THEN Cardinality(Pending) ELSE Cardinality(Pending) + 1
        BY PendingIsFinite, FS_AddElement
    <2>3. Cardinality(Pending') <= Cardinality(Pending \cup {r})
        BY <2>1, <2>2, FS_Subset
    <2>4. Cardinality(Pending \cup {r}) \in Nat
        BY <2>2, FS_CardinalityType
    <2>5. lastId + Cardinality(Pending) < MaxUnits /\ lastId' = lastId /\ lastId \in Nat
        BY <1>2 DEF IdsLeft, Pending, tables, UnitInv, SlotsInv, Numbering
    <2>6. QED
        BY <2>2, <2>3, <2>4, <2>5, PendingIsFinite, UnitAssumption, SMTT(20) DEF Numbering
<1>7. lastId' \in Nat /\ lastId' >= lastId
    BY <1>2 DEF tables, UnitInv, SlotsInv, Numbering
<1>8. UNCHANGED <<units, unit_group_bindings, page, born>>
    BY <1>2 DEF tables
<1>9. QED
    BY <1>1, <1>2, <1>5, <1>6, <1>7, <1>8, OneSlot

LEMMA PostUpdateInv ==
    ASSUME UnitInv, NEW r \in Slots, NEW id \in Ids, NEW form \in Forms, PostUpdate(r, id, form)
    PROVE  UnitInv'
<1> DEFINE next == Started("update", id, form, "existing")
<1>1. /\ next \in Requesting /\ next.at = "existing" /\ next.op = "update" /\ next.bound = 0
      /\ next.form = form /\ next.groups = parseGroupBindings(form.parts) /\ next.gone = {}
      /\ next.id = id
    <2>1. id \in Nat /\ form # None
        BY FormTypesOf, UnitAssumption DEF Ids
    <2>2. next \in Requesting
        BY <2>1, StartedType
    <2>3. QED
        BY <2>1, <2>2 DEF Started
<1>2. req' = [req EXCEPT ![r] = next] /\ UNCHANGED <<tables, page>>
    BY DEF PostUpdate
<1> HIDE DEF next
<1>3. req'[r] = next /\ \A q \in Slots \ {r} : req'[q] = req[q]
    BY <1>2, SlotFacts
<1>4. parseGroupBindings(form.parts) \in Seq(Groups)
    BY GroupsOf
<1>5. SlotTypes(r)' /\ Holds(r)' /\ Remembers(r)' /\ \A q \in Slots \ {r} : Apart(r, q)'
    BY <1>1, <1>3, <1>4, LenProperties DEF SlotTypes, Holds, Remembers, Apart, InTx
<1>6. Pending' \subseteq Pending
    BY <1>1, <1>3 DEF Pending, InTx
<1>7. QED
    BY <1>1, <1>2, <1>5, <1>6, Moving

LEMMA PostDeleteInv ==
    ASSUME UnitInv, NEW r \in Slots, NEW id \in Ids, PostDelete(r, id)
    PROVE  UnitInv'
<1> DEFINE next == Started("delete", id, None, "remove")
<1>1. /\ next \in Requesting /\ next.at = "remove" /\ next.op = "delete" /\ next.bound = 0
      /\ next.groups = <<>> /\ next.gone = {} /\ next.id = id
    BY RemovalType DEF Started
<1>2. req' = [req EXCEPT ![r] = next] /\ UNCHANGED <<tables, page>>
    BY DEF PostDelete
<1> HIDE DEF next
<1>3. req'[r] = next /\ \A q \in Slots \ {r} : req'[q] = req[q]
    BY <1>2, SlotFacts
<1>4. SlotTypes(r)' /\ Holds(r)' /\ Remembers(r)' /\ \A q \in Slots \ {r} : Apart(r, q)'
    BY <1>1, <1>3, EmptySeq DEF SlotTypes, Holds, Remembers, Apart, InTx
<1>5. Pending' \subseteq Pending
    BY <1>1, <1>3 DEF Pending, InTx
<1>6. QED
    BY <1>1, <1>2, <1>4, <1>5, Moving

LEMMA CheckSlugInv == ASSUME UnitInv, NEW r \in Slots, CheckSlug(r) PROVE UnitInv'
<1> DEFINE next == [req[r] EXCEPT !.at = "insert"]
<1>1. CASE SlugTaken(req[r].form.slug) \/ ~ req[r].form.named
    <2>1. req' = [req EXCEPT ![r] = Answered(200, "none")]
        BY <1>1 DEF CheckSlug
    <2>2. UNCHANGED <<tables, page>>
        BY DEF CheckSlug
    <2>3. Answered(200, "none") \in Answers
        BY DEF Answers
    <2>4. QED
        BY <2>1, <2>2, <2>3, Ending
<1>2. CASE ~ (SlugTaken(req[r].form.slug) \/ ~ req[r].form.named)
    <2>1. req' = [req EXCEPT ![r] = next] /\ UNCHANGED <<tables, page>> /\ req[r].at = "check"
        BY <1>2 DEF CheckSlug
    <2>2. next \in Requesting
        BY SlotFacts DEF Requesting
    <2>3. req'[r] = next /\ \A q \in Slots \ {r} : req'[q] = req[q]
        BY <2>1, SlotFacts
    <2>4. SlotTypes(r)' /\ Holds(r)' /\ \A q \in Slots \ {r} : Apart(r, q)'
        BY <2>1, <2>3, SlotFacts DEF SlotTypes, Holds, Apart, InTx, Requesting
    <2>5. Remembers(r)'
        BY <1>2, <2>1, <2>3, SlotFacts DEF Remembers, SlugTaken, Exists, tables, Requesting
    <2>6. Pending' \subseteq Pending
        BY <2>1, <2>3, SlotFacts DEF Pending, InTx, Requesting
    <2>7. QED
        BY <2>1, <2>2, <2>4, <2>5, <2>6, Moving
<1>3. QED
    BY <1>1, <1>2

LEMMA ReadExistingInv == ASSUME UnitInv, NEW r \in Slots, ReadExisting(r) PROVE UnitInv'
<1> DEFINE next == [req[r] EXCEPT !.at = "update"]
<1>1. UNCHANGED <<tables, page>> /\ req[r].at = "existing"
    BY DEF ReadExisting
<1>2. CASE ~ Exists(req[r].id) \/ ~ req[r].form.named
    <2>1. PICK answer \in {404, 200} : req' = [req EXCEPT ![r] = Answered(answer, "none")]
        <3>1. CASE ~ Exists(req[r].id)
            BY <3>1 DEF ReadExisting
        <3>2. CASE Exists(req[r].id)
            BY <1>2, <3>2 DEF ReadExisting
        <3>3. QED
            BY <3>1, <3>2
    <2>2. PICK ended \in Answers : ended = Answered(answer, "none")
        BY PlainAnswers
    <2>3. QED
        BY <1>1, <2>1, <2>2, Ending
<1>3. CASE ~ (~ Exists(req[r].id) \/ ~ req[r].form.named)
    <2>1. req' = [req EXCEPT ![r] = next]
        BY <1>3 DEF ReadExisting
    <2>2. next \in Requesting
        BY SlotFacts DEF Requesting
    <2>3. req'[r] = next /\ \A q \in Slots \ {r} : req'[q] = req[q]
        BY <2>1, SlotFacts
    <2>4. SlotTypes(r)' /\ Holds(r)' /\ \A q \in Slots \ {r} : Apart(r, q)'
        BY <1>1, <2>3, SlotFacts DEF SlotTypes, Holds, Apart, InTx, Requesting
    <2>5. Remembers(r)'
        BY <1>1, <1>3, <2>3, SlotFacts DEF Remembers, Exists, tables, Requesting
    <2>6. Pending' \subseteq Pending
        BY <1>1, <2>3, SlotFacts DEF Pending, InTx, Requesting
    <2>7. QED
        BY <1>1, <2>1, <2>2, <2>4, <2>5, <2>6, Moving
<1>4. QED
    BY <1>2, <1>3

LEMMA UpdateUnitInv == ASSUME UnitInv, NEW r \in Slots, UpdateUnit(r) PROVE UnitInv'
<1> DEFINE next == [req[r] EXCEPT !.at = "clear"]
<1>1. UNCHANGED <<tables, page>> /\ req[r].at = "update" /\ ~ Locked(req[r].id)
    BY DEF UpdateUnit
<1>2. CASE ~ Exists(req[r].id)
    <2>1. PICK ended \in Answers : ended = Answered(500, "conflict")
        BY ConflictAnswers
    <2>2. req' = [req EXCEPT ![r] = ended]
        BY <1>2, <2>1 DEF UpdateUnit
    <2>3. QED
        BY <1>1, <2>2, Ending
<1>3. CASE Exists(req[r].id)
    <2>1. req' = [req EXCEPT ![r] = next]
        BY <1>3 DEF UpdateUnit
    <2>2. next \in Requesting
        BY SlotFacts DEF Requesting
    <2>3. req'[r] = next /\ \A q \in Slots \ {r} : req'[q] = req[q]
        BY <2>1, SlotFacts
    <2>4. SlotTypes(r)' /\ Remembers(r)'
        BY <1>1, <2>3, SlotFacts DEF SlotTypes, Remembers, Requesting
    <2>5. Holds(r)'
        BY <1>1, <1>3, <2>3, SlotFacts
        DEF SlotTypes, Holds, InTx, Exists, tables, Requesting
    <2>6. \A q \in Slots \ {r} : Apart(r, q)'
        <3>1. \A q \in Slots \ {r} : InTx(q) /\ req[q].op = "update" => req[q].id # req[r].id
            BY <1>1 DEF Locked
        <3>2. next.op = "update" /\ next.id = req[r].id
            BY <1>1, SlotFacts DEF SlotTypes, Requesting
        <3>3. QED
            BY <2>3, <3>1, <3>2 DEF Apart, InTx
    <2>7. Pending' \subseteq Pending
        BY <1>1, <2>3, SlotFacts DEF Pending, InTx, Requesting
    <2>8. QED
        BY <1>1, <2>1, <2>2, <2>4, <2>5, <2>6, <2>7, Moving
<1>4. QED
    BY <1>2, <1>3

LEMMA DeleteUnitGroupBindingsInv ==
    ASSUME UnitInv, NEW r \in Slots, DeleteUnitGroupBindings(r)
    PROVE  UnitInv'
<1>1. UNCHANGED <<tables, page>> /\ req[r].at = "clear"
    BY DEF DeleteUnitGroupBindings
<1>2. PICK gone \in SUBSET Groups : gone = BoundTo(req[r].id)
    BY DEF BoundTo
<1>3. PICK next \in Requesting :
        /\ req' = [req EXCEPT ![r] = next]
        /\ next.at = "bind" /\ next.op = req[r].op /\ next.id = req[r].id
        /\ next.form = req[r].form /\ next.groups = req[r].groups /\ next.bound = req[r].bound
        /\ next.gone = gone
    <2>1. PICK c \in Requesting : c = req[r]
        BY SlotFacts
    <2>2. PICK next \in Requesting :
            /\ next = [c EXCEPT !.at = "bind", !.gone = gone]
            /\ next.at = "bind" /\ next.op = c.op /\ next.id = c.id /\ next.form = c.form
            /\ next.groups = c.groups /\ next.bound = c.bound /\ next.gone = gone
            /\ next.cause = c.cause
        BY <1>2, ClearedType
    <2>3. req' = [req EXCEPT ![r] = next]
        BY <1>2, <2>1, <2>2 DEF DeleteUnitGroupBindings
    <2>4. QED
        BY <2>1, <2>2, <2>3
<1>4. req'[r] = next /\ \A q \in Slots \ {r} : req'[q] = req[q]
    BY <1>3, SlotFacts
<1>5. SlotTypes(r)' /\ Remembers(r)'
    BY <1>1, <1>3, <1>4, SlotFacts DEF SlotTypes, Remembers
<1>6. Holds(r)'
    <2>1. UNCHANGED <<units, unit_group_bindings>>
        BY <1>1 DEF tables
    <2>2. req[r].op = "update" /\ Exists(req[r].id)
        BY <1>1, SlotFacts DEF SlotTypes, Holds, InTx
    <2>3. Exists(next.id)' /\ next.gone = BoundTo(next.id)'
        BY <1>2, <1>3, <2>1, <2>2 DEF Exists, BoundTo
    <2>4. QED
        BY <1>3, <1>4, <2>2, <2>3 DEF Holds
<1>7. ASSUME NEW q \in Slots \ {r} PROVE Apart(r, q)'
    <2>1. Apart(r, q)
        BY SlotFacts
    <2>2. QED
        BY <1>1, <1>3, <1>4, <2>1 DEF Apart, InTx
<1>8. Pending' \subseteq Pending
    BY <1>1, <1>3, <1>4 DEF Pending, InTx
<1>9. QED
    BY <1>1, <1>3, <1>5, <1>6, <1>7, <1>8, Moving

LEMMA InsertUnitGroupBindingInv ==
    ASSUME UnitInv, NEW r \in Slots, InsertUnitGroupBinding(r)
    PROVE  UnitInv'
<1> DEFINE g == req[r].groups[req[r].bound + 1]
           present == (BoundTo(req[r].id) \ req[r].gone) \cup Inserted(r)
<1>1. UNCHANGED <<tables, page>> /\ req[r].at = "bind" /\ req[r].bound < Len(req[r].groups)
    BY DEF InsertUnitGroupBinding
<1>2. CASE g \in present
    <2>1. PICK ended \in Answers : ended = Answered(500, "conflict")
        BY ConflictAnswers
    <2>2. req' = [req EXCEPT ![r] = ended]
        BY <1>2, <2>1 DEF InsertUnitGroupBinding
    <2>3. QED
        BY <1>1, <2>2, Ending
<1>3. CASE g \notin present
    <2>1. PICK next \in Requesting :
            /\ req' = [req EXCEPT ![r] = next]
            /\ next.at = "bind" /\ next.op = req[r].op
            /\ next.id = req[r].id /\ next.form = req[r].form /\ next.groups = req[r].groups
            /\ next.bound = req[r].bound + 1 /\ next.gone = req[r].gone
        <3>1. req[r] \in Requesting
            BY SlotFacts
        <3>2. PICK next : next = [req[r] EXCEPT !.bound = req[r].bound + 1]
            OBVIOUS
        <3>3. req' = [req EXCEPT ![r] = IF g \in present THEN Answered(500, "conflict")
                                        ELSE [@ EXCEPT !.bound = req[r].bound + 1]]
            BY DEF InsertUnitGroupBinding
        <3>4. req' = [req EXCEPT ![r] = next]
            BY <1>3, <3>2, <3>3
        <3>5. /\ next \in Requesting
              /\ next.at = req[r].at /\ next.op = req[r].op /\ next.id = req[r].id
              /\ next.form = req[r].form /\ next.groups = req[r].groups
              /\ next.bound = req[r].bound + 1 /\ next.gone = req[r].gone
            BY <3>1, <3>2, InsertedType
        <3>6. QED
            BY <1>1, <3>4, <3>5
    <2>2. Len(req[r].groups) \in Nat /\ req[r].bound \in Nat
        BY SlotFacts, LenProperties DEF Requesting
    <2>3. req'[r] = next /\ \A q \in Slots \ {r} : req'[q] = req[q]
        BY <2>1, SlotFacts
    <2>4. SlotTypes(r)' /\ Remembers(r)'
        BY <1>1, <2>1, <2>2, <2>3, SlotFacts DEF SlotTypes, Remembers
    <2>5. Holds(r)'
        BY <1>1, <2>1, <2>3, SlotFacts DEF Holds, InTx, Exists, BoundTo, SlugTaken, tables
    <2>6. ASSUME NEW q \in Slots \ {r} PROVE Apart(r, q)'
        <3>1. Apart(r, q)
            BY SlotFacts
        <3>2. QED
            BY <1>1, <2>1, <2>3, <3>1 DEF Apart, InTx
    <2>7. Pending' \subseteq Pending
        BY <1>1, <2>1, <2>3 DEF Pending, InTx
    <2>8. QED
        BY <1>1, <2>1, <2>4, <2>5, <2>6, <2>7, Moving
<1>4. QED
    BY <1>2, <1>3

LEMMA FaultInv == ASSUME UnitInv, NEW r \in Slots, Fault(r) PROVE UnitInv'
<1>1. PICK ended \in Answers : ended = Answered(500, "fault")
    BY DEF Answers
<1>2. req' = [req EXCEPT ![r] = ended] /\ UNCHANGED <<tables, page>>
    BY <1>1 DEF Fault
<1>3. QED
    BY <1>2, Ending

\* The slot's next state when its INSERT INTO units has given it an id.
LEMMA NumberedType ==
    ASSUME NEW c \in Requesting, NEW id \in Nat
    PROVE  \E next \in Requesting :
            /\ next = [c EXCEPT !.at = "bind", !.id = id]
            /\ next.at = "bind" /\ next.op = c.op /\ next.id = id /\ next.form = c.form
            /\ next.groups = c.groups /\ next.bound = c.bound /\ next.gone = c.gone
            /\ next.cause = c.cause
<1> DEFINE next == [at |-> "bind", op |-> c.op, id |-> id, form |-> c.form,
                    groups |-> c.groups, bound |-> c.bound, gone |-> c.gone,
                    raced |-> c.raced, answer |-> c.answer, cause |-> c.cause]
<1>1. next \in Requesting
    BY DEF Requesting
<1>2. next = [c EXCEPT !.at = "bind", !.id = id]
    <2> DEFINE bind == [at |-> "bind", op |-> c.op, id |-> c.id, form |-> c.form,
                        groups |-> c.groups, bound |-> c.bound, gone |-> c.gone,
                        raced |-> c.raced, answer |-> c.answer, cause |-> c.cause]
    <2>1. [c EXCEPT !.at = "bind"] = bind
        BY DEF Requesting
    <2>2. [bind EXCEPT !.id = id] = next
        OBVIOUS
    <2> HIDE DEF bind, next
    <2>3. QED
        BY <2>1, <2>2
<1>3. /\ next.at = "bind" /\ next.op = c.op /\ next.id = id /\ next.form = c.form
      /\ next.groups = c.groups /\ next.bound = c.bound /\ next.gone = c.gone
      /\ next.cause = c.cause
    OBVIOUS
<1> HIDE DEF next
<1>4. QED
    BY <1>1, <1>2, <1>3

LEMMA CreateUnitInv == ASSUME UnitInv, NEW r \in Slots, CreateUnit(r) PROVE UnitInv'
<1>1. /\ UNCHANGED <<units, unit_group_bindings, page, born>>
      /\ req[r].at = "insert" /\ ~ SlugLocked(req[r].form.slug) /\ lastId' = lastId + 1
    BY DEF CreateUnit
<1>2. req[r].op = "create" /\ r \in Pending
    BY <1>1, SlotFacts DEF SlotTypes, Pending, InTx
<1>3. lastId \in Nat /\ lastId' \in Nat /\ lastId' >= lastId
    BY <1>1 DEF UnitInv, SlotsInv, Numbering
<1>4. Cardinality(Pending \ {r}) = Cardinality(Pending) - 1 /\ IsFiniteSet(Pending \ {r})
    BY <1>2, PendingIsFinite, FS_RemoveElement
<1>5. Cardinality(Pending \ {r}) \in Nat
    BY <1>4, FS_CardinalityType
<1>6. lastId + 1 \in Ids
    BY <1>3, <1>4, <1>5, PendingIsFinite, UnitAssumption
    DEF UnitInv, SlotsInv, Numbering, Ids
<1>7. ASSUME Pending' \subseteq Pending \ {r} PROVE Numbering'
    <2>1. Cardinality(Pending') <= Cardinality(Pending \ {r})
        BY <1>4, <1>7, FS_Subset
    <2>2. QED
        BY <1>1, <1>3, <1>4, <1>5, <2>1, PendingIsFinite, UnitAssumption
        DEF UnitInv, SlotsInv, Numbering
<1>8. CASE SlugTaken(req[r].form.slug)
    <2>1. PICK next \in Answers : req' = [req EXCEPT ![r] = next]
        <3>1. Answered(500, "conflict") \in Answers
            BY DEF Answers
        <3>2. req' = [req EXCEPT ![r] = Answered(500, "conflict")]
            BY <1>8 DEF CreateUnit
        <3>3. QED
            BY <3>1, <3>2
    <2>2. req'[r] = next /\ \A q \in Slots \ {r} : req'[q] = req[q]
        BY <2>1, SlotFacts
    <2>3. Pending' \subseteq Pending \ {r}
        BY <2>2, AnswersType DEF Pending, InTx
    <2>4. SlotTypes(r)' /\ Holds(r)' /\ Remembers(r)' /\ \A q \in Slots \ {r} : Apart(r, q)'
        BY <2>2, AnswersType, EmptySeq DEF SlotTypes, Holds, Remembers, Apart, InTx
    <2>5. QED
        BY <1>1, <1>3, <1>7, <2>1, <2>3, <2>4, AnswersType, OneSlot
<1>9. CASE ~ SlugTaken(req[r].form.slug)
    <2>1. PICK c \in Requesting, id \in Nat : c = req[r] /\ id = lastId + 1
        BY <1>3, SlotFacts
    <2>2. PICK next \in Requesting :
            /\ next = [c EXCEPT !.at = "bind", !.id = id]
            /\ next.at = "bind" /\ next.op = c.op /\ next.id = id
            /\ next.form = c.form /\ next.groups = c.groups /\ next.bound = c.bound
            /\ next.gone = c.gone
        BY NumberedType
    <2>3. req' = [req EXCEPT ![r] = next]
        BY <1>9, <2>1, <2>2 DEF CreateUnit
    <2>4. req'[r] = next /\ \A q \in Slots \ {r} : req'[q] = req[q]
        BY <2>3, SlotFacts
    <2>5. Pending' \subseteq Pending \ {r}
        BY <2>2, <2>4 DEF Pending, InTx
    <2>6. SlotTypes(r)' /\ Remembers(r)'
        BY <1>1, <1>2, <1>6, <2>1, <2>2, <2>4, SlotFacts DEF SlotTypes, Remembers
    <2>7. Holds(r)'
        <3>1. lastId + 1 \notin born
            BY <1>3 DEF UnitInv, RegistryInv, Tables
        <3>2. next.gone = {}
            BY <1>1, <2>1, <2>2, SlotFacts DEF SlotTypes
        <3>3. ~ SlugTaken(next.form.slug)'
            BY <1>1, <1>9, <2>1, <2>2 DEF SlugTaken, Exists
        <3>4. QED
            BY <1>1, <1>2, <1>3, <2>1, <2>2, <2>4, <3>1, <3>2, <3>3 DEF Holds
    <2>8. ASSUME NEW q \in Slots \ {r} PROVE Apart(r, q)'
        <3>1. ASSUME InTx(q), req[q].op = "create"
              PROVE  req[q].id # lastId + 1 /\ req[q].form.slug # req[r].form.slug
            <4>1. Holds(q) /\ req[q] \in Requesting
                BY SlotFacts
            <4>2. req[q].id <= lastId /\ req[q].id \in Nat
                BY <3>1, <4>1 DEF Holds, Requesting
            <4>3. QED
                BY <1>1, <1>3, <3>1, <4>2 DEF SlugLocked
        <3>2. QED
            BY <1>2, <2>1, <2>2, <2>4, <3>1 DEF Apart, InTx
    <2>9. QED
        BY <1>1, <1>3, <1>7, <2>3, <2>5, <2>6, <2>7, <2>8, OneSlot
<1>10. QED
    BY <1>8, <1>9

-----------------------------------------------------------------------------
(* The steps that change the tables *)

\* A request that ends with a change; the others learn if they lost a race.
Survives(q) ==
    /\ req'[q] \in Requesting
    /\ req'[q].at = req[q].at /\ req'[q].op = req[q].op /\ req'[q].id = req[q].id
    /\ req'[q].form = req[q].form /\ req'[q].groups = req[q].groups
    /\ req'[q].bound = req[q].bound /\ req'[q].gone = req[q].gone
    /\ req'[q].cause = req[q].cause
    /\ req[q].raced => req'[q].raced

LEMMA RacedType ==
    ASSUME NEW c \in Requesting, NEW hit \in BOOLEAN, NEW next,
           next = [c EXCEPT !.raced = hit]
    PROVE  /\ next \in Requesting
           /\ next.at = c.at /\ next.op = c.op /\ next.id = c.id /\ next.form = c.form
           /\ next.groups = c.groups /\ next.bound = c.bound /\ next.gone = c.gone
           /\ next.cause = c.cause /\ next.raced = hit
BY DEF Requesting

LEMMA TookFrame ==
    ASSUME UnitInv, NEW r \in Slots, NEW answer, NEW cause,
           Answered(answer, cause) \in Answers, Took(r, answer, cause)
    PROVE  /\ req' \in [Slots -> Requesting]
           /\ req'[r] = Answered(answer, cause)
           /\ \A q \in Slots \ {r} : Survives(q) /\ (Raced(r, q) => req'[q].raced)
<1>1. req'[r] = Answered(answer, cause) /\ req'[r] \in Requesting
    BY AnswersType DEF Took
<1>2. ASSUME NEW q \in Slots \ {r} PROVE Survives(q) /\ (Raced(r, q) => req'[q].raced)
    <2>1. PICK c \in Requesting : c = req[q]
        BY SlotFacts
    <2>2. c.raced \in BOOLEAN
        BY DEF Requesting
    <2>3. PICK hit \in BOOLEAN : hit = (c.raced \/ Raced(r, q))
        BY <2>2
    <2>4. PICK next : next = [c EXCEPT !.raced = hit]
        OBVIOUS
    <2>5. req'[q] = next
        BY <2>1, <2>3, <2>4 DEF Took
    <2>6. /\ next \in Requesting
          /\ next.at = c.at /\ next.op = c.op /\ next.id = c.id /\ next.form = c.form
          /\ next.groups = c.groups /\ next.bound = c.bound /\ next.gone = c.gone
          /\ next.cause = c.cause /\ next.raced = hit
        BY <2>4, RacedType
    <2>7. (c.raced => hit) /\ (Raced(r, q) => hit)
        BY <2>2, <2>3, Zenon
    <2>8. Survives(q)
        BY <2>1, <2>5, <2>6, <2>7 DEF Survives
    <2>9. QED
        BY <2>5, <2>6, <2>7, <2>8
<1>3. req' \in [Slots -> Requesting]
    <2>1. \A q \in Slots : req'[q] \in Requesting
        BY <1>1, <1>2 DEF Survives
    <2>2. req' = [q \in Slots |-> req'[q]]
        BY DEF Took
    <2>3. QED
        BY <2>1, <2>2
<1>4. QED
    BY <1>1, <1>2, <1>3

\* What is left to show of the requests when r ends with a change.
LEMMA OthersStand ==
    ASSUME UnitInv, NEW r \in Slots, NEW next \in Answers, req' \in [Slots -> Requesting],
           req'[r] = next, lastId' = lastId,
           \A q \in Slots \ {r} : Survives(q),
           \A q \in Slots \ {r} : Holds(q)' /\ Remembers(q)'
    PROVE  SlotsInv'
<1>1. /\ next.at = "idle" /\ next.op = "none" /\ next.bound = 0 /\ next.gone = {}
      /\ next.groups = <<>>
    BY AnswersType
<1>2. Numbering'
    <2>1. Pending' \subseteq Pending
        BY <1>1 DEF Pending, InTx, Survives
    <2>2. QED
        BY <2>1, NumbersLast
<1>3. ASSUME NEW q \in Slots PROVE SlotTypes(q)' /\ Holds(q)' /\ Remembers(q)'
    <2>1. CASE q = r
        BY <1>1, <2>1, EmptySeq DEF SlotTypes, Holds, Remembers, InTx
    <2>2. CASE q # r
        <3>1. Survives(q) /\ SlotTypes(q)
            BY <2>2, SlotFacts
        <3>2. SlotTypes(q)'
            BY <3>1 DEF SlotTypes, Survives
        <3>3. QED
            BY <2>2, <3>2
    <2>3. QED
        BY <2>1, <2>2
<1>4. ASSUME NEW q \in Slots, NEW p \in Slots, q # p PROVE Apart(q, p)'
    <2>1. CASE q = r \/ p = r
        BY <1>1, <2>1 DEF Apart, InTx
    <2>2. CASE q # r /\ p # r
        <3>1. Survives(q) /\ Survives(p) /\ Apart(q, p)
            BY <1>4, <2>2 DEF UnitInv, SlotsInv
        <3>2. QED
            BY <3>1 DEF Apart, InTx, Survives
    <2>3. QED
        BY <2>1, <2>2
<1>5. QED
    BY <1>2, <1>3, <1>4 DEF SlotsInv

\* What a commit writes, by what the transaction holds: the row and the
\* bindings of one form, under the old slug if the unit has one.
LEMMA AppliedFacts ==
    ASSUME UnitInv, NEW r \in Slots, ReadyToCommit(r), Applied(r), NEW id, id = req[r].id
    PROVE  /\ req[r].at = "bind" /\ req[r].op \in {"create", "update"}
           /\ req[r].form \in Forms /\ id \in Ids
           /\ req[r].groups = parseGroupBindings(req[r].form.parts)
           /\ req[r].op = "create" =>
                ~ Exists(id) /\ id \notin born /\ ~ SlugTaken(req[r].form.slug)
           /\ req[r].op = "update" => Exists(id) /\ id \in born
           /\ id <= lastId
           /\ \E row \in Rows :
                /\ units' = [units EXCEPT ![id] = row] /\ row # None
                /\ row.info = req[r].form.info
                /\ row.slug = IF req[r].op = "create" THEN req[r].form.slug
                              ELSE units[id].slug
           /\ BoundTo(id)' = Range(req[r].groups)
           /\ \A other \in Ids \ {id} : BoundTo(other)' = BoundTo(other)
           /\ unit_group_bindings' \subseteq Ids \X Groups
           /\ born' = born \cup {id} /\ lastId' = lastId
<1>1. /\ SlotTypes(r) /\ Holds(r) /\ req[r] \in Requesting
      /\ req[r].at = "bind" /\ req[r].bound = Len(req[r].groups)
    BY SlotFacts DEF ReadyToCommit
<1>2. /\ req[r].op \in {"create", "update"} /\ req[r].form \in Forms /\ req[r].id \in Ids
      /\ req[r].groups = parseGroupBindings(req[r].form.parts)
    BY <1>1 DEF SlotTypes
<1>3. /\ Tables /\ unit_group_bindings \subseteq Ids \X Groups
      /\ \A other \in Ids : units[other] \in Rows \cup {None}
      /\ \A other \in Ids : Exists(other) => other \in born
      /\ \A other \in Ids : BoundTo(other) # {} => Exists(other)
      /\ lastId \in Nat /\ born \subseteq 1 .. lastId
    BY DEF UnitInv, RegistryInv, SlotsInv, Tables, Numbering
<1>4. req[r].op = "create" =>
        /\ ~ Exists(req[r].id) /\ req[r].id \notin born /\ ~ SlugTaken(req[r].form.slug)
        /\ req[r].gone = {} /\ BoundTo(req[r].id) = {} /\ req[r].id <= lastId
    BY <1>1, <1>2, <1>3 DEF Holds, InTx
<1>5. req[r].op = "update" =>
        /\ Exists(req[r].id) /\ req[r].id \in born /\ req[r].gone = BoundTo(req[r].id)
        /\ req[r].id <= lastId
    <2>1. ASSUME req[r].op = "update"
          PROVE  Exists(req[r].id) /\ req[r].gone = BoundTo(req[r].id)
        BY <1>1, <2>1 DEF Holds, InTx
    <2>2. ASSUME req[r].op = "update" PROVE req[r].id \in born
        BY <1>2, <1>3, <2>1, <2>2
    <2>3. ASSUME id \in born PROVE id <= lastId
        BY <1>3, <2>3
    <2>4. QED
        BY <2>1, <2>2, <2>3
<1>6. req[r].gone = BoundTo(req[r].id) /\ req[r].id <= lastId
    BY <1>2, <1>4, <1>5
<1>7. Inserted(r) = Range(req[r].groups) /\ Range(req[r].groups) \subseteq Groups
    <2>1. parseGroupBindings(req[r].form.parts) \in Seq(Groups)
        BY <1>2, GroupsOf
    <2>2. /\ DOMAIN req[r].groups = 1 .. Len(req[r].groups)
          /\ \A i \in 1 .. Len(req[r].groups) : req[r].groups[i] \in Groups
        BY <1>2, <2>1, LenProperties, ElementOfSeq
    <2>3. QED
        BY <1>1, <2>2 DEF Inserted, Range
<1>8. PICK gone, added : gone = req[r].gone /\ added = Inserted(r)
    OBVIOUS
<1>9. /\ id \in Ids /\ gone \subseteq Groups /\ added \subseteq Groups
      /\ gone = BoundTo(id) /\ added = Range(req[r].groups)
    BY <1>2, <1>6, <1>7, <1>8 DEF BoundTo
<1>10. /\ unit_group_bindings' = (unit_group_bindings \ ({id} \X gone)) \cup ({id} \X added)
       /\ born' = born \cup {id} /\ lastId' = lastId
    BY <1>8 DEF Applied
<1>11. BoundTo(id)' = added
    BY <1>3, <1>9, <1>10 DEF BoundTo
<1>12. ASSUME NEW other \in Ids \ {id} PROVE BoundTo(other)' = BoundTo(other)
    BY <1>3, <1>9, <1>10 DEF BoundTo
<1>13. unit_group_bindings' \subseteq Ids \X Groups
    BY <1>3, <1>9, <1>10
<1>14. \E row \in Rows :
        /\ units' = [units EXCEPT ![req[r].id] = row] /\ row # None
        /\ row.info = req[r].form.info
        /\ row.slug = IF req[r].op = "create" THEN req[r].form.slug ELSE units[req[r].id].slug
    <2>1. PICK form \in Forms : form = req[r].form
        BY <1>2
    <2>2. None \notin Rows
        BY UnitAssumption DEF Rows, Infos
    <2>3. CASE req[r].op = "create"
        <3>1. PICK row : row = Row(form)
            OBVIOUS
        <3>2. row \in Rows /\ row.slug = form.slug /\ row.info = form.info
            BY <3>1, FormTypesOf DEF Row, Rows
        <3>3. units' = [units EXCEPT ![req[r].id] = row]
            BY <2>1, <2>3, <3>1 DEF Applied
        <3>4. QED
            BY <2>1, <2>2, <2>3, <3>2, <3>3
    <2>4. CASE req[r].op = "update"
        <3>1. units[id] \in Rows
            BY <1>3, <1>5, <1>8, <1>9, <2>4 DEF Exists
        <3>2. PICK slug \in Slugs : slug = units[req[r].id].slug
            BY <1>8, <3>1 DEF Rows
        <3>3. PICK row : row = [slug |-> slug, info |-> form.info]
            OBVIOUS
        <3>4. row \in Rows /\ row.slug = slug /\ row.info = form.info
            BY <3>3, FormTypesOf DEF Rows
        <3>5. [Row(form) EXCEPT !.slug = slug] = row
            BY <3>3 DEF Row
        <3>6. units' = [units EXCEPT ![req[r].id] =
                            [Row(req[r].form) EXCEPT !.slug = units[req[r].id].slug]]
            BY <2>4 DEF Applied
        <3>7. units' = [units EXCEPT ![req[r].id] = row]
            BY <2>1, <3>2, <3>5, <3>6
        <3>8. QED
            BY <2>1, <2>2, <2>4, <3>2, <3>4, <3>7
    <2>5. QED
        BY <1>2, <2>3, <2>4
<1>15. /\ BoundTo(id)' = Range(req[r].groups)
       /\ \A other \in Ids \ {id} : BoundTo(other)' = BoundTo(other)
       /\ born' = born \cup {id} /\ lastId' = lastId
    BY <1>9, <1>10, <1>11, <1>12
<1> HIDE DEF Rows
<1>16. QED
    BY <1>1, <1>2, <1>4, <1>5, <1>6, <1>13, <1>14, <1>15

LEMMA CommittedInv ==
    ASSUME UnitInv, NEW r \in Slots, NEW answer, NEW cause,
           Answered(answer, cause) \in Answers,
           ReadyToCommit(r), Applied(r), Took(r, answer, cause), UNCHANGED page
    PROVE  UnitInv'
<1>1. PICK id, form, op, slug, groups :
        /\ id = req[r].id /\ form = req[r].form /\ op = req[r].op
        /\ groups = Range(req[r].groups)
        /\ slug = IF req[r].op = "create" THEN req[r].form.slug ELSE units[req[r].id].slug
    OBVIOUS
<1>2. /\ req[r].at = "bind" /\ op \in {"create", "update"} /\ id \in Ids /\ form \in Forms
      /\ req[r].groups = parseGroupBindings(form.parts)
      /\ op = "create" => ~ Exists(id) /\ id \notin born /\ ~ SlugTaken(form.slug)
      /\ op = "update" => Exists(id) /\ id \in born
      /\ id <= lastId
      /\ BoundTo(id)' = groups
      /\ \A other \in Ids \ {id} : BoundTo(other)' = BoundTo(other)
      /\ unit_group_bindings' \subseteq Ids \X Groups
      /\ born' = born \cup {id} /\ lastId' = lastId
    BY <1>1, AppliedFacts
<1>3. PICK row \in Rows :
        units' = [units EXCEPT ![id] = row] /\ row # None /\ row.slug = slug
    BY <1>1, AppliedFacts
<1>4. slug = IF op = "create" THEN form.slug ELSE units[id].slug
    BY <1>1
<1>5. /\ Tables /\ BindingsAreWhole /\ SlugsDiffer /\ PageTypes /\ lastId \in Nat
      /\ \A d \in Readers : Listed(d)
      /\ units \in [Ids -> Rows \cup {None}] /\ born \subseteq 1 .. lastId
    BY DEF UnitInv, RegistryInv, SlotsInv, Tables, Numbering
<1>6. units'[id] = row /\ \A other \in Ids \ {id} : units'[other] = units[other]
    BY <1>2, <1>3, <1>5
<1>7. groups \in {content.groups : content \in FormContents}
    BY <1>1, <1>2, GroupsOf
<1>8. /\ Exists(id)' /\ \A other \in Ids : Exists(other) => Exists(other)'
      /\ \A other \in Ids \ {id} : Exists(other)' = Exists(other)
    BY <1>3, <1>6 DEF Exists
<1>9. Tables'
    <2>1. units' \in [Ids -> Rows \cup {None}]
        BY <1>2, <1>3, <1>5
    <2>2. born' \subseteq 1 .. lastId'
        BY <1>2, <1>5, UnitAssumption DEF Ids
    <2>3. ASSUME NEW other \in Ids, Exists(other)' PROVE other \in born'
        BY <1>2, <1>5, <1>8, <2>3 DEF Tables
    <2>4. ASSUME NEW other \in Ids, BoundTo(other)' # {} PROVE Exists(other)'
        BY <1>2, <1>5, <1>8, <2>4 DEF Tables
    <2>5. QED
        BY <1>2, <2>1, <2>2, <2>3, <2>4 DEF Tables
<1>10. BindingsAreWhole'
    <2>1. FormContents' = FormContents
        BY DEF FormContents
    <2>2. ASSUME NEW other \in Ids, Exists(other)'
          PROVE  BoundTo(other)' \in {content.groups : content \in FormContents}
        <3>1. CASE other = id
            BY <1>2, <1>7, <3>1
        <3>2. CASE other # id
            BY <1>2, <1>5, <1>8, <2>2, <3>2 DEF BindingsAreWhole
        <3>3. QED
            BY <3>1, <3>2
    <2>3. QED
        BY <2>1, <2>2 DEF BindingsAreWhole
<1>11. \A other \in Ids \ {id} : Exists(other) => units[other].slug # slug
    <2>1. CASE op = "create"
        BY <1>2, <1>4, <2>1 DEF SlugTaken
    <2>2. CASE op = "update"
        BY <1>2, <1>4, <1>5, <2>2 DEF SlugsDiffer
    <2>3. QED
        BY <1>2, <2>1, <2>2
<1>12. SlugsDiffer'
    <2>1. ASSUME NEW one \in Ids, NEW other \in Ids, Exists(one)', Exists(other)',
                 units'[one].slug = units'[other].slug
          PROVE  one = other
        <3>1. CASE one = id \/ other = id
            BY <1>3, <1>6, <1>8, <1>11, <2>1, <3>1
        <3>2. CASE one # id /\ other # id
            BY <1>5, <1>6, <1>8, <2>1, <3>2 DEF SlugsDiffer
        <3>3. QED
            BY <3>1, <3>2
    <2>2. QED
        BY <2>1 DEF SlugsDiffer
<1>13. ASSUME NEW d \in Readers PROVE Listed(d)'
    <2>1. page' = page /\ Listed(d) /\ FormContents' = FormContents
        BY <1>5 DEF FormContents
    <2>2. page[d].todo \subseteq born'
        BY <1>2, <2>1 DEF Listed
    <2>3. ASSUME NEW item \in page[d].shown
          PROVE  /\ item.id \in born' /\ item.groups \subseteq Groups
                 /\ \/ item.groups \in {content.groups : content \in FormContents}
                    \/ item.groups = {} /\ ~ Exists(item.id)'
        <3>1. /\ item.id \in born /\ item.groups \subseteq Groups
              /\ \/ item.groups \in {content.groups : content \in FormContents}
                 \/ item.groups = {} /\ ~ Exists(item.id)
            BY <2>1, <2>3 DEF Listed
        <3>2. item.id \in Ids
            BY <3>1, NumbersSuffice
        <3>3. ~ Exists(item.id) => ~ Exists(item.id)'
            BY <1>2, <1>8, <3>1, <3>2
        <3>4. QED
            BY <1>2, <3>1, <3>3
    <2>4. QED
        BY <2>1, <2>2, <2>3 DEF Listed
<1>14. RegistryInv'
    <2>1. PageTypes'
        BY <1>5 DEF PageTypes
    <2>2. QED
        BY <1>9, <1>10, <1>12, <1>13, <2>1 DEF RegistryInv
<1>15. \A taken : SlugTaken(taken)' => SlugTaken(taken) \/ taken = slug
    BY <1>3, <1>6, <1>8 DEF SlugTaken
<1>16. op = "update" => SlugTaken(slug)
    BY <1>2, <1>4 DEF SlugTaken
<1>17. /\ req' \in [Slots -> Requesting] /\ req'[r] = Answered(answer, cause)
       /\ \A q \in Slots \ {r} : Survives(q) /\ (Raced(r, q) => req'[q].raced)
    BY TookFrame
<1>18. InTx(r)
    BY <1>2 DEF InTx
<1>19. ASSUME NEW q \in Slots \ {r} PROVE Holds(q)' /\ Remembers(q)'
    <2>1. PICK c, d :
            /\ c = req[q] /\ d = req'[q] /\ d.at = c.at /\ d.op = c.op /\ d.id = c.id
            /\ d.form = c.form /\ d.gone = c.gone /\ (c.raced => d.raced)
        BY <1>17 DEF Survives
    <2>2. Holds(q) /\ Remembers(q) /\ SlotTypes(q) /\ Apart(r, q)
        BY SlotFacts
    <2>3. InTx(q)' = InTx(q)
        BY <2>1 DEF InTx
    <2>4. ASSUME InTx(q), c.op = "update" PROVE Exists(c.id)'
        BY <1>8, <2>1, <2>2, <2>4 DEF Holds, SlotTypes, InTx
    <2>5. ASSUME c.at = "bind", c.op = "update" PROVE c.gone = BoundTo(c.id)'
        <3>1. c.id \in Ids /\ Exists(c.id) /\ c.gone = BoundTo(c.id)
            BY <2>1, <2>2, <2>5 DEF Holds, SlotTypes, InTx
        <3>2. c.id # id
            BY <1>1, <1>2, <1>18, <2>1, <2>2, <2>5, <3>1 DEF Apart, InTx
        <3>3. QED
            BY <1>2, <3>1, <3>2
    <2>6. ASSUME InTx(q), c.op = "create"
          PROVE  /\ c.id <= lastId' /\ c.id \notin born' /\ c.gone = {}
                 /\ ~ SlugTaken(c.form.slug)'
        <3>1. /\ c.id <= lastId /\ c.id \notin born /\ c.gone = {}
              /\ ~ SlugTaken(c.form.slug)
            BY <2>1, <2>2, <2>6 DEF Holds
        <3>2. c.id # id /\ c.form.slug # slug
            BY <1>1, <1>2, <1>4, <1>16, <1>18, <2>1, <2>2, <2>6, <3>1 DEF Apart
        <3>3. QED
            BY <1>2, <1>15, <3>1, <3>2
    <2>7. ASSUME c.at = "insert", SlugTaken(c.form.slug)' PROVE d.raced
        <3>1. CASE SlugTaken(c.form.slug)
            BY <2>1, <2>2, <2>7, <3>1 DEF Remembers
        <3>2. CASE ~ SlugTaken(c.form.slug)
            <4>1. op = "create" /\ c.form.slug = form.slug
                BY <1>2, <1>4, <1>15, <1>16, <2>7, <3>2
            <4>2. Raced(r, q)
                BY <1>1, <2>1, <2>7, <4>1 DEF Raced
            <4>3. QED
                BY <1>17, <2>1, <4>2
        <3>3. QED
            BY <3>1, <3>2
    <2>8. ASSUME c.at = "update", ~ Exists(c.id)' PROVE d.raced
        BY <1>8, <2>1, <2>2, <2>8 DEF Remembers, SlotTypes
    <2>9. Holds(q)'
        BY <2>1, <2>3, <2>4, <2>5, <2>6 DEF Holds
    <2>10. Remembers(q)'
        BY <2>1, <2>7, <2>8 DEF Remembers
    <2>11. QED
        BY <2>9, <2>10
<1>20. SlotsInv'
    BY <1>2, <1>17, <1>19, OthersStand
<1>21. QED
    BY <1>14, <1>20 DEF UnitInv

LEMMA RemovedInv ==
    ASSUME UnitInv, NEW r \in Slots, NEW answer, NEW cause,
           Answered(answer, cause) \in Answers, req[r].at = "remove", ~ Locked(req[r].id),
           Removed(req[r].id), Took(r, answer, cause), UNCHANGED page
    PROVE  UnitInv'
<1>1. PICK id : id = req[r].id
    OBVIOUS
<1>2. id \in Ids /\ req[r].op = "delete"
    BY <1>1, SlotFacts DEF SlotTypes
<1>3. /\ units' = [units EXCEPT ![id] = None] /\ lastId' = lastId /\ born' = born
      /\ unit_group_bindings' = unit_group_bindings \ ({id} \X Groups)
    BY <1>1 DEF Removed
<1>4. /\ Tables /\ BindingsAreWhole /\ SlugsDiffer /\ PageTypes
      /\ \A d \in Readers : Listed(d)
      /\ units \in [Ids -> Rows \cup {None}] /\ unit_group_bindings \subseteq Ids \X Groups
    BY DEF UnitInv, RegistryInv, Tables
<1>5. units'[id] = None /\ \A other \in Ids \ {id} : units'[other] = units[other]
    BY <1>2, <1>3, <1>4
<1>6. /\ ~ Exists(id)' /\ \A other \in Ids \ {id} : Exists(other)' = Exists(other)
      /\ \A other \in Ids : Exists(other)' => Exists(other)
    BY <1>5 DEF Exists
<1>7. BoundTo(id)' = {} /\ \A other \in Ids \ {id} : BoundTo(other)' = BoundTo(other)
    <2>1. BoundTo(id)' = {}
        BY <1>3 DEF BoundTo
    <2>2. ASSUME NEW other \in Ids \ {id} PROVE BoundTo(other)' = BoundTo(other)
        BY <1>3 DEF BoundTo
    <2>3. QED
        BY <2>1, <2>2
<1>8. Tables'
    <2>1. units' \in [Ids -> Rows \cup {None}]
        BY <1>3, <1>4
    <2>2. unit_group_bindings' \subseteq Ids \X Groups
        BY <1>3, <1>4
    <2>3. born' \subseteq 1 .. lastId'
        BY <1>3, <1>4 DEF Tables
    <2>4. ASSUME NEW other \in Ids PROVE /\ Exists(other)' => other \in born'
                                         /\ BoundTo(other)' # {} => Exists(other)'
        BY <1>3, <1>4, <1>6, <1>7 DEF Tables
    <2>5. QED
        BY <2>1, <2>2, <2>3, <2>4 DEF Tables
<1>9. BindingsAreWhole' /\ SlugsDiffer'
    <2>1. FormContents' = FormContents
        BY DEF FormContents
    <2>2. BindingsAreWhole'
        BY <1>4, <1>6, <1>7, <2>1 DEF BindingsAreWhole
    <2>3. SlugsDiffer'
        BY <1>4, <1>5, <1>6 DEF SlugsDiffer
    <2>4. QED
        BY <2>2, <2>3
<1>10. ASSUME NEW d \in Readers PROVE Listed(d)'
    <2>1. page' = page /\ Listed(d) /\ FormContents' = FormContents /\ born \subseteq Ids
        BY <1>4, NumbersSuffice DEF FormContents
    <2>2. ASSUME NEW item \in page[d].shown
          PROVE  /\ item.id \in born' /\ item.groups \subseteq Groups
                 /\ \/ item.groups \in {content.groups : content \in FormContents}
                    \/ item.groups = {} /\ ~ Exists(item.id)'
        BY <1>3, <1>6, <2>1, <2>2 DEF Listed
    <2>3. QED
        BY <1>3, <2>1, <2>2 DEF Listed
<1>11. RegistryInv'
    <2>1. PageTypes'
        BY <1>4 DEF PageTypes
    <2>2. QED
        BY <1>8, <1>9, <1>10, <2>1 DEF RegistryInv
<1>12. \A taken : SlugTaken(taken)' => SlugTaken(taken)
    BY <1>5, <1>6 DEF SlugTaken
<1>13. /\ req' \in [Slots -> Requesting] /\ req'[r] = Answered(answer, cause)
       /\ \A q \in Slots \ {r} : Survives(q) /\ (Raced(r, q) => req'[q].raced)
    BY TookFrame
<1>14. ASSUME NEW q \in Slots \ {r} PROVE Holds(q)' /\ Remembers(q)'
    <2>1. PICK c, d :
            /\ c = req[q] /\ d = req'[q] /\ d.at = c.at /\ d.op = c.op /\ d.id = c.id
            /\ d.form = c.form /\ d.gone = c.gone /\ (c.raced => d.raced)
        BY <1>13 DEF Survives
    <2>2. Holds(q) /\ Remembers(q) /\ SlotTypes(q)
        BY SlotFacts
    <2>3. InTx(q)' = InTx(q)
        BY <2>1 DEF InTx
    <2>4. ASSUME InTx(q), c.op = "update" PROVE Exists(c.id)' /\ c.id \in Ids \ {id}
        <3>1. c.id \in Ids /\ Exists(c.id)
            BY <2>1, <2>2, <2>4 DEF Holds, SlotTypes, InTx
        <3>2. c.id # id
            BY <1>1, <2>1, <2>4 DEF Locked
        <3>3. QED
            BY <1>6, <3>1, <3>2
    <2>5. ASSUME c.at = "bind", c.op = "update" PROVE c.gone = BoundTo(c.id)'
        <3>1. c.id \in Ids \ {id}
            BY <2>1, <2>4, <2>5 DEF InTx
        <3>2. c.gone = BoundTo(c.id)
            BY <2>1, <2>2, <2>5 DEF Holds
        <3>3. QED
            BY <1>7, <3>1, <3>2
    <2>6. ASSUME InTx(q), c.op = "create"
          PROVE  /\ c.id <= lastId' /\ c.id \notin born' /\ c.gone = {}
                 /\ ~ SlugTaken(c.form.slug)'
        BY <1>3, <1>12, <2>1, <2>2, <2>6 DEF Holds
    <2>7. ASSUME c.at = "insert", SlugTaken(c.form.slug)' PROVE d.raced
        BY <1>12, <2>1, <2>2, <2>7 DEF Remembers
    <2>8. ASSUME c.at = "update", ~ Exists(c.id)' PROVE d.raced
        <3>1. CASE c.id = id
            <4>1. Raced(r, q)
                BY <1>1, <1>2, <2>1, <2>8, <3>1 DEF Raced
            <4>2. QED
                BY <1>13, <2>1, <4>1
        <3>2. CASE c.id # id
            BY <1>6, <2>1, <2>2, <2>8, <3>2 DEF Remembers, SlotTypes
        <3>3. QED
            BY <3>1, <3>2
    <2>9. Holds(q)'
        BY <2>1, <2>3, <2>4, <2>5, <2>6 DEF Holds
    <2>10. Remembers(q)'
        BY <2>1, <2>7, <2>8 DEF Remembers
    <2>11. QED
        BY <2>9, <2>10
<1>15. SlotsInv'
    BY <1>3, <1>13, <1>14, OthersStand
<1>16. QED
    BY <1>11, <1>15 DEF UnitInv

-----------------------------------------------------------------------------
(* The pages *)

LEMMA PageStep ==
    ASSUME UnitInv, UNCHANGED <<tables, req>>, PageTypes', \A d \in Readers : Listed(d)'
    PROVE  UnitInv'
<1>1. Tables' /\ BindingsAreWhole' /\ SlugsDiffer'
    BY DEF UnitInv, RegistryInv, tables, Tables, BindingsAreWhole, SlugsDiffer, Exists, BoundTo,
           FormContents
<1>2. SlotsInv'
    BY DEF UnitInv, SlotsInv, tables, SlotTypes, Numbering, Pending, Holds, Remembers, Apart,
           InTx, Exists, BoundTo, SlugTaken
<1>3. QED
    BY <1>1, <1>2 DEF UnitInv, RegistryInv

\* One page moves on.
LEMMA OnePage ==
    ASSUME UnitInv, UNCHANGED <<tables, req>>, NEW d \in Readers,
           NEW todo \in SUBSET Ids, NEW shown \in SUBSET [id : Ids, groups : SUBSET Groups],
           page' = [page EXCEPT ![d] = [todo |-> todo, shown |-> shown]],
           todo \subseteq born,
           \A item \in shown :
                /\ item.id \in born
                /\ \/ item.groups \in {content.groups : content \in FormContents}
                   \/ item.groups = {} /\ ~ Exists(item.id)
    PROVE  UnitInv'
<1>1. PageTypes /\ \A e \in Readers : Listed(e)
    BY DEF UnitInv, RegistryInv
<1>2. PageTypes'
    BY <1>1 DEF PageTypes
<1>3. /\ page'[d].todo = todo /\ page'[d].shown = shown
      /\ \A e \in Readers \ {d} : page'[e] = page[e]
    BY <1>1 DEF PageTypes
<1>4. /\ FormContents' = FormContents /\ born' = born
      /\ \A id \in Ids : Exists(id)' = Exists(id)
    BY DEF FormContents, tables, Exists
<1>5. ASSUME NEW e \in Readers PROVE Listed(e)'
    <2>1. CASE e = d
        BY <1>3, <1>4, <2>1 DEF Listed
    <2>2. CASE e # d
        BY <1>1, <1>3, <1>4, <2>2, NumbersSuffice DEF Listed
    <2>3. QED
        BY <2>1, <2>2
<1>6. QED
    BY <1>2, <1>5, PageStep

LEMMA PageFacts ==
    ASSUME UnitInv, NEW d \in Readers
    PROVE  /\ page[d].todo \subseteq born /\ page[d].todo \subseteq Ids
           /\ page[d].shown \in SUBSET [id : Ids, groups : SUBSET Groups]
           /\ \A item \in page[d].shown :
                /\ item.id \in born
                /\ \/ item.groups \in {content.groups : content \in FormContents}
                   \/ item.groups = {} /\ ~ Exists(item.id)
           /\ born \subseteq Ids
           /\ \A id \in Ids : Exists(id) => id \in born
BY NumbersSuffice DEF UnitInv, RegistryInv, PageTypes, Listed, Tables

LEMMA PagesInv ==
    ASSUME UnitInv, NEW d \in Readers,
           \/ AdminListUnits(d)
           \/ \E id \in Ids : AdminEditUnit(d, id) \/ GetUnitGroupBindings(d, id)
    PROVE  UnitInv'
<1>1. CASE AdminListUnits(d)
    <2>1. PICK todo, shown : todo = {id \in Ids : Exists(id)} /\ shown = {}
        OBVIOUS
    <2>2. page' = [page EXCEPT ![d] = [todo |-> todo, shown |-> shown]] /\ UNCHANGED <<tables, req>>
        BY <1>1, <2>1 DEF AdminListUnits
    <2>3. todo \in SUBSET Ids /\ todo \subseteq born
        BY <2>1, PageFacts
    <2>4. shown \in SUBSET [id : Ids, groups : SUBSET Groups]
        BY <2>1
    <2>5. QED
        BY <2>1, <2>2, <2>3, <2>4, OnePage
<1>2. ASSUME NEW id \in Ids, AdminEditUnit(d, id) PROVE UnitInv'
    <2>1. PICK todo, shown : todo = {id} /\ shown = {}
        OBVIOUS
    <2>2. /\ page' = [page EXCEPT ![d] = [todo |-> todo, shown |-> shown]]
          /\ UNCHANGED <<tables, req>> /\ Exists(id)
        BY <1>2, <2>1 DEF AdminEditUnit
    <2>3. todo \in SUBSET Ids /\ todo \subseteq born
        BY <2>1, <2>2, PageFacts
    <2>4. shown \in SUBSET [id : Ids, groups : SUBSET Groups]
        BY <2>1
    <2>5. QED
        BY <2>1, <2>2, <2>3, <2>4, OnePage
<1>3. ASSUME NEW id \in Ids, GetUnitGroupBindings(d, id) PROVE UnitInv'
    <2>1. PICK item : item = [id |-> id, groups |-> BoundTo(id)]
        OBVIOUS
    <2>2. PICK todo, shown : todo = page[d].todo \ {id} /\ shown = page[d].shown \cup {item}
        OBVIOUS
    <2>3. page' = [page EXCEPT ![d] = [todo |-> todo, shown |-> shown]]
        BY <1>3, <2>1, <2>2 DEF GetUnitGroupBindings
    <2>4. UNCHANGED <<tables, req>> /\ id \in page[d].todo
        BY <1>3 DEF GetUnitGroupBindings
    <2>5. todo \in SUBSET Ids /\ todo \subseteq born /\ id \in born
        BY <2>2, <2>4, PageFacts
    <2>6. /\ item.id = id /\ item.groups = BoundTo(id)
          /\ item \in [id : Ids, groups : SUBSET Groups]
        BY <2>1 DEF BoundTo
    <2>7. shown \in SUBSET [id : Ids, groups : SUBSET Groups]
        BY <2>2, <2>6, PageFacts
    <2>8. \/ item.groups \in {content.groups : content \in FormContents}
          \/ item.groups = {} /\ ~ Exists(item.id)
        BY <2>6 DEF UnitInv, RegistryInv, Tables, BindingsAreWhole
    <2>9. ASSUME NEW listed \in shown
          PROVE  /\ listed.id \in born
                 /\ \/ listed.groups \in {content.groups : content \in FormContents}
                    \/ listed.groups = {} /\ ~ Exists(listed.id)
        BY <2>2, <2>5, <2>6, <2>8, PageFacts
    <2>10. QED
        BY <2>3, <2>4, <2>5, <2>7, <2>9, OnePage
<1>4. QED
    BY <1>1, <1>2, <1>3

-----------------------------------------------------------------------------
(* The invariant holds *)

LEMMA UnitInit == Init => UnitInv
<1> SUFFICES ASSUME Init PROVE UnitInv
    OBVIOUS
<1>1. PICK idle \in Answers : req = [r \in Slots |-> idle]
    BY DEF Init, Answers
<1>2. /\ \A r \in Slots : req[r] = idle
      /\ idle \in Requesting /\ idle.at = "idle" /\ idle.op = "none" /\ idle.bound = 0
      /\ idle.gone = {} /\ idle.groups = <<>>
    BY <1>1, AnswersType
<1>3. /\ \A id \in Ids : ~ Exists(id) /\ BoundTo(id) = {}
      /\ units \in [Ids -> Rows \cup {None}]
    BY DEF Init, Exists, BoundTo
<1>4. RegistryInv
    <2>1. Tables
        BY <1>3 DEF Init, Tables
    <2>2. PageTypes /\ \A d \in Readers : Listed(d)
        BY DEF Init, PageTypes, Listed
    <2>3. QED
        BY <1>3, <2>1, <2>2 DEF RegistryInv, BindingsAreWhole, SlugsDiffer
<1>5. Numbering
    <2>1. Pending = {}
        BY <1>2 DEF Pending
    <2>2. QED
        BY <2>1, FS_EmptySet, UnitAssumption DEF Numbering, Init
<1>6. req \in [Slots -> Requesting]
    BY <1>1, <1>2
<1>7. \A r \in Slots : SlotTypes(r) /\ Holds(r) /\ Remembers(r)
    BY <1>2, EmptySeq DEF SlotTypes, Holds, Remembers, InTx
<1>8. \A r, q \in Slots : r # q => Apart(r, q)
    BY <1>2 DEF Apart, InTx
<1>9. QED
    BY <1>4, <1>5, <1>6, <1>7, <1>8 DEF UnitInv, SlotsInv

\* Every way a request ends with a change of the tables.
LEMMA ChangesInv ==
    ASSUME UnitInv, NEW r \in Slots,
           Commit(r) \/ CommitUnheard(r) \/ DeleteUnit(r) \/ DeleteUnheard(r)
    PROVE  UnitInv'
<1>1. Answered(303, "none") \in Answers /\ Answered(500, "fault") \in Answers
    BY DEF Answers
<1>2. PICK answer, cause : Answered(answer, cause) \in Answers /\ Took(r, answer, cause)
    BY <1>1 DEF Commit, CommitUnheard, DeleteUnit, DeleteUnheard
<1>3. CASE Commit(r) \/ CommitUnheard(r)
    BY <1>2, <1>3, CommittedInv DEF Commit, CommitUnheard
<1>4. CASE DeleteUnit(r) \/ DeleteUnheard(r)
    BY <1>2, <1>4, RemovedInv DEF DeleteUnit, DeleteUnheard
<1>5. QED
    BY <1>3, <1>4

LEMMA UnitStep == UnitInv /\ [Next]_vars => UnitInv'
<1> SUFFICES ASSUME UnitInv, [Next]_vars PROVE UnitInv'
    OBVIOUS
<1>1. CASE UNCHANGED vars
    <2>1. UNCHANGED <<tables, req>> /\ page' = page
        BY <1>1 DEF vars, tables
    <2>2. PageTypes' /\ \A d \in Readers : Listed(d)'
        BY <2>1 DEF UnitInv, RegistryInv, PageTypes, Listed, FormContents, tables, Exists
    <2>3. QED
        BY <2>1, <2>2, PageStep
<1>2. ASSUME NEW r \in Slots,
             \/ \E form \in Forms : PostCreate(r, form)
             \/ \E id \in Ids, form \in Forms : PostUpdate(r, id, form)
             \/ \E id \in Ids : PostDelete(r, id)
      PROVE  UnitInv'
    BY <1>2, PostCreateInv, PostUpdateInv, PostDeleteInv
<1>3. ASSUME NEW r \in Slots, Proceed(r) PROVE UnitInv'
    BY <1>3, CheckSlugInv, CreateUnitInv, ReadExistingInv, UpdateUnitInv,
       DeleteUnitGroupBindingsInv, InsertUnitGroupBindingInv, ChangesInv DEF Proceed
<1>4. ASSUME NEW r \in Slots, Fault(r) \/ CommitUnheard(r) \/ DeleteUnheard(r) PROVE UnitInv'
    BY <1>4, FaultInv, ChangesInv
<1>5. ASSUME NEW d \in Readers,
             \/ AdminListUnits(d)
             \/ \E id \in Ids : AdminEditUnit(d, id) \/ GetUnitGroupBindings(d, id)
      PROVE  UnitInv'
    BY <1>5, PagesInv
<1>6. QED
    BY <1>1, <1>2, <1>3, <1>4, <1>5 DEF Next

LEMMA UnitInvariance == Spec => []UnitInv
BY UnitInit, UnitStep, PTL DEF Spec

-----------------------------------------------------------------------------
(* The theorems *)

\* The tables, the requests and the pages only hold what they are declared
\* to hold, and the sequence never runs out of ids.
THEOREM UnitTypeCorrect == Spec => []TypeOK
<1>1. UnitInv => TypeOK
    <2> SUFFICES ASSUME UnitInv PROVE TypeOK
        OBVIOUS
    <2>1. lastId \in 0 .. MaxUnits /\ born \subseteq Ids
        BY NumbersSuffice
    <2>2. units \in [Ids -> Rows \cup {None}] /\ unit_group_bindings \subseteq Ids \X Groups
        BY DEF UnitInv, RegistryInv, Tables
    <2>3. ASSUME NEW r \in Slots
          PROVE  /\ req[r].at \in {"idle", "check", "insert", "existing", "update", "clear",
                                   "bind", "remove"}
                 /\ req[r].at \in {"existing", "update", "clear", "bind", "remove"}
                        => req[r].id \in Ids
                 /\ Range(req[r].groups) \subseteq Groups
                 /\ req[r].bound \in 0 .. Len(req[r].groups)
                 /\ req[r].gone \subseteq Groups
        <3>1. req[r] \in Requesting /\ SlotTypes(r)
            BY SlotFacts
        <3>2. PICK groups \in Seq(Groups), bound \in Nat :
                groups = req[r].groups /\ bound = req[r].bound
            BY <3>1 DEF Requesting
        <3>3. /\ DOMAIN groups = 1 .. Len(groups) /\ Len(groups) \in Nat
              /\ \A i \in 1 .. Len(groups) : groups[i] \in Groups
            BY LenProperties, ElementOfSeq
        <3>4. Range(groups) \subseteq Groups
            BY <3>3 DEF Range
        <3>5. bound <= Len(groups)
            BY <3>1, <3>2 DEF SlotTypes
        <3>6. /\ req[r].at \in {"idle", "check", "insert", "existing", "update", "clear",
                                "bind", "remove"}
              /\ req[r].gone \subseteq Groups
            BY <3>1 DEF Requesting
        <3>7. req[r].at \in {"existing", "update", "clear", "bind", "remove"}
                => req[r].id \in Ids
            BY <3>1 DEF SlotTypes
        <3>8. QED
            BY <3>2, <3>3, <3>4, <3>5, <3>6, <3>7
    <2>4. ASSUME NEW d \in Readers
          PROVE  /\ page[d].todo \subseteq Ids
                 /\ page[d].shown \subseteq [id : Ids, groups : SUBSET Groups]
        BY PageFacts
    <2>5. QED
        BY <2>1, <2>2, <2>3, <2>4 DEF TypeOK
<1>2. QED
    BY <1>1, UnitInvariance, PTL

\* A page never shows a binding set that was only half replaced.
THEOREM PagesWhole == Spec => []PagesShowWholeForms
<1>1. UnitInv => PagesShowWholeForms
    BY PageFacts DEF PagesShowWholeForms
<1>2. QED
    BY <1>1, UnitInvariance, PTL

\* The insert of a group fails only on a row that the transaction has not
\* cleared: never, for what its locks hold.
LEMMA NoDuplicate ==
    ASSUME UnitInv, NEW r \in Slots, req[r].at = "bind", req[r].bound < Len(req[r].groups)
    PROVE  req[r].groups[req[r].bound + 1] \notin
                (BoundTo(req[r].id) \ req[r].gone) \cup Inserted(r)
<1>1. PICK c \in Requesting : c = req[r]
    BY SlotFacts
<1>2. /\ c.op \in {"create", "update"} /\ c.form \in Forms /\ c.id \in Ids
      /\ c.groups = parseGroupBindings(c.form.parts) /\ Holds(r)
    BY <1>1, SlotFacts DEF SlotTypes
<1>3. BoundTo(c.id) \ c.gone = {}
    <2>1. CASE c.op = "update"
        BY <1>1, <1>2, <2>1 DEF Holds
    <2>2. CASE c.op = "create"
        <3>1. c.id \notin born
            BY <1>1, <1>2, <2>2 DEF Holds, InTx
        <3>2. BoundTo(c.id) = {}
            BY <1>2, <3>1 DEF UnitInv, RegistryInv, Tables
        <3>3. QED
            BY <3>2
    <2>3. QED
        BY <1>2, <2>1, <2>2
<1>4. PICK groups \in Seq(Groups), bound \in Nat :
        groups = c.groups /\ bound = c.bound /\ IsInjective(groups)
    <2>1. c.groups \in Seq(Groups) /\ IsInjective(c.groups)
        BY <1>2, GroupsOf
    <2>2. c.bound \in Nat
        BY DEF Requesting
    <2>3. QED
        BY <2>1, <2>2
<1>5. bound < Len(groups) /\ DOMAIN groups = 1 .. Len(groups) /\ Len(groups) \in Nat
    BY <1>1, <1>4, LenProperties
<1>6. ASSUME NEW i \in 1 .. bound PROVE groups[i] # groups[bound + 1]
    <2>1. i \in DOMAIN groups /\ bound + 1 \in DOMAIN groups /\ i # bound + 1
        BY <1>4, <1>5
    <2>2. QED
        BY <1>4, <2>1 DEF IsInjective
<1>7. groups[bound + 1] \notin Inserted(r)
    BY <1>1, <1>4, <1>6 DEF Inserted
<1>8. QED
    BY <1>1, <1>3, <1>4, <1>7

LEMMA FailureStep ==
    ASSUME UnitInv, [Next]_vars, NEW r \in Slots,
           req'[r].cause = "conflict", req[r].cause # "conflict"
    PROVE  req[r].raced
<1>1. req[r] \in Requesting /\ Remembers(r)
    BY SlotFacts
<1>2. ASSUME NEW p \in Slots, NEW next, req' = [req EXCEPT ![p] = next],
             next.cause = "conflict" =>
                \/ next = Answered(500, "conflict") /\ req[p].raced
                \/ next.cause = req[p].cause
      PROVE  req[r].raced
    <2>1. CASE p = r
        BY <1>2, <2>1, SlotFacts
    <2>2. CASE p # r
        BY <1>2, <2>2, SlotFacts
    <2>3. QED
        BY <2>1, <2>2
<1>3. ASSUME NEW p \in Slots,
             \/ \E form \in Forms : PostCreate(p, form)
             \/ \E id \in Ids, form \in Forms : PostUpdate(p, id, form)
             \/ \E id \in Ids : PostDelete(p, id)
      PROVE  req[r].raced
    <2>1. PICK op, id, form, at : req' = [req EXCEPT ![p] = Started(op, id, form, at)]
        BY <1>3 DEF PostCreate, PostUpdate, PostDelete
    <2>2. Started(op, id, form, at).cause = "none"
        BY DEF Started
    <2>3. QED
        BY <1>2, <2>1, <2>2
<1>4. ASSUME NEW p \in Slots,
             CheckSlug(p) \/ ReadExisting(p) \/ DeleteUnitGroupBindings(p) \/ Fault(p)
      PROVE  req[r].raced
    <2>1. PICK c \in Requesting : c = req[p]
        BY SlotFacts
    <2>2. /\ [c EXCEPT !.at = "insert"].cause = c.cause
          /\ [c EXCEPT !.at = "update"].cause = c.cause
          /\ \A answer : Answered(answer, "none").cause = "none"
          /\ \A answer : Answered(answer, "fault").cause = "fault"
        BY DEF Answered, Requesting
    <2>3. CASE CheckSlug(p)
        <3>1. PICK next : req' = [req EXCEPT ![p] = next] /\ next.cause \in {"none", c.cause}
            BY <2>1, <2>2, <2>3 DEF CheckSlug
        <3>2. QED
            BY <1>2, <2>1, <3>1
    <2>4. CASE ReadExisting(p)
        <3>1. PICK next : req' = [req EXCEPT ![p] = next] /\ next.cause \in {"none", c.cause}
            BY <2>1, <2>2, <2>4 DEF ReadExisting
        <3>2. QED
            BY <1>2, <2>1, <3>1
    <2>5. CASE DeleteUnitGroupBindings(p)
        <3>1. PICK gone \in SUBSET Groups : gone = BoundTo(req[p].id)
            BY DEF BoundTo
        <3>2. PICK next \in Requesting :
                /\ next = [c EXCEPT !.at = "bind", !.gone = gone]
                /\ next.at = "bind" /\ next.op = c.op /\ next.id = c.id /\ next.form = c.form
                /\ next.groups = c.groups /\ next.bound = c.bound /\ next.gone = gone
                /\ next.cause = c.cause
            BY <3>1, ClearedType
        <3>3. req' = [req EXCEPT ![p] = next]
            BY <2>1, <2>5, <3>1, <3>2 DEF DeleteUnitGroupBindings
        <3>4. QED
            BY <1>2, <2>1, <3>2, <3>3
    <2>6. CASE Fault(p)
        <3>1. req' = [req EXCEPT ![p] = Answered(500, "fault")]
            BY <2>6 DEF Fault
        <3>2. QED
            BY <1>2, <2>2, <3>1
    <2>7. QED
        BY <1>4, <2>3, <2>4, <2>5, <2>6
<1>5. ASSUME NEW p \in Slots, CreateUnit(p) \/ UpdateUnit(p) \/ InsertUnitGroupBinding(p)
      PROVE  req[r].raced
    <2>1. PICK c \in Requesting, id \in Nat :
            c = req[p] /\ id = lastId + 1 /\ Remembers(p)
        BY SlotFacts DEF UnitInv, SlotsInv, Numbering
    <2>2. /\ [c EXCEPT !.at = "clear"].cause = c.cause
          /\ [c EXCEPT !.bound = c.bound + 1].cause = c.cause
        BY DEF Requesting
    <2>3. CASE CreateUnit(p)
        <3>1. CASE SlugTaken(req[p].form.slug)
            <4>1. req' = [req EXCEPT ![p] = Answered(500, "conflict")]
                BY <2>3, <3>1 DEF CreateUnit
            <4>2. req[p].raced
                BY <2>1, <2>3, <3>1 DEF CreateUnit, Remembers
            <4>3. QED
                BY <1>2, <4>1, <4>2
        <3>2. CASE ~ SlugTaken(req[p].form.slug)
            <4>1. PICK next :
                    next = [c EXCEPT !.at = "bind", !.id = id] /\ next.cause = c.cause
                BY NumberedType
            <4>2. req' = [req EXCEPT ![p] = next]
                BY <2>1, <2>3, <3>2, <4>1 DEF CreateUnit
            <4>3. QED
                BY <1>2, <2>1, <4>1, <4>2
        <3>3. QED
            BY <3>1, <3>2
    <2>4. CASE UpdateUnit(p)
        <3>1. CASE ~ Exists(req[p].id)
            <4>1. req' = [req EXCEPT ![p] = Answered(500, "conflict")]
                BY <2>4, <3>1 DEF UpdateUnit
            <4>2. req[p].raced
                BY <2>1, <2>4, <3>1 DEF UpdateUnit, Remembers
            <4>3. QED
                BY <1>2, <4>1, <4>2
        <3>2. CASE Exists(req[p].id)
            <4>1. req' = [req EXCEPT ![p] = [c EXCEPT !.at = "clear"]]
                BY <2>1, <2>4, <3>2 DEF UpdateUnit
            <4>2. QED
                BY <1>2, <2>1, <2>2, <4>1
        <3>3. QED
            BY <3>1, <3>2
    <2>5. CASE InsertUnitGroupBinding(p)
        <3>1. req[p].groups[req[p].bound + 1] \notin
                (BoundTo(req[p].id) \ req[p].gone) \cup Inserted(p)
            BY <2>5, NoDuplicate DEF InsertUnitGroupBinding
        <3>2. req' = [req EXCEPT ![p] = [c EXCEPT !.bound = c.bound + 1]]
            BY <2>1, <2>5, <3>1 DEF InsertUnitGroupBinding
        <3>3. QED
            BY <1>2, <2>1, <2>2, <3>2
    <2>6. QED
        BY <1>5, <2>3, <2>4, <2>5
<1>6. ASSUME NEW p \in Slots,
             Commit(p) \/ CommitUnheard(p) \/ DeleteUnit(p) \/ DeleteUnheard(p)
      PROVE  req[r].raced
    <2>1. Answered(303, "none") \in Answers /\ Answered(500, "fault") \in Answers
        BY DEF Answers
    <2>2. PICK answer, cause :
            Answered(answer, cause) \in Answers /\ Took(p, answer, cause) /\ cause # "conflict"
        BY <1>6, <2>1 DEF Commit, CommitUnheard, DeleteUnit, DeleteUnheard
    <2>3. req'[p] = Answered(answer, cause) /\ \A q \in Slots \ {p} : Survives(q)
        BY <2>2, TookFrame
    <2>4. QED
        BY <2>2, <2>3 DEF Survives, Answered
<1>7. CASE req' = req
    BY <1>7
<1>8. ASSUME NEW d \in Readers,
             \/ AdminListUnits(d)
             \/ \E id \in Ids : AdminEditUnit(d, id) \/ GetUnitGroupBindings(d, id)
      PROVE  req' = req
    BY <1>8 DEF AdminListUnits, AdminEditUnit, GetUnitGroupBindings
<1>9. QED
    BY <1>3, <1>4, <1>5, <1>6, <1>7, <1>8 DEF Next, Proceed, vars

\* A request fails without a fault only because it lost a race; the order and
\* the repeats of the groups in its form never make it fail.
THEOREM UnitFailures == Spec => FailuresAreRaces
<1>1. UnitInv /\ [Next]_vars =>
        [\A r \in Slots : req'[r].cause = "conflict" /\ req[r].cause # "conflict"
                          => req[r].raced]_vars
    BY FailureStep
<1>2. QED
    BY <1>1, UnitInvariance, PTL DEF Spec, FailuresAreRaces

-----------------------------------------------------------------------------
(* UnitAdmin implements UnitRegistry *)

\* What a reader of the committed tables finds under each id.
Shown == [id \in Ids |-> Stored(id)]

LEMMA StoredFacts ==
    ASSUME UnitInv, NEW id \in Ids
    PROVE  /\ Exists(id) => Stored(id) # None /\ Stored(id).slug = units[id].slug
           /\ ~ Exists(id) => Stored(id) = None
<1>1. CASE Exists(id)
    <2>1. units[id] \in Rows
        BY <1>1 DEF UnitInv, RegistryInv, Tables, Exists
    <2>2. /\ units[id].slug \in Slugs /\ units[id].info \in {f.info : f \in Forms}
          /\ BoundTo(id) \subseteq Groups
        BY <2>1 DEF Rows, Infos, BoundTo
    <2>3. Stored(id) = [slug |-> units[id].slug, info |-> units[id].info, groups |-> BoundTo(id)]
        BY <1>1 DEF Stored
    <2>4. Stored(id) \in [slug : Slugs, info : {f.info : f \in Forms}, groups : SUBSET Groups]
        BY <2>2, <2>3
    <2>5. Stored(id) # None
        BY <2>4, UnitAssumption
    <2>6. QED
        BY <1>1, <2>3, <2>5
<1>2. CASE ~ Exists(id)
    BY <1>2 DEF Stored
<1>3. QED
    BY <1>1, <1>2

\* What is stored under an id depends on its row and its bindings only.
LEMMA StoredStays ==
    ASSUME NEW id \in Ids, units'[id] = units[id], BoundTo(id)' = BoundTo(id)
    PROVE  Stored(id)' = Stored(id)
BY DEF Stored, Exists

LEMMA ShownChange ==
    ASSUME NEW id \in Ids, NEW content, Stored(id)' = content,
           \A other \in Ids \ {id} : units'[other] = units[other],
           \A other \in Ids \ {id} : BoundTo(other)' = BoundTo(other)
    PROVE  Shown' = [Shown EXCEPT ![id] = content]
<1>1. \A other \in Ids \ {id} : Stored(other)' = Stored(other)
    BY StoredStays
<1>2. QED
    BY <1>1 DEF Shown

LEMMA CommitRefines ==
    ASSUME UnitInv, NEW r \in Slots, ReadyToCommit(r), Applied(r)
    PROVE  Registry!Next
<1>1. PICK id, form, op : id = req[r].id /\ form = req[r].form /\ op = req[r].op
    OBVIOUS
<1>2. PICK groups, slug :
        /\ groups = Range(parseGroupBindings(form.parts))
        /\ slug = IF op = "create" THEN form.slug ELSE units[id].slug
    OBVIOUS
<1>3. /\ op \in {"create", "update"} /\ id \in Ids /\ form \in Forms
      /\ op = "create" => ~ Exists(id) /\ id \notin born /\ ~ SlugTaken(form.slug)
      /\ op = "update" => Exists(id) /\ id \in born
      /\ BoundTo(id)' = groups
      /\ \A other \in Ids \ {id} : BoundTo(other)' = BoundTo(other)
      /\ born' = born \cup {id}
    BY <1>1, <1>2, AppliedFacts
<1>4. PICK row \in Rows :
        /\ units' = [units EXCEPT ![id] = row] /\ row # None
        /\ row.info = form.info /\ row.slug = slug
    BY <1>1, <1>2, AppliedFacts
<1>5. units'[id] = row /\ \A other \in Ids \ {id} : units'[other] = units[other]
    BY <1>3, <1>4 DEF UnitInv, RegistryInv, Tables
<1>6. PICK content : content = [slug |-> form.slug, info |-> form.info, groups |-> groups]
    OBVIOUS
<1>7. content \in FormContents
    BY <1>2, <1>3, <1>6, GroupsOf
<1>8. Stored(id)' = [slug |-> slug, info |-> form.info, groups |-> groups]
    BY <1>3, <1>4, <1>5 DEF Stored, Exists
<1>9. CASE op = "create"
    <2>1. Stored(id)' = content
        BY <1>2, <1>6, <1>8, <1>9
    <2>2. Shown' = [Shown EXCEPT ![id] = content]
        BY <1>3, <1>5, <2>1, ShownChange
    <2>3. ASSUME NEW other \in Ids, Shown[other] # None PROVE Shown[other].slug # content.slug
        BY <1>3, <1>6, <1>9, <2>3, StoredFacts DEF Shown, SlugTaken
    <2>4. Registry!Create(id, content)
        BY <1>3, <1>9, <2>2, <2>3 DEF Registry!Create, Registry!Live, Shown
    <2>5. QED
        BY <1>3, <1>7, <2>4 DEF Registry!Next
<1>10. CASE op = "update"
    <2>1. Exists(id) /\ born' = born /\ slug = units[id].slug
        BY <1>2, <1>3, <1>10
    <2>2. Shown[id] # None /\ Shown[id].slug = slug
        BY <1>3, <2>1, StoredFacts DEF Shown
    <2>3. Stored(id)' = [content EXCEPT !.slug = slug]
        BY <1>6, <1>8
    <2>4. Shown' = [Shown EXCEPT ![id] = [content EXCEPT !.slug = slug]]
        BY <1>3, <1>5, <2>3, ShownChange
    <2>5. Shown' = [Shown EXCEPT ![id] = [content EXCEPT !.slug = Shown[id].slug]]
        BY <2>2, <2>4
    <2>6. Registry!Update(id, content)
        BY <1>3, <2>1, <2>2, <2>5 DEF Registry!Update, Registry!Live, Shown
    <2>7. QED
        BY <1>3, <1>7, <2>6 DEF Registry!Next
<1>11. QED
    BY <1>3, <1>9, <1>10

LEMMA RemovalRefines ==
    ASSUME UnitInv, NEW r \in Slots, req[r].at = "remove", Removed(req[r].id)
    PROVE  Registry!Next
<1>1. PICK id \in Ids : id = req[r].id
    BY SlotFacts DEF SlotTypes
<1>2. /\ units' = [units EXCEPT ![id] = None] /\ born' = born
      /\ unit_group_bindings' = unit_group_bindings \ ({id} \X Groups)
    BY <1>1 DEF Removed
<1>3. units'[id] = None /\ \A other \in Ids \ {id} : units'[other] = units[other]
    BY <1>2 DEF UnitInv, RegistryInv, Tables
<1>4. ASSUME NEW other \in Ids \ {id} PROVE BoundTo(other)' = BoundTo(other)
    BY <1>2 DEF BoundTo
<1>5. Stored(id)' = None
    BY <1>3 DEF Stored, Exists
<1>6. Shown' = [Shown EXCEPT ![id] = None]
    BY <1>3, <1>4, <1>5, ShownChange
<1>7. Registry!Delete(id)
    BY <1>2, <1>6 DEF Registry!Delete, Shown
<1>8. QED
    BY <1>7 DEF Registry!Next

LEMMA RegistryStep == UnitInv /\ [Next]_vars => [Registry!Next]_(Registry!vars)
<1> SUFFICES ASSUME UnitInv, [Next]_vars PROVE Registry!Next \/ UNCHANGED Registry!vars
    OBVIOUS
<1>1. ASSUME UNCHANGED <<units, unit_group_bindings, born>> PROVE UNCHANGED Registry!vars
    BY <1>1 DEF Registry!vars, Stored, Exists, BoundTo
<1>2. ASSUME NEW r \in Slots, Commit(r) \/ CommitUnheard(r) PROVE Registry!Next
    BY <1>2, CommitRefines DEF Commit, CommitUnheard
<1>3. ASSUME NEW r \in Slots, DeleteUnit(r) \/ DeleteUnheard(r) PROVE Registry!Next
    BY <1>3, RemovalRefines DEF DeleteUnit, DeleteUnheard
<1>4. ASSUME NEW r \in Slots,
             \/ \E form \in Forms : PostCreate(r, form)
             \/ \E id \in Ids, form \in Forms : PostUpdate(r, id, form)
             \/ \E id \in Ids : PostDelete(r, id)
             \/ CheckSlug(r) \/ CreateUnit(r) \/ ReadExisting(r) \/ UpdateUnit(r)
             \/ DeleteUnitGroupBindings(r) \/ InsertUnitGroupBinding(r) \/ Fault(r)
      PROVE  UNCHANGED <<units, unit_group_bindings, born>>
    BY <1>4 DEF PostCreate, PostUpdate, PostDelete, CheckSlug, CreateUnit, ReadExisting,
                UpdateUnit, DeleteUnitGroupBindings, InsertUnitGroupBinding, Fault, tables
<1>5. ASSUME NEW d \in Readers,
             \/ AdminListUnits(d)
             \/ \E id \in Ids : AdminEditUnit(d, id) \/ GetUnitGroupBindings(d, id)
      PROVE  UNCHANGED <<units, unit_group_bindings, born>>
    BY <1>5 DEF AdminListUnits, AdminEditUnit, GetUnitGroupBindings, tables
<1>6. CASE UNCHANGED vars
    BY <1>1, <1>6 DEF vars
<1>7. QED
    BY <1>1, <1>2, <1>3, <1>4, <1>5, <1>6 DEF Next, Proceed

\* The transactions behind the admins' pages act as single steps of a
\* registry: what is committed is always whole forms under distinct slugs.
THEOREM Refinement == Spec => ImplementsRegistry
<1>1. Init => Registry!Init
    BY DEF Init, Registry!Init, Stored, Exists
<1>2. UnitInv /\ [Next]_vars => [Registry!Next]_(Registry!vars)
    BY RegistryStep
<1>3. QED
    BY <1>1, <1>2, UnitInvariance, PTL DEF Spec, ImplementsRegistry, Registry!Spec

=============================================================================
