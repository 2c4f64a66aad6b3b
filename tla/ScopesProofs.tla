----------------------------- MODULE ScopesProofs -----------------------------
(***************************************************************************)
(* What is proved of the scopes, for any tenants, namespaces, records and  *)
(* names: the shared index, graph and bucket hold a memory per scope, and  *)
(* every read answers as that memory alone would.                          *)
(***************************************************************************)
EXTENDS ScopedAdapters, NaturalsInduction, FiniteSetTheorems, SequenceTheorems, TLAPS

(***************************************************************************)
(* Names of different scopes are different.                                *)
(***************************************************************************)

LEMMA DefaultIsScope == Default \in Scope
BY ScopeAssumption DEF Default

\* Sequences that start equally long and are equal are equal part by part.
LEMMA Parted ==
    ASSUME NEW p \in Seq(Parts), NEW q \in Seq(Parts), NEW k \in Seq(Parts), NEW l \in Seq(Parts),
           Len(p) = Len(q), p \o k = q \o l
    PROVE  p = q /\ k = l
<1>1. Len(p) \in Nat /\ Len(k) \in Nat /\ Len(l) \in Nat
  OBVIOUS
<1>2. /\ Len(p \o k) = Len(p) + Len(k)
      /\ \A i \in 1..Len(p) + Len(k) : (p \o k)[i] = IF i <= Len(p) THEN p[i] ELSE k[i - Len(p)]
  BY ConcatProperties
<1>3. /\ Len(q \o l) = Len(q) + Len(l)
      /\ \A i \in 1..Len(q) + Len(l) : (q \o l)[i] = IF i <= Len(q) THEN q[i] ELSE l[i - Len(q)]
  BY ConcatProperties
<1>4. Len(k) = Len(l)
  BY <1>1, <1>2, <1>3
<1>5. ASSUME NEW i \in 1..Len(p) PROVE p[i] = q[i]
  <2>1. i \in 1..Len(p) + Len(k) /\ i \in 1..Len(q) + Len(l) /\ i <= Len(p) /\ i <= Len(q)
    BY <1>1, <1>4
  <2>. QED
    BY <1>2, <1>3, <2>1
<1>6. ASSUME NEW i \in 1..Len(k) PROVE k[i] = l[i]
  <2>. DEFINE j == Len(p) + i
  <2>1. /\ j \in 1..Len(p) + Len(k) /\ j \in 1..Len(q) + Len(l) /\ ~(j <= Len(p)) /\ ~(j <= Len(q))
        /\ j - Len(p) = i /\ j - Len(q) = i
    BY <1>1, <1>4
  <2>. HIDE DEF j
  <2>. QED
    BY <1>2, <1>3, <2>1
<1>. QED
  BY <1>4, <1>5, <1>6, SeqEqual

LEMMA ScopeParts ==
    ASSUME NEW sc \in Scope
    PROVE  /\ sc = [tenant |-> sc.tenant, namespace |-> sc.namespace]
           /\ sc.tenant \in Parts
           /\ sc.namespace # Root => sc.namespace \in Parts
BY ScopeAssumption

\* What two scopes mint is never the same, and one scope mints nothing twice.
LEMMA MintedApart ==
    ASSUME NEW s \in Scope, NEW t \in Scope, NEW a, NEW b, Minted(s, a) = Minted(t, b)
    PROVE  s = t /\ a = b
<1>1. /\ Len(<<a>>) = 1 /\ Len(<<ScopeKey(s), a>>) = 2
      /\ Len(<<b>>) = 1 /\ Len(<<ScopeKey(t), b>>) = 2
  OBVIOUS
<1>2. /\ Len(<<s.tenant>>) = 1 /\ Len(<<s.tenant, s.namespace>>) = 2
      /\ Len(<<t.tenant>>) = 1 /\ Len(<<t.tenant, t.namespace>>) = 2
  OBVIOUS
<1>3. ScopeKey(s) = ScopeKey(t) => s = t
  BY <1>2, ScopeParts DEF ScopeKey
<1>4. CASE s = Default /\ t = Default
  BY <1>4 DEF Minted
<1>5. CASE s # Default /\ t # Default
  BY <1>3, <1>5 DEF Minted
<1>6. CASE s = Default <=> t # Default
  BY <1>1, <1>6 DEF Minted
<1>. QED
  BY <1>4, <1>5, <1>6

LEMMA OwnersApart ==
    ASSUME NEW s \in Scope, NEW t \in Scope, s # t
    PROVE  OwnDocs(s) \cap OwnDocs(t) = {} /\ OwnIds(s) \cap OwnIds(t) = {}
BY MintedApart DEF OwnDocs, OwnIds

LEMMA OwnIsKnown ==
    ASSUME NEW sc \in Scope
    PROVE  OwnDocs(sc) \subseteq DocIds /\ OwnIds(sc) \subseteq EntityIds
BY DEF DocIds, EntityIds

\* what a scope's keys start with in the bucket
Prefix(sc) ==
    IF sc = Default THEN <<>>
    ELSE IF sc.namespace = Root THEN <<Reserved, sc.tenant, RootPart>>
    ELSE <<Reserved, sc.tenant, NamespacePart, sc.namespace>>

LEMMA ShortSequences ==
    ASSUME NEW S, NEW a \in S, NEW b \in S, NEW c \in S
    PROVE  /\ <<>> \in Seq(S) /\ <<a, b, c>> \in Seq(S)
           /\ \A d \in S : <<a, b, c, d>> \in Seq(S)
OBVIOUS

LEMMA PrefixType ==
    ASSUME NEW sc \in Scope, NEW key \in Seq(Parts)
    PROVE  /\ Prefix(sc) \in Seq(Parts)
           /\ ObjectPath(sc, key) = Prefix(sc) \o key
           /\ sc # Default => /\ Len(Prefix(sc)) > 1 /\ Prefix(sc)[1] = Reserved
                              /\ Len(Prefix(sc) \o key) > 1 /\ (Prefix(sc) \o key)[1] = Reserved
<1>1. /\ Reserved \in Parts /\ RootPart \in Parts /\ NamespacePart \in Parts
      /\ sc.tenant \in Parts /\ (sc.namespace # Root => sc.namespace \in Parts)
  BY ScopeAssumption, ScopeParts
<1>2. Prefix(sc) \in Seq(Parts)
  <2>1. <<>> \in Seq(Parts) /\ <<Reserved, sc.tenant, RootPart>> \in Seq(Parts)
    BY <1>1, ShortSequences
  <2>2. sc.namespace # Root =>
            <<Reserved, sc.tenant, NamespacePart, sc.namespace>> \in Seq(Parts)
    BY <1>1, ShortSequences
  <2>. QED
    BY <2>1, <2>2 DEF Prefix
<1>3. ObjectPath(sc, key) = Prefix(sc) \o key
  BY DEF ObjectPath, Prefix
<1>4. ASSUME sc # Default
      PROVE  Len(Prefix(sc)) > 1 /\ Prefix(sc)[1] = Reserved
  BY <1>4 DEF Prefix
<1>5. ASSUME sc # Default
      PROVE  Len(Prefix(sc) \o key) > 1 /\ (Prefix(sc) \o key)[1] = Reserved
  BY <1>2, <1>4, <1>5
<1>. QED
  BY <1>2, <1>3, <1>4, <1>5

\* No two scopes have the same path, and no scope has a path for two keys.
LEMMA PathsApart ==
    ASSUME NEW s \in Scope, NEW t \in Scope, NEW k \in Keys, NEW l \in Keys,
           MayName(s, k), MayName(t, l), ObjectPath(s, k) = ObjectPath(t, l)
    PROVE  s = t /\ k = l
<1>1. k \in Seq(Parts) /\ l \in Seq(Parts)
  BY AdapterAssumption
<1>2. /\ Prefix(s) \in Seq(Parts) /\ Prefix(t) \in Seq(Parts)
      /\ Prefix(s) \o k = Prefix(t) \o l
  BY <1>1, PrefixType
<1>3. CASE s = Default /\ t = Default
  BY <1>3 DEF ObjectPath
<1>4. CASE s = Default /\ t # Default
  <2>1. ObjectPath(s, k) = k /\ Len(ObjectPath(t, l)) > 1 /\ ObjectPath(t, l)[1] = Reserved
    BY <1>1, <1>4, PrefixType DEF ObjectPath
  <2>. QED
    BY <1>4, <2>1 DEF MayName
<1>5. CASE s # Default /\ t = Default
  <2>1. ObjectPath(t, l) = l /\ Len(ObjectPath(s, k)) > 1 /\ ObjectPath(s, k)[1] = Reserved
    BY <1>1, <1>5, PrefixType DEF ObjectPath
  <2>. QED
    BY <1>5, <2>1 DEF MayName
<1>6. CASE s # Default /\ t # Default
  <2>1. Len(Prefix(s)) \in {3, 4} /\ Len(Prefix(t)) \in {3, 4}
    BY <1>6 DEF Prefix
  <2>2. (Prefix(s) \o k)[3] = Prefix(s)[3] /\ (Prefix(t) \o l)[3] = Prefix(t)[3]
    BY <1>1, <1>2, <2>1
  <2>3. /\ s.namespace = Root => Prefix(s)[3] = RootPart /\ Len(Prefix(s)) = 3
        /\ s.namespace # Root => Prefix(s)[3] = NamespacePart /\ Len(Prefix(s)) = 4
        /\ t.namespace = Root => Prefix(t)[3] = RootPart /\ Len(Prefix(t)) = 3
        /\ t.namespace # Root => Prefix(t)[3] = NamespacePart /\ Len(Prefix(t)) = 4
    BY <1>6 DEF Prefix
  <2>4. RootPart # NamespacePart
    BY ScopeAssumption
  <2>5. Len(Prefix(s)) = Len(Prefix(t)) /\ (s.namespace = Root <=> t.namespace = Root)
    BY <1>2, <2>2, <2>3, <2>4
  <2>6. Prefix(s) = Prefix(t) /\ k = l
    <3>. DEFINE p == Prefix(s)
                q == Prefix(t)
    <3>1. p \in Seq(Parts) /\ q \in Seq(Parts) /\ Len(p) = Len(q) /\ p \o k = q \o l
      BY <1>2, <2>5
    <3>. HIDE DEF p, q
    <3>2. p = q /\ k = l
      BY <1>1, <3>1, Parted
    <3>. QED
      BY <3>2 DEF p, q
  <2>7. s.tenant = t.tenant /\ s.namespace = t.namespace
    BY <1>6, <2>5, <2>6 DEF Prefix
  <2>. QED
    BY <2>6, <2>7, ScopeParts
<1>. QED
  BY <1>3, <1>4, <1>5, <1>6

(***************************************************************************)
(* The inductive invariant: what is stored is whole and carries its scope. *)
(***************************************************************************)

AllOrNone(nested) ==
    \/ \A i \in DOMAIN nested : nested[i] # NoVector
    \/ \A i \in DOMAIN nested : nested[i] = NoVector

StoresTyped ==
    /\ bucket = [p \in Paths |-> bucket[p]]
    /\ documentIndex \in [DocIds -> DocumentSources \cup {Nothing}]
    /\ entityIndex \in [EntityIds -> EntitySources \cup {Nothing}]
    /\ graph \in [EntityIds -> NodeSources \cup {Nothing}]

VectorsAreWhole ==
    \A i \in DocIds : documentIndex[i] # Nothing => AllOrNone(documentIndex[i].nested)

NamesAreIndexed ==
    \A i \in EntityIds : entityIndex[i] # Nothing =>
        /\ entityIndex[i].normalizedName = Normalized[entityIndex[i].name]
        /\ entityIndex[i].aliasesNormalized = {Normalized[a] : a \in entityIndex[i].aliases}

\* what is stored under a scope's id is that scope's
OwnersAreKept ==
    \A sc \in Scope :
        /\ \A i \in OwnDocs(sc) : documentIndex[i] # Nothing => InScope(documentIndex[i], sc)
        /\ \A i \in OwnIds(sc) : entityIndex[i] # Nothing => InScope(entityIndex[i], sc)
        /\ \A i \in OwnIds(sc) : graph[i] # Nothing => InScope(graph[i], sc)

EdgesAreOwned ==
    \A x \in relations : \E sc \in Scope :
        {x.subject, x.object} \subseteq Nodes(sc) /\ x.doc \in OwnDocs(sc)

ScopesInv ==
    /\ StoresTyped
    /\ VectorsAreWhole
    /\ NamesAreIndexed
    /\ OwnersAreKept
    /\ EdgesAreOwned

\* A source carries one scope, and the filter of a query lets through what it is about.
LEMMA ScopeOfSource ==
    ASSUME NEW sc \in Scope, NEW source, source.scope \in Scope \cup {NoField}
    PROVE  /\ source.scope \in ScopeFilter(sc) <=> InScope(source, sc)
           /\ \A t \in Scope : InScope(source, sc) /\ InScope(source, t) => sc = t
<1>1. NoField \notin Scope /\ Default \in Scope
  BY AdapterAssumption, DefaultIsScope
<1>. QED
  BY <1>1 DEF ScopeFilter, InScope

\* Fetching by id and searching by filter find the same: what the scope's ids name.
LEMMA OwnIsFound ==
    ASSUME ScopesInv, NEW sc \in Scope
    PROVE  /\ \A i \in DocIds : Fetched(documentIndex, i, sc) <=>
                                    i \in OwnDocs(sc) /\ documentIndex[i] # Nothing
           /\ \A i \in EntityIds : Fetched(entityIndex, i, sc) <=>
                                    i \in OwnIds(sc) /\ entityIndex[i] # Nothing
           /\ Hits(documentIndex, sc) = {i \in OwnDocs(sc) : documentIndex[i] # Nothing}
           /\ Hits(entityIndex, sc) = {i \in OwnIds(sc) : entityIndex[i] # Nothing}
           /\ Nodes(sc) = {i \in OwnIds(sc) : graph[i] # Nothing}
<1>1. /\ \A i \in DocIds : documentIndex[i] # Nothing => documentIndex[i].scope \in Scope \cup {NoField}
      /\ \A i \in EntityIds : entityIndex[i] # Nothing => entityIndex[i].scope \in Scope \cup {NoField}
      /\ \A i \in EntityIds : graph[i] # Nothing => graph[i].scope \in Scope \cup {NoField}
      /\ DOMAIN documentIndex = DocIds /\ DOMAIN entityIndex = EntityIds
  BY DEF ScopesInv, StoresTyped, DocumentSources, EntitySources, NodeSources
<1>2. OwnDocs(sc) \subseteq DocIds /\ OwnIds(sc) \subseteq EntityIds
  BY OwnIsKnown
<1>3. ASSUME NEW i \in DocIds, documentIndex[i] # Nothing
      PROVE  InScope(documentIndex[i], sc) <=> i \in OwnDocs(sc)
  <2>1. PICK t \in Scope : i \in OwnDocs(t)
    BY DEF DocIds
  <2>2. InScope(documentIndex[i], t)
    BY <1>3, <2>1 DEF ScopesInv, OwnersAreKept
  <2>3. i \in OwnDocs(sc) => InScope(documentIndex[i], sc)
    BY <1>3 DEF ScopesInv, OwnersAreKept
  <2>4. InScope(documentIndex[i], sc) => sc = t
    BY <1>1, <1>3, <2>2, ScopeOfSource
  <2>. QED
    BY <2>1, <2>3, <2>4
<1>4. ASSUME NEW i \in EntityIds
      PROVE  /\ entityIndex[i] # Nothing => (InScope(entityIndex[i], sc) <=> i \in OwnIds(sc))
             /\ graph[i] # Nothing => (InScope(graph[i], sc) <=> i \in OwnIds(sc))
  <2>1. PICK t \in Scope : i \in OwnIds(t)
    BY DEF EntityIds
  <2>2. /\ entityIndex[i] # Nothing => InScope(entityIndex[i], t)
        /\ graph[i] # Nothing => InScope(graph[i], t)
    BY <2>1 DEF ScopesInv, OwnersAreKept
  <2>3. /\ i \in OwnIds(sc) /\ entityIndex[i] # Nothing => InScope(entityIndex[i], sc)
        /\ i \in OwnIds(sc) /\ graph[i] # Nothing => InScope(graph[i], sc)
    BY DEF ScopesInv, OwnersAreKept
  <2>4. /\ entityIndex[i] # Nothing /\ InScope(entityIndex[i], sc) => sc = t
        /\ graph[i] # Nothing /\ InScope(graph[i], sc) => sc = t
    BY <1>1, <2>2, ScopeOfSource
  <2>. QED
    BY <2>1, <2>3, <2>4
<1>5. /\ \A i \in DocIds : documentIndex[i] # Nothing =>
            (documentIndex[i].scope \in ScopeFilter(sc) <=> InScope(documentIndex[i], sc))
      /\ \A i \in EntityIds : entityIndex[i] # Nothing =>
            (entityIndex[i].scope \in ScopeFilter(sc) <=> InScope(entityIndex[i], sc))
  BY <1>1, ScopeOfSource
<1>6. /\ \A i \in DocIds : Fetched(documentIndex, i, sc) <=>
                               i \in OwnDocs(sc) /\ documentIndex[i] # Nothing
      /\ \A i \in EntityIds : Fetched(entityIndex, i, sc) <=>
                               i \in OwnIds(sc) /\ entityIndex[i] # Nothing
  BY <1>3, <1>4 DEF Fetched
<1>7. /\ Hits(documentIndex, sc) = {i \in OwnDocs(sc) : documentIndex[i] # Nothing}
      /\ Hits(entityIndex, sc) = {i \in OwnIds(sc) : entityIndex[i] # Nothing}
  BY <1>1, <1>2, <1>3, <1>4, <1>5 DEF Hits
<1>8. Nodes(sc) = {i \in OwnIds(sc) : graph[i] # Nothing}
  BY <1>2, <1>4 DEF Nodes
<1>. QED
  BY <1>6, <1>7, <1>8

\* Merged and taken apart again, vectors are the ones they were.
LEMMA NestedType ==
    ASSUME NEW r, r.sentences \in Nat, r.vectors \in Seq(Int \ {NoVector}), Vectors(r)
    PROVE  /\ Nested(r) \in Seq(Int \cup {NoVector}) /\ Len(Nested(r)) = r.sentences
           /\ AllOrNone(Nested(r))
           /\ r.vectors = IF \A i \in DOMAIN Nested(r) : Nested(r)[i] # NoVector
                          THEN Nested(r) ELSE <<>>
<1>. DEFINE n == Nested(r)
<1>1. DOMAIN r.vectors = 1..Len(r.vectors) /\ Len(r.vectors) \in Nat
  OBVIOUS
<1>2. n = [i \in 1..r.sentences |-> IF i \in DOMAIN r.vectors THEN r.vectors[i] ELSE NoVector]
  BY DEF Nested
<1>. HIDE DEF n
<1>3. n \in Seq(Int \cup {NoVector}) /\ DOMAIN n = 1..r.sentences /\ Len(n) = r.sentences
  <2>1. \A i \in 1..r.sentences : n[i] \in Int \cup {NoVector}
    BY <1>1, <1>2
  <2>. QED
    BY <1>2, <2>1
<1>4. CASE r.vectors = <<>>
  <2>1. \A i \in DOMAIN n : n[i] = NoVector
    BY <1>1, <1>2, <1>4
  <2>2. CASE r.sentences = 0
    <3>1. n = <<>>
      BY <1>3, <2>2
    <3>. QED
      BY <1>3, <1>4, <2>1, <3>1 DEF AllOrNone, n
  <2>3. CASE r.sentences # 0
    <3>1. 1 \in DOMAIN n
      BY <1>3, <2>3
    <3>2. ~(\A i \in DOMAIN n : n[i] # NoVector)
      BY <2>1, <3>1
    <3>. QED
      BY <1>3, <1>4, <2>1, <3>2 DEF AllOrNone, n
  <2>. QED
    BY <2>2, <2>3
<1>5. CASE Len(r.vectors) = r.sentences
  <2>1. \A i \in DOMAIN n : n[i] = r.vectors[i] /\ n[i] # NoVector
    BY <1>1, <1>2, <1>3, <1>5
  <2>2. n = r.vectors
    BY <1>1, <1>2, <1>3, <1>5, <2>1
  <2>. QED
    BY <1>3, <2>1, <2>2 DEF AllOrNone, n
<1>. QED
  BY <1>4, <1>5 DEF Vectors

\* What is written is whole and the writer's.
LEMMA DocumentSourceType ==
    ASSUME NEW sc \in Scope, NEW r \in Records
    PROVE  /\ DocumentSource(r, sc) \in DocumentSources
           /\ AllOrNone(DocumentSource(r, sc).nested)
           /\ InScope(DocumentSource(r, sc), sc)
           /\ ToRecord(DocumentSource(r, sc)) = Memory!Stored(r, sc)
<1>1. /\ r.mentions \subseteq Mentionable /\ r.sentences \in Nat
      /\ r.vectors \in Seq(Int \ {NoVector}) /\ Vectors(r) /\ NoField \notin Scope
  BY AdapterAssumption
<1>2. /\ Nested(r) \in Seq(Int \cup {NoVector}) /\ Len(Nested(r)) = r.sentences
      /\ AllOrNone(Nested(r))
      /\ r.vectors = IF \A i \in DOMAIN Nested(r) : Nested(r)[i] # NoVector
                     THEN Nested(r) ELSE <<>>
  BY <1>1, NestedType
<1>. DEFINE links == {Minted(sc, m) : m \in r.mentions}
<1>3. links \in SUBSET EntityIds
  BY <1>1 DEF EntityIds, OwnIds
<1>4. DocumentSource(r, sc) = [scope |-> sc, links |-> links, nested |-> Nested(r)]
  BY DEF DocumentSource
<1>5. Memory!Stored(r, sc) = [links |-> links, sentences |-> r.sentences, vectors |-> r.vectors]
  BY DEF Memory!Stored, Memory!Minted, Memory!ScopeKey, Memory!Default, Minted, ScopeKey, Default
<1>. HIDE DEF links
<1>6. DocumentSource(r, sc) \in DocumentSources
  BY <1>2, <1>3, <1>4 DEF DocumentSources
<1>7. InScope(DocumentSource(r, sc), sc)
  BY <1>1, <1>4 DEF InScope
<1>8. ToRecord(DocumentSource(r, sc)) = Memory!Stored(r, sc)
  BY <1>2, <1>4, <1>5 DEF ToRecord
<1>. QED
  BY <1>2, <1>4, <1>6, <1>7, <1>8

LEMMA EntitySourceType ==
    ASSUME NEW sc \in Scope, NEW p \in Entity
    PROVE  /\ EntitySource(p, sc) \in EntitySources
           /\ EntitySource(p, sc).normalizedName = Normalized[EntitySource(p, sc).name]
           /\ EntitySource(p, sc).aliasesNormalized =
                    {Normalized[a] : a \in EntitySource(p, sc).aliases}
           /\ InScope(EntitySource(p, sc), sc)
           /\ ToEntity(EntitySource(p, sc)) = p
<1>1. p = [type |-> p.type, name |-> p.name, aliases |-> p.aliases, vector |-> p.vector]
  BY DEF Entity
<1>2. EntitySource(p, sc) \in EntitySources
  BY DEF EntitySource, EntitySources, Entity
<1>3. ToEntity(EntitySource(p, sc)) = p
  BY <1>1 DEF EntitySource, ToEntity
<1>. QED
  BY <1>2, <1>3, AdapterAssumption DEF EntitySource, InScope

\* What is older than scopes is whole too, and the default scope's.
LEMMA OlderType ==
    ASSUME Init
    PROVE  /\ bucket = [p \in Paths |-> IF p \in DOMAIN OldObjects THEN OldObjects[p] ELSE Nothing]
           /\ documentIndex = [i \in DocIds |->
                IF i \in DOMAIN OldDocuments
                THEN [scope |-> NoField, links |-> OldDocuments[i].links,
                      nested |-> Nested(OldDocuments[i])]
                ELSE Nothing]
           /\ entityIndex = [i \in EntityIds |->
                IF i \in DOMAIN OldEntities
                THEN [EntitySource(OldEntities[i], Default) EXCEPT !.scope = NoField] ELSE Nothing]
           /\ graph = [i \in EntityIds |->
                IF i \in DOMAIN OldNodes
                THEN [scope |-> NoField, type |-> OldNodes[i].type, name |-> OldNodes[i].name,
                      aliases |-> OldNodes[i].aliases]
                ELSE Nothing]
           /\ relations = OldEdges
BY DEF Init, Older

LEMMA OldDocumentType ==
    ASSUME NEW i \in DOMAIN OldDocuments
    PROVE  LET r == OldDocuments[i]
               source == [scope |-> NoField, links |-> r.links, nested |-> Nested(r)]
           IN  /\ source \in DocumentSources /\ AllOrNone(source.nested)
               /\ InScope(source, Default) /\ ToRecord(source) = r /\ source # Nothing
<1>. DEFINE r == OldDocuments[i]
            source == [scope |-> NoField, links |-> r.links, nested |-> Nested(r)]
<1>1. r \in Document /\ Vectors(r) /\ Nothing \notin DocumentSources
  BY AdapterAssumption
<1>. HIDE DEF r
<1>2. /\ r = [links |-> r.links, sentences |-> r.sentences, vectors |-> r.vectors]
      /\ r.links \subseteq EntityIds /\ r.sentences \in Nat /\ r.vectors \in Seq(Int \ {NoVector})
  BY <1>1 DEF Document
<1>3. /\ Nested(r) \in Seq(Int \cup {NoVector}) /\ Len(Nested(r)) = r.sentences
      /\ AllOrNone(Nested(r))
      /\ r.vectors = IF \A j \in DOMAIN Nested(r) : Nested(r)[j] # NoVector
                     THEN Nested(r) ELSE <<>>
  BY <1>1, <1>2, NestedType
<1>4. source \in DocumentSources
  BY <1>2, <1>3 DEF DocumentSources
<1>5. ToRecord(source) = r
  BY <1>2, <1>3 DEF ToRecord
<1>6. InScope(source, Default) /\ source # Nothing
  BY <1>1, <1>4 DEF InScope
<1>. QED
  BY <1>3, <1>4, <1>5, <1>6 DEF r

LEMMA OldEntityType ==
    ASSUME NEW i \in DOMAIN OldEntities
    PROVE  LET source == [EntitySource(OldEntities[i], Default) EXCEPT !.scope = NoField]
           IN  /\ source \in EntitySources
               /\ source.normalizedName = Normalized[source.name]
               /\ source.aliasesNormalized = {Normalized[a] : a \in source.aliases}
               /\ InScope(source, Default) /\ ToEntity(source) = OldEntities[i]
               /\ source # Nothing
<1>. DEFINE p == OldEntities[i]
            source == [EntitySource(p, Default) EXCEPT !.scope = NoField]
<1>1. p \in Entity /\ Nothing \notin EntitySources
  BY AdapterAssumption
<1>2. /\ EntitySource(p, Default) \in EntitySources
      /\ EntitySource(p, Default).normalizedName = Normalized[EntitySource(p, Default).name]
      /\ EntitySource(p, Default).aliasesNormalized =
            {Normalized[a] : a \in EntitySource(p, Default).aliases}
      /\ ToEntity(EntitySource(p, Default)) = p
  BY <1>1, EntitySourceType, DefaultIsScope
<1>. HIDE DEF p
<1>3. source \in EntitySources /\ source.scope = NoField
  BY <1>2 DEF EntitySources
<1>4. /\ source.type = EntitySource(p, Default).type
      /\ source.name = EntitySource(p, Default).name
      /\ source.aliases = EntitySource(p, Default).aliases
      /\ source.vector = EntitySource(p, Default).vector
      /\ source.normalizedName = EntitySource(p, Default).normalizedName
      /\ source.aliasesNormalized = EntitySource(p, Default).aliasesNormalized
  BY <1>2 DEF EntitySources
<1>. HIDE DEF source
<1>5. ToEntity(source) = p
  BY <1>2, <1>4 DEF ToEntity
<1>6. InScope(source, Default) /\ source # Nothing
  BY <1>1, <1>3 DEF InScope
<1>. QED
  BY <1>2, <1>3, <1>4, <1>5, <1>6 DEF p, source

LEMMA OldNodeType ==
    ASSUME NEW i \in DOMAIN OldNodes
    PROVE  LET source == [scope |-> NoField, type |-> OldNodes[i].type, name |-> OldNodes[i].name,
                          aliases |-> OldNodes[i].aliases]
           IN  /\ source \in NodeSources /\ InScope(source, Default)
               /\ ToNode(source) = OldNodes[i] /\ source # Nothing
<1>1. OldNodes[i] \in Node /\ Nothing \notin NodeSources
  BY AdapterAssumption
<1>. QED
  BY <1>1 DEF Node, NodeSources, InScope, ToNode

LEMMA ScopesInit == Init => ScopesInv
<1>. SUFFICES ASSUME Init PROVE ScopesInv
  OBVIOUS
<1>1. /\ DOMAIN OldDocuments \subseteq OwnDocs(Default)
      /\ DOMAIN OldEntities \subseteq OwnIds(Default)
      /\ DOMAIN OldNodes \subseteq OwnIds(Default)
      /\ OwnDocs(Default) \subseteq DocIds /\ OwnIds(Default) \subseteq EntityIds
  BY AdapterAssumption, OwnIsKnown, DefaultIsScope
<1>2. /\ bucket = [p \in Paths |-> bucket[p]]
      /\ DOMAIN documentIndex = DocIds /\ DOMAIN entityIndex = EntityIds /\ DOMAIN graph = EntityIds
      /\ documentIndex = [i \in DocIds |-> documentIndex[i]]
      /\ entityIndex = [i \in EntityIds |-> entityIndex[i]]
      /\ graph = [i \in EntityIds |-> graph[i]]
  BY OlderType
<1>3. ASSUME NEW i \in DocIds
      PROVE  \/ documentIndex[i] = Nothing
             \/ /\ i \in OwnDocs(Default) /\ documentIndex[i] \in DocumentSources
                /\ AllOrNone(documentIndex[i].nested) /\ InScope(documentIndex[i], Default)
  BY <1>1, OlderType, OldDocumentType
<1>4. ASSUME NEW i \in EntityIds
      PROVE  \/ entityIndex[i] = Nothing
             \/ /\ i \in OwnIds(Default) /\ entityIndex[i] \in EntitySources
                /\ entityIndex[i].normalizedName = Normalized[entityIndex[i].name]
                /\ entityIndex[i].aliasesNormalized = {Normalized[a] : a \in entityIndex[i].aliases}
                /\ InScope(entityIndex[i], Default)
  BY <1>1, OlderType, OldEntityType
<1>5. ASSUME NEW i \in EntityIds
      PROVE  /\ graph[i] = Nothing <=> i \notin DOMAIN OldNodes
             /\ graph[i] # Nothing =>
                    i \in OwnIds(Default) /\ graph[i] \in NodeSources /\ InScope(graph[i], Default)
  BY <1>1, OlderType, OldNodeType
<1>6. StoresTyped
  BY <1>2, <1>3, <1>4, <1>5 DEF StoresTyped
<1>7. VectorsAreWhole /\ NamesAreIndexed
  BY <1>3, <1>4 DEF VectorsAreWhole, NamesAreIndexed
<1>8. OwnersAreKept
  <2>1. ASSUME NEW sc \in Scope, sc # Default
        PROVE  OwnDocs(sc) \cap OwnDocs(Default) = {} /\ OwnIds(sc) \cap OwnIds(Default) = {}
    BY <2>1, OwnersApart, DefaultIsScope
  <2>2. \A sc \in Scope : OwnDocs(sc) \subseteq DocIds /\ OwnIds(sc) \subseteq EntityIds
    BY OwnIsKnown
  <2>. QED
    BY <1>3, <1>4, <1>5, <2>1, <2>2 DEF OwnersAreKept
<1>9. EdgesAreOwned
  <2>1. ASSUME NEW x \in relations
        PROVE  {x.subject, x.object} \subseteq Nodes(Default) /\ x.doc \in OwnDocs(Default)
    <3>1. x \in OldEdges /\ OldEdges \subseteq [subject : DOMAIN OldNodes, object : DOMAIN OldNodes,
                                                doc : OwnDocs(Default)]
      BY <2>1, OlderType, AdapterAssumption
    <3>2. {x.subject, x.object} \subseteq DOMAIN OldNodes /\ x.doc \in OwnDocs(Default)
      BY <3>1
    <3>. QED
      BY <1>1, <1>5, <3>2 DEF Nodes
  <2>. QED
    BY <2>1, DefaultIsScope DEF EdgesAreOwned
<1>. QED
  BY <1>6, <1>7, <1>8, <1>9 DEF ScopesInv

(***************************************************************************)
(* Each call keeps the invariant.                                          *)
(***************************************************************************)

\* The edges are the scopes' as long as the nodes stay.
LEMMA EdgesStayOwned ==
    ASSUME EdgesAreOwned, UNCHANGED graph, relations' \subseteq relations
    PROVE  EdgesAreOwned'
<1>1. \A sc \in Scope : Nodes(sc)' = Nodes(sc)
  BY DEF Nodes, InScope
<1>. QED
  BY <1>1 DEF EdgesAreOwned

LEMMA PutKeeps ==
    ASSUME ScopesInv, NEW sc, NEW key, NEW data, Put(sc, key, data)
    PROVE  ScopesInv'
<1>1. /\ bucket' = [bucket EXCEPT ![ObjectPath(sc, key)] = data]
      /\ UNCHANGED <<documentIndex, entityIndex, graph, relations>>
  BY DEF Put
<1>2. StoresTyped'
  BY <1>1 DEF ScopesInv, StoresTyped
<1>3. VectorsAreWhole' /\ NamesAreIndexed' /\ OwnersAreKept'
  BY <1>1 DEF ScopesInv, VectorsAreWhole, NamesAreIndexed, OwnersAreKept, InScope
<1>4. EdgesAreOwned'
  BY <1>1, EdgesStayOwned DEF ScopesInv
<1>. QED
  BY <1>2, <1>3, <1>4 DEF ScopesInv

LEMMA UpsertDocumentKeeps ==
    ASSUME ScopesInv, NEW sc \in Scope, NEW id \in OwnDocs(sc), NEW r \in Records,
           UpsertDocument(sc, id, r)
    PROVE  ScopesInv'
<1>. DEFINE source == DocumentSource(r, sc)
<1>1. /\ documentIndex' = [documentIndex EXCEPT ![id] = source]
      /\ UNCHANGED <<bucket, entityIndex, graph, relations>>
  BY DEF UpsertDocument
<1>2. source \in DocumentSources /\ AllOrNone(source.nested) /\ InScope(source, sc)
  BY DocumentSourceType
<1>. HIDE DEF source
<1>3. id \in DocIds /\ documentIndex \in [DocIds -> DocumentSources \cup {Nothing}]
  BY OwnIsKnown DEF ScopesInv, StoresTyped
<1>4. /\ documentIndex' \in [DocIds -> DocumentSources \cup {Nothing}]
      /\ documentIndex'[id] = source
      /\ \A i \in DocIds \ {id} : documentIndex'[i] = documentIndex[i]
  BY <1>1, <1>2, <1>3
<1>5. StoresTyped'
  BY <1>1, <1>4 DEF ScopesInv, StoresTyped
<1>6. VectorsAreWhole' /\ NamesAreIndexed'
  BY <1>1, <1>2, <1>4 DEF ScopesInv, VectorsAreWhole, NamesAreIndexed, AllOrNone
<1>7. OwnersAreKept'
  <2>1. ASSUME NEW t \in Scope, NEW i \in OwnDocs(t), documentIndex'[i] # Nothing
        PROVE  InScope(documentIndex'[i], t)
    <3>1. i \in DocIds /\ (i = id => t = sc)
      BY OwnIsKnown, OwnersApart
    <3>. QED
      BY <1>2, <1>4, <2>1, <3>1 DEF ScopesInv, OwnersAreKept
  <2>. QED
    BY <1>1, <2>1 DEF ScopesInv, OwnersAreKept, InScope
<1>8. EdgesAreOwned'
  BY <1>1, EdgesStayOwned DEF ScopesInv
<1>. QED
  BY <1>5, <1>6, <1>7, <1>8 DEF ScopesInv

LEMMA DeleteDocumentKeeps ==
    ASSUME ScopesInv, NEW sc \in Scope, NEW id \in DocIds, DeleteDocument(sc, id)
    PROVE  ScopesInv'
<1>1. /\ documentIndex' = [documentIndex EXCEPT ![id] = Nothing]
      /\ UNCHANGED <<bucket, entityIndex, graph, relations>>
  BY DEF DeleteDocument
<1>2. /\ documentIndex' \in [DocIds -> DocumentSources \cup {Nothing}]
      /\ \A i \in DocIds : documentIndex'[i] # Nothing => documentIndex'[i] = documentIndex[i]
  BY <1>1 DEF ScopesInv, StoresTyped
<1>3. StoresTyped'
  BY <1>1, <1>2 DEF ScopesInv, StoresTyped
<1>4. VectorsAreWhole' /\ NamesAreIndexed'
  BY <1>1, <1>2 DEF ScopesInv, VectorsAreWhole, NamesAreIndexed, AllOrNone
<1>5. OwnersAreKept'
  BY <1>1, <1>2, OwnIsKnown DEF ScopesInv, OwnersAreKept, InScope
<1>6. EdgesAreOwned'
  BY <1>1, EdgesStayOwned DEF ScopesInv
<1>. QED
  BY <1>3, <1>4, <1>5, <1>6 DEF ScopesInv

LEMMA UpsertEntityKeeps ==
    ASSUME ScopesInv, NEW sc \in Scope, NEW id \in OwnIds(sc), NEW p \in Profiles,
           UpsertEntity(sc, id, p)
    PROVE  ScopesInv'
<1>. DEFINE source == EntitySource(p, sc)
<1>1. /\ entityIndex' = [entityIndex EXCEPT ![id] = source]
      /\ UNCHANGED <<bucket, documentIndex, graph, relations>>
  BY DEF UpsertEntity
<1>2. /\ source \in EntitySources /\ InScope(source, sc)
      /\ source.normalizedName = Normalized[source.name]
      /\ source.aliasesNormalized = {Normalized[a] : a \in source.aliases}
  BY EntitySourceType, AdapterAssumption
<1>. HIDE DEF source
<1>3. id \in EntityIds /\ entityIndex \in [EntityIds -> EntitySources \cup {Nothing}]
  BY OwnIsKnown DEF ScopesInv, StoresTyped
<1>4. /\ entityIndex' \in [EntityIds -> EntitySources \cup {Nothing}]
      /\ entityIndex'[id] = source
      /\ \A i \in EntityIds \ {id} : entityIndex'[i] = entityIndex[i]
  BY <1>1, <1>2, <1>3
<1>5. StoresTyped'
  BY <1>1, <1>4 DEF ScopesInv, StoresTyped
<1>6. VectorsAreWhole' /\ NamesAreIndexed'
  BY <1>1, <1>2, <1>4 DEF ScopesInv, VectorsAreWhole, NamesAreIndexed, AllOrNone
<1>7. OwnersAreKept'
  <2>1. ASSUME NEW t \in Scope, NEW i \in OwnIds(t), entityIndex'[i] # Nothing
        PROVE  InScope(entityIndex'[i], t)
    <3>1. i \in EntityIds /\ (i = id => t = sc)
      BY OwnIsKnown, OwnersApart
    <3>. QED
      BY <1>2, <1>4, <2>1, <3>1 DEF ScopesInv, OwnersAreKept
  <2>. QED
    BY <1>1, <2>1 DEF ScopesInv, OwnersAreKept, InScope
<1>8. EdgesAreOwned'
  BY <1>1, EdgesStayOwned DEF ScopesInv
<1>. QED
  BY <1>5, <1>6, <1>7, <1>8 DEF ScopesInv

LEMMA DeleteEntityKeeps ==
    ASSUME ScopesInv, NEW sc \in Scope, NEW id \in EntityIds, DeleteEntity(sc, id)
    PROVE  ScopesInv'
<1>1. /\ entityIndex' = [entityIndex EXCEPT ![id] = Nothing]
      /\ UNCHANGED <<bucket, documentIndex, graph, relations>>
  BY DEF DeleteEntity
<1>2. /\ entityIndex' \in [EntityIds -> EntitySources \cup {Nothing}]
      /\ \A i \in EntityIds : entityIndex'[i] # Nothing => entityIndex'[i] = entityIndex[i]
  BY <1>1 DEF ScopesInv, StoresTyped
<1>3. StoresTyped'
  BY <1>1, <1>2 DEF ScopesInv, StoresTyped
<1>4. VectorsAreWhole' /\ NamesAreIndexed'
  BY <1>1, <1>2 DEF ScopesInv, VectorsAreWhole, NamesAreIndexed, AllOrNone
<1>5. OwnersAreKept'
  BY <1>1, <1>2, OwnIsKnown DEF ScopesInv, OwnersAreKept, InScope
<1>6. EdgesAreOwned'
  BY <1>1, EdgesStayOwned DEF ScopesInv
<1>. QED
  BY <1>3, <1>4, <1>5, <1>6 DEF ScopesInv

\* What an upsert of a node does: it is the scope's own, and was there or is new.
LEMMA UpsertNodeDraws ==
    ASSUME ScopesInv, NEW sc \in Scope, NEW id \in OwnIds(sc), NEW p \in Profiles,
           UpsertNode(sc, id, p)
    PROVE  /\ UNCHANGED <<bucket, documentIndex, entityIndex, relations>>
           /\ graph' \in [EntityIds -> NodeSources \cup {Nothing}]
           /\ \A i \in EntityIds \ {id} : graph'[i] = graph[i]
           /\ id \in EntityIds /\ graph'[id] # Nothing
           /\ InScope(graph'[id], sc)
           /\ ToNode(graph'[id]) = Memory!Drawn(p)
<1>. DEFINE owner == IF graph[id] = Nothing THEN sc ELSE graph[id].scope
            node == [scope |-> owner, type |-> p.type, name |-> p.name, aliases |-> p.aliases]
<1>1. /\ InScope([scope |-> owner], sc) /\ graph' = [graph EXCEPT ![id] = node]
      /\ UNCHANGED <<bucket, documentIndex, entityIndex, relations>>
  BY DEF UpsertNode
<1>2. id \in EntityIds /\ graph \in [EntityIds -> NodeSources \cup {Nothing}]
  BY OwnIsKnown DEF ScopesInv, StoresTyped
<1>3. owner \in Scope \cup {NoField}
  BY <1>2 DEF NodeSources
<1>4. p \in Entity /\ Nothing \notin NodeSources
  BY AdapterAssumption
<1>. HIDE DEF owner
<1>5. node \in NodeSources
  BY <1>3, <1>4 DEF Entity, NodeSources
<1>6. InScope(node, sc)
  BY <1>1 DEF InScope
<1>7. ToNode(node) = Memory!Drawn(p)
  BY DEF ToNode, Memory!Drawn
<1>. HIDE DEF node
<1>. QED
  BY <1>1, <1>2, <1>4, <1>5, <1>6, <1>7

LEMMA UpsertNodeKeeps ==
    ASSUME ScopesInv, NEW sc \in Scope, NEW id \in OwnIds(sc), NEW p \in Profiles,
           UpsertNode(sc, id, p)
    PROVE  ScopesInv'
<1>1. /\ UNCHANGED <<bucket, documentIndex, entityIndex, relations>>
      /\ graph' \in [EntityIds -> NodeSources \cup {Nothing}]
      /\ \A i \in EntityIds \ {id} : graph'[i] = graph[i]
      /\ id \in EntityIds /\ graph'[id] # Nothing /\ InScope(graph'[id], sc)
  BY UpsertNodeDraws
<1>2. StoresTyped'
  BY <1>1 DEF ScopesInv, StoresTyped
<1>3. VectorsAreWhole' /\ NamesAreIndexed'
  BY <1>1 DEF ScopesInv, VectorsAreWhole, NamesAreIndexed, AllOrNone
<1>4. OwnersAreKept'
  <2>1. ASSUME NEW t \in Scope, NEW i \in OwnIds(t), graph'[i] # Nothing
        PROVE  InScope(graph'[i], t)
    <3>1. i \in EntityIds /\ (i = id => t = sc)
      BY OwnIsKnown, OwnersApart
    <3>. QED
      BY <1>1, <2>1, <3>1 DEF ScopesInv, OwnersAreKept
  <2>. QED
    BY <1>1, <2>1 DEF ScopesInv, OwnersAreKept, InScope
<1>5. EdgesAreOwned'
  <2>1. ASSUME NEW t \in Scope, NEW i \in Nodes(t) PROVE i \in Nodes(t)'
    <3>1. i \in EntityIds /\ graph[i] # Nothing /\ InScope(graph[i], t)
      BY DEF Nodes
    <3>2. i = id => t = sc
      BY OwnIsFound, OwnersApart
    <3>. QED
      BY <1>1, <3>1, <3>2 DEF Nodes
  <2>. QED
    BY <1>1, <2>1 DEF ScopesInv, EdgesAreOwned
<1>. QED
  BY <1>2, <1>3, <1>4, <1>5 DEF ScopesInv

LEMMA WriteTripleKeeps ==
    ASSUME ScopesInv, NEW sc \in Scope, NEW edge \in Memory!Edges(sc), WriteTriple(sc, edge)
    PROVE  ScopesInv'
<1>1. /\ {edge.subject, edge.object} \subseteq Nodes(sc) /\ relations' = relations \cup {edge}
      /\ UNCHANGED <<bucket, documentIndex, entityIndex, graph>>
  BY DEF WriteTriple
<1>2. edge.doc \in OwnDocs(sc)
  BY DEF Memory!Edges, Memory!OwnDocs, Memory!Minted, Memory!ScopeKey, Memory!Default,
         OwnDocs, Minted, ScopeKey, Default
<1>3. StoresTyped' /\ VectorsAreWhole' /\ NamesAreIndexed' /\ OwnersAreKept'
  BY <1>1 DEF ScopesInv, StoresTyped, VectorsAreWhole, NamesAreIndexed, OwnersAreKept, InScope
<1>4. EdgesAreOwned'
  <2>1. \A t \in Scope : Nodes(t)' = Nodes(t)
    BY <1>1 DEF Nodes, InScope
  <2>. QED
    BY <1>1, <1>2, <2>1 DEF ScopesInv, EdgesAreOwned
<1>. QED
  BY <1>3, <1>4 DEF ScopesInv

LEMMA DeleteDocumentEdgesKeeps ==
    ASSUME ScopesInv, NEW sc \in Scope, NEW doc, DeleteDocumentEdges(sc, doc)
    PROVE  ScopesInv'
<1>1. /\ relations' \subseteq relations
      /\ UNCHANGED <<bucket, documentIndex, entityIndex, graph>>
  BY DEF DeleteDocumentEdges
<1>2. StoresTyped' /\ VectorsAreWhole' /\ NamesAreIndexed' /\ OwnersAreKept'
  BY <1>1 DEF ScopesInv, StoresTyped, VectorsAreWhole, NamesAreIndexed, OwnersAreKept, InScope
<1>3. EdgesAreOwned'
  BY <1>1, EdgesStayOwned DEF ScopesInv
<1>. QED
  BY <1>2, <1>3 DEF ScopesInv

LEMMA DeleteNodesKeeps ==
    ASSUME ScopesInv, NEW sc \in Scope, NEW ids, DeleteNodes(sc, ids)
    PROVE  ScopesInv'
<1>. DEFINE gone == ids \cap Nodes(sc)
<1>1. /\ graph' = [i \in EntityIds |-> IF i \in gone THEN Nothing ELSE graph[i]]
      /\ relations' = relations \ Memory!Touching(relations, gone)
      /\ UNCHANGED <<bucket, documentIndex, entityIndex>>
  BY DEF DeleteNodes
<1>. HIDE DEF gone
<1>2. /\ graph' \in [EntityIds -> NodeSources \cup {Nothing}]
      /\ \A i \in EntityIds : /\ i \in gone => graph'[i] = Nothing
                              /\ i \notin gone => graph'[i] = graph[i]
  BY <1>1 DEF ScopesInv, StoresTyped
<1>3. StoresTyped'
  BY <1>1, <1>2 DEF ScopesInv, StoresTyped
<1>4. VectorsAreWhole' /\ NamesAreIndexed'
  BY <1>1 DEF ScopesInv, VectorsAreWhole, NamesAreIndexed, AllOrNone
<1>5. OwnersAreKept'
  BY <1>1, <1>2, OwnIsKnown DEF ScopesInv, OwnersAreKept, InScope
<1>6. EdgesAreOwned'
  <2>1. \A t \in Scope : Nodes(t) \ gone \subseteq Nodes(t)'
    BY <1>2 DEF Nodes
  <2>2. \A x \in relations' : x \in relations /\ {x.subject, x.object} \cap gone = {}
    BY <1>1 DEF Memory!Touching
  <2>. QED
    BY <2>1, <2>2 DEF ScopesInv, EdgesAreOwned
<1>. QED
  BY <1>3, <1>4, <1>5, <1>6 DEF ScopesInv

LEMMA ScopesStep == ScopesInv /\ [Next]_adapterVars => ScopesInv'
<1>. SUFFICES ASSUME ScopesInv, [Next]_adapterVars PROVE ScopesInv'
  OBVIOUS
<1>1. ASSUME NEW sc \in Scope, ObjectCall(sc) PROVE ScopesInv'
  BY <1>1, PutKeeps DEF ObjectCall, Delete
<1>2. ASSUME NEW sc \in Scope, DocumentCall(sc) PROVE ScopesInv'
  BY <1>2, UpsertDocumentKeeps, DeleteDocumentKeeps DEF DocumentCall
<1>3. ASSUME NEW sc \in Scope, EntityCall(sc) PROVE ScopesInv'
  BY <1>3, UpsertEntityKeeps, DeleteEntityKeeps DEF EntityCall
<1>4. ASSUME NEW sc \in Scope, GraphCall(sc) PROVE ScopesInv'
  BY <1>4, UpsertNodeKeeps, WriteTripleKeeps, DeleteDocumentEdgesKeeps, DeleteNodesKeeps
  DEF GraphCall
<1>5. CASE UNCHANGED adapterVars
  <2>1. UNCHANGED <<bucket, documentIndex, entityIndex, graph, relations>>
    BY <1>5 DEF adapterVars
  <2>2. StoresTyped' /\ VectorsAreWhole' /\ NamesAreIndexed' /\ OwnersAreKept'
    BY <2>1 DEF ScopesInv, StoresTyped, VectorsAreWhole, NamesAreIndexed, OwnersAreKept, InScope
  <2>3. EdgesAreOwned'
    BY <2>1, EdgesStayOwned DEF ScopesInv
  <2>. QED
    BY <2>2, <2>3 DEF ScopesInv
<1>. QED
  BY <1>1, <1>2, <1>3, <1>4, <1>5 DEF Next, Call

LEMMA ScopesAlways == Spec => []ScopesInv
BY ScopesInit, ScopesStep, PTL DEF Spec

\* At any time, every edge joins two nodes of one scope (write_triples).
THEOREM EdgesAlwaysStay == Spec => []EdgesStayInScope
<1>1. ScopesInv => EdgesStayInScope
  BY DEF ScopesInv, EdgesAreOwned, EdgesStayInScope
<1>. QED
  BY <1>1, ScopesAlways, PTL

(***************************************************************************)
(* What each call does to the memories of the scopes.                      *)
(***************************************************************************)

LEMMA SameNames ==
    /\ Memory!Default = Default
    /\ \A sc : Memory!OwnDocs(sc) = OwnDocs(sc) /\ Memory!OwnIds(sc) = OwnIds(sc)
    /\ Memory!EntityIds = EntityIds
    /\ \A sc, key : Memory!MayName(sc, key) <=> MayName(sc, key)
<1>1. Memory!Default = Default
  BY DEF Memory!Default, Default
<1>2. \A sc, what : Memory!Minted(sc, what) = Minted(sc, what)
  BY <1>1 DEF Memory!Minted, Minted, Memory!ScopeKey, ScopeKey
<1>3. \A sc : Memory!OwnDocs(sc) = OwnDocs(sc) /\ Memory!OwnIds(sc) = OwnIds(sc)
  BY <1>2 DEF Memory!OwnDocs, OwnDocs, Memory!OwnIds, OwnIds
<1>. QED
  BY <1>1, <1>3 DEF Memory!EntityIds, EntityIds, Memory!MayName, MayName

\* A scope's memory is what is stored under its ids.
MemoriesAsStored ==
    \A sc \in Scope :
        /\ DocumentsOf(sc) = [i \in OwnDocs(sc) |->
              IF documentIndex[i] = Nothing THEN Nothing ELSE ToRecord(documentIndex[i])]
        /\ EntitiesOf(sc) = [i \in OwnIds(sc) |->
              IF entityIndex[i] = Nothing THEN Nothing ELSE ToEntity(entityIndex[i])]
        /\ NodesOf(sc) = [i \in OwnIds(sc) |->
              IF graph[i] = Nothing THEN Nothing ELSE ToNode(graph[i])]
        /\ Nodes(sc) = {i \in OwnIds(sc) : graph[i] # Nothing}

LEMMA MemoriesAre == ScopesInv => MemoriesAsStored
<1>. SUFFICES ASSUME ScopesInv, NEW sc \in Scope
              PROVE  /\ DocumentsOf(sc) = [i \in OwnDocs(sc) |->
                        IF documentIndex[i] = Nothing THEN Nothing ELSE ToRecord(documentIndex[i])]
                     /\ EntitiesOf(sc) = [i \in OwnIds(sc) |->
                        IF entityIndex[i] = Nothing THEN Nothing ELSE ToEntity(entityIndex[i])]
                     /\ NodesOf(sc) = [i \in OwnIds(sc) |->
                        IF graph[i] = Nothing THEN Nothing ELSE ToNode(graph[i])]
                     /\ Nodes(sc) = {i \in OwnIds(sc) : graph[i] # Nothing}
  BY DEF MemoriesAsStored
<1>1. OwnDocs(sc) \subseteq DocIds /\ OwnIds(sc) \subseteq EntityIds
  BY OwnIsKnown
<1>2. /\ \A i \in OwnDocs(sc) : GetDocument(sc, i) =
            IF documentIndex[i] = Nothing THEN Nothing ELSE ToRecord(documentIndex[i])
      /\ \A i \in OwnIds(sc) : GetEntity(sc, i) =
            IF entityIndex[i] = Nothing THEN Nothing ELSE ToEntity(entityIndex[i])
      /\ \A i \in OwnIds(sc) : GetNode(sc, i) =
            IF graph[i] = Nothing THEN Nothing ELSE ToNode(graph[i])
  BY <1>1, OwnIsFound DEF GetDocument, GetEntity, GetNode
<1>. QED
  BY <1>2, OwnIsFound DEF DocumentsOf, EntitiesOf, NodesOf

\* The same after a step.
LEMMA MemoriesWillBe == ScopesInv' => MemoriesAsStored'
BY MemoriesAre, PTL

\* What is not written stays in every memory.
LEMMA MemoriesStay ==
    ASSUME NEW sc
    PROVE  /\ UNCHANGED bucket => ObjectsOf(sc)' = ObjectsOf(sc)
           /\ UNCHANGED documentIndex => DocumentsOf(sc)' = DocumentsOf(sc)
           /\ UNCHANGED entityIndex => EntitiesOf(sc)' = EntitiesOf(sc)
           /\ UNCHANGED graph => NodesOf(sc)' = NodesOf(sc)
           /\ UNCHANGED <<graph, relations>> => EdgesOf(sc)' = EdgesOf(sc)
<1>1. UNCHANGED bucket => ObjectsOf(sc)' = ObjectsOf(sc)
  BY DEF ObjectsOf, Get
<1>2. UNCHANGED documentIndex => DocumentsOf(sc)' = DocumentsOf(sc)
  BY DEF DocumentsOf, GetDocument, Fetched, InScope, ToRecord
<1>3. UNCHANGED entityIndex => EntitiesOf(sc)' = EntitiesOf(sc)
  BY DEF EntitiesOf, GetEntity, Fetched, InScope, ToEntity
<1>4. UNCHANGED graph => NodesOf(sc)' = NodesOf(sc) /\ Nodes(sc)' = Nodes(sc)
  BY DEF NodesOf, GetNode, Nodes, InScope, ToNode
<1>5. UNCHANGED <<graph, relations>> => EdgesOf(sc)' = EdgesOf(sc)
  BY <1>4 DEF EdgesOf
<1>. QED
  BY <1>1, <1>2, <1>3, <1>4, <1>5

\* An object is put under its scope's key and no other key's path.
LEMMA PutActs ==
    ASSUME ScopesInv, NEW sc \in Scope, NEW key \in Keys, NEW data, Put(sc, key, data)
    PROVE  \A t \in Scope :
              ObjectsOf(t)' = IF t = sc THEN [ObjectsOf(sc) EXCEPT ![key] = data] ELSE ObjectsOf(t)
<1>. DEFINE path == ObjectPath(sc, key)
<1>1. MayName(sc, key) /\ bucket' = [bucket EXCEPT ![path] = data]
  BY DEF Put
<1>2. \A t \in Scope, k \in Keys : ObjectPath(t, k) \in Paths
  BY DEF Paths
<1>3. /\ bucket'[path] = data
      /\ \A p \in Paths : p # path => bucket'[p] = bucket[p]
  BY <1>1, <1>2 DEF ScopesInv, StoresTyped
<1>4. ASSUME NEW t \in Scope, NEW k \in Keys, MayName(t, k)
      PROVE  bucket'[ObjectPath(t, k)] = IF t = sc /\ k = key THEN data ELSE bucket[ObjectPath(t, k)]
  <2>1. ObjectPath(t, k) = path => t = sc /\ k = key
    BY <1>1, <1>4, PathsApart
  <2>. QED
    BY <1>2, <1>3, <2>1
<1>. HIDE DEF path
<1>5. ASSUME NEW t \in Scope
      PROVE  ObjectsOf(t)' = IF t = sc THEN [ObjectsOf(sc) EXCEPT ![key] = data] ELSE ObjectsOf(t)
  <2>1. /\ ObjectsOf(t) = [k \in {k \in Keys : MayName(t, k)} |-> bucket[ObjectPath(t, k)]]
        /\ ObjectsOf(t)' = [k \in {k \in Keys : MayName(t, k)} |-> bucket'[ObjectPath(t, k)]]
    BY DEF ObjectsOf, Get
  <2>2. CASE t = sc
    <3>1. key \in {k \in Keys : MayName(sc, k)}
      BY <1>1
    <3>2. \A k \in Keys : MayName(sc, k) =>
              bucket'[ObjectPath(sc, k)] = IF k = key THEN data ELSE bucket[ObjectPath(sc, k)]
      BY <1>4
    <3>3. ObjectsOf(sc)' = [k \in {k \in Keys : MayName(sc, k)} |->
                              IF k = key THEN data ELSE bucket[ObjectPath(sc, k)]]
      BY <2>1, <2>2, <3>2
    <3>4. [ObjectsOf(sc) EXCEPT ![key] = data] = [k \in {k \in Keys : MayName(sc, k)} |->
                              IF k = key THEN data ELSE bucket[ObjectPath(sc, k)]]
      BY <2>1, <2>2, <3>1
    <3>. QED
      BY <2>2, <3>3, <3>4
  <2>3. CASE t # sc
    BY <1>4, <2>1, <2>3
  <2>. QED
    BY <2>2, <2>3
<1>. QED
  BY <1>5

LEMMA UpsertDocumentActs ==
    ASSUME ScopesInv, NEW sc \in Scope, NEW id \in OwnDocs(sc), NEW r \in Records,
           UpsertDocument(sc, id, r)
    PROVE  \A t \in Scope : DocumentsOf(t)' =
              IF t = sc THEN [DocumentsOf(sc) EXCEPT ![id] = Memory!Stored(r, sc)]
              ELSE DocumentsOf(t)
<1>. DEFINE source == DocumentSource(r, sc)
            new == Memory!Stored(r, sc)
<1>1. documentIndex' = [documentIndex EXCEPT ![id] = source]
  BY DEF UpsertDocument
<1>2. ToRecord(source) = new /\ source # Nothing
  BY DocumentSourceType, AdapterAssumption
<1>3. id \in DocIds /\ DOMAIN documentIndex = DocIds
  BY OwnIsKnown DEF ScopesInv, StoresTyped
<1>. HIDE DEF source, new
<1>4. documentIndex'[id] = source /\ \A i \in DocIds \ {id} : documentIndex'[i] = documentIndex[i]
  BY <1>1, <1>3
<1>5. MemoriesAsStored /\ MemoriesAsStored'
  BY UpsertDocumentKeeps, MemoriesAre, MemoriesWillBe
<1>6. ASSUME NEW t \in Scope
      PROVE  DocumentsOf(t)' = IF t = sc THEN [DocumentsOf(sc) EXCEPT ![id] = new]
                               ELSE DocumentsOf(t)
  <2>1. /\ DocumentsOf(t) = [i \in OwnDocs(t) |->
              IF documentIndex[i] = Nothing THEN Nothing ELSE ToRecord(documentIndex[i])]
        /\ DocumentsOf(t)' = [i \in OwnDocs(t) |->
              IF documentIndex'[i] = Nothing THEN Nothing ELSE ToRecord(documentIndex'[i])]
    BY <1>5 DEF MemoriesAsStored
  <2>2. \A i \in OwnDocs(t) : i \in DocIds /\ (i = id => t = sc)
    BY OwnIsKnown, OwnersApart
  <2>3. CASE t = sc
    <3>1. DocumentsOf(t)' = [i \in OwnDocs(t) |-> IF i = id THEN new ELSE
              IF documentIndex[i] = Nothing THEN Nothing ELSE ToRecord(documentIndex[i])]
      BY <1>2, <1>4, <2>1, <2>2
    <3>. QED
      BY <2>1, <2>3, <3>1
  <2>4. CASE t # sc
    BY <1>4, <2>1, <2>2, <2>4
  <2>. QED
    BY <2>3, <2>4
<1>. QED
  BY <1>6 DEF new

LEMMA DeleteDocumentActs ==
    ASSUME ScopesInv, NEW sc \in Scope, NEW id \in DocIds, DeleteDocument(sc, id)
    PROVE  /\ id \in OwnDocs(sc)
           /\ \A t \in Scope : DocumentsOf(t)' =
                 IF t = sc THEN [DocumentsOf(sc) EXCEPT ![id] = Nothing] ELSE DocumentsOf(t)
<1>1. documentIndex' = [documentIndex EXCEPT ![id] = Nothing] /\ id \in OwnDocs(sc)
  BY OwnIsFound DEF DeleteDocument
<1>2. DOMAIN documentIndex = DocIds
  BY DEF ScopesInv, StoresTyped
<1>3. documentIndex'[id] = Nothing /\ \A i \in DocIds \ {id} : documentIndex'[i] = documentIndex[i]
  BY <1>1, <1>2
<1>4. MemoriesAsStored /\ MemoriesAsStored'
  BY DeleteDocumentKeeps, MemoriesAre, MemoriesWillBe
<1>5. ASSUME NEW t \in Scope
      PROVE  DocumentsOf(t)' = IF t = sc THEN [DocumentsOf(sc) EXCEPT ![id] = Nothing]
                               ELSE DocumentsOf(t)
  <2>1. /\ DocumentsOf(t) = [i \in OwnDocs(t) |->
              IF documentIndex[i] = Nothing THEN Nothing ELSE ToRecord(documentIndex[i])]
        /\ DocumentsOf(t)' = [i \in OwnDocs(t) |->
              IF documentIndex'[i] = Nothing THEN Nothing ELSE ToRecord(documentIndex'[i])]
    BY <1>4 DEF MemoriesAsStored
  <2>2. \A i \in OwnDocs(t) : i \in DocIds /\ (i = id => t = sc)
    BY <1>1, OwnIsKnown, OwnersApart
  <2>3. CASE t = sc
    <3>1. DocumentsOf(t)' = [i \in OwnDocs(t) |-> IF i = id THEN Nothing ELSE
              IF documentIndex[i] = Nothing THEN Nothing ELSE ToRecord(documentIndex[i])]
      BY <1>3, <2>1, <2>2
    <3>. QED
      BY <1>1, <2>1, <2>3, <3>1
  <2>4. CASE t # sc
    BY <1>3, <2>1, <2>2, <2>4
  <2>. QED
    BY <2>3, <2>4
<1>. QED
  BY <1>1, <1>5

LEMMA UpsertEntityActs ==
    ASSUME ScopesInv, NEW sc \in Scope, NEW id \in OwnIds(sc), NEW p \in Profiles,
           UpsertEntity(sc, id, p)
    PROVE  \A t \in Scope : EntitiesOf(t)' =
              IF t = sc THEN [EntitiesOf(sc) EXCEPT ![id] = p] ELSE EntitiesOf(t)
<1>. DEFINE source == EntitySource(p, sc)
<1>1. entityIndex' = [entityIndex EXCEPT ![id] = source]
  BY DEF UpsertEntity
<1>2. ToEntity(source) = p /\ source # Nothing
  BY EntitySourceType, AdapterAssumption
<1>3. id \in EntityIds /\ DOMAIN entityIndex = EntityIds
  BY OwnIsKnown DEF ScopesInv, StoresTyped
<1>. HIDE DEF source
<1>4. entityIndex'[id] = source /\ \A i \in EntityIds \ {id} : entityIndex'[i] = entityIndex[i]
  BY <1>1, <1>3
<1>5. MemoriesAsStored /\ MemoriesAsStored'
  BY UpsertEntityKeeps, MemoriesAre, MemoriesWillBe
<1>6. ASSUME NEW t \in Scope
      PROVE  EntitiesOf(t)' = IF t = sc THEN [EntitiesOf(sc) EXCEPT ![id] = p] ELSE EntitiesOf(t)
  <2>1. /\ EntitiesOf(t) = [i \in OwnIds(t) |->
              IF entityIndex[i] = Nothing THEN Nothing ELSE ToEntity(entityIndex[i])]
        /\ EntitiesOf(t)' = [i \in OwnIds(t) |->
              IF entityIndex'[i] = Nothing THEN Nothing ELSE ToEntity(entityIndex'[i])]
    BY <1>5 DEF MemoriesAsStored
  <2>2. \A i \in OwnIds(t) : i \in EntityIds /\ (i = id => t = sc)
    BY OwnIsKnown, OwnersApart
  <2>3. CASE t = sc
    <3>1. EntitiesOf(t)' = [i \in OwnIds(t) |-> IF i = id THEN p ELSE
              IF entityIndex[i] = Nothing THEN Nothing ELSE ToEntity(entityIndex[i])]
      BY <1>2, <1>4, <2>1, <2>2
    <3>. QED
      BY <2>1, <2>3, <3>1
  <2>4. CASE t # sc
    BY <1>4, <2>1, <2>2, <2>4
  <2>. QED
    BY <2>3, <2>4
<1>. QED
  BY <1>6

LEMMA DeleteEntityActs ==
    ASSUME ScopesInv, NEW sc \in Scope, NEW id \in EntityIds, DeleteEntity(sc, id)
    PROVE  /\ id \in OwnIds(sc)
           /\ \A t \in Scope : EntitiesOf(t)' =
                 IF t = sc THEN [EntitiesOf(sc) EXCEPT ![id] = Nothing] ELSE EntitiesOf(t)
<1>1. entityIndex' = [entityIndex EXCEPT ![id] = Nothing] /\ id \in OwnIds(sc)
  BY OwnIsFound DEF DeleteEntity
<1>2. DOMAIN entityIndex = EntityIds
  BY DEF ScopesInv, StoresTyped
<1>3. entityIndex'[id] = Nothing /\ \A i \in EntityIds \ {id} : entityIndex'[i] = entityIndex[i]
  BY <1>1, <1>2
<1>4. MemoriesAsStored /\ MemoriesAsStored'
  BY DeleteEntityKeeps, MemoriesAre, MemoriesWillBe
<1>5. ASSUME NEW t \in Scope
      PROVE  EntitiesOf(t)' = IF t = sc THEN [EntitiesOf(sc) EXCEPT ![id] = Nothing]
                              ELSE EntitiesOf(t)
  <2>1. /\ EntitiesOf(t) = [i \in OwnIds(t) |->
              IF entityIndex[i] = Nothing THEN Nothing ELSE ToEntity(entityIndex[i])]
        /\ EntitiesOf(t)' = [i \in OwnIds(t) |->
              IF entityIndex'[i] = Nothing THEN Nothing ELSE ToEntity(entityIndex'[i])]
    BY <1>4 DEF MemoriesAsStored
  <2>2. \A i \in OwnIds(t) : i \in EntityIds /\ (i = id => t = sc)
    BY <1>1, OwnIsKnown, OwnersApart
  <2>3. CASE t = sc
    <3>1. EntitiesOf(t)' = [i \in OwnIds(t) |-> IF i = id THEN Nothing ELSE
              IF entityIndex[i] = Nothing THEN Nothing ELSE ToEntity(entityIndex[i])]
      BY <1>3, <2>1, <2>2
    <3>. QED
      BY <1>1, <2>1, <2>3, <3>1
  <2>4. CASE t # sc
    BY <1>3, <2>1, <2>2, <2>4
  <2>. QED
    BY <2>3, <2>4
<1>. QED
  BY <1>1, <1>5

\* An edge one of whose ends is named by a scope is that scope's.
LEMMA EdgesAreOf ==
    ASSUME ScopesInv, NEW sc \in Scope
    PROVE  /\ \A x \in EdgesOf(sc) : x \in relations /\ x.doc \in OwnDocs(sc)
           /\ \A x \in relations : \A i \in {x.subject, x.object} :
                  i \in OwnIds(sc) => x \in EdgesOf(sc)
<1>1. ASSUME NEW x \in relations, NEW i \in {x.subject, x.object}, i \in OwnIds(sc)
      PROVE  {x.subject, x.object} \subseteq Nodes(sc) /\ x.doc \in OwnDocs(sc)
  <2>1. PICK t \in Scope : {x.subject, x.object} \subseteq Nodes(t) /\ x.doc \in OwnDocs(t)
    BY DEF ScopesInv, EdgesAreOwned
  <2>2. i \in OwnIds(t)
    BY <2>1, OwnIsFound
  <2>3. t = sc
    BY <1>1, <2>2, OwnersApart
  <2>. QED
    BY <2>1, <2>3
<1>2. ASSUME NEW x \in relations, {x.subject, x.object} \subseteq Nodes(sc)
      PROVE  x.doc \in OwnDocs(sc)
  <2>1. x.subject \in OwnIds(sc)
    BY <1>2, OwnIsFound
  <2>. QED
    BY <1>1, <2>1
<1>. QED
  BY <1>1, <1>2 DEF EdgesOf

LEMMA UpsertNodeActs ==
    ASSUME ScopesInv, NEW sc \in Scope, NEW id \in OwnIds(sc), NEW p \in Profiles,
           UpsertNode(sc, id, p)
    PROVE  \A t \in Scope :
              /\ NodesOf(t)' =
                    IF t = sc THEN [NodesOf(sc) EXCEPT ![id] = Memory!Drawn(p)] ELSE NodesOf(t)
              /\ EdgesOf(t)' = EdgesOf(t)
<1>. DEFINE new == Memory!Drawn(p)
<1>1. /\ UNCHANGED relations
      /\ \A i \in EntityIds \ {id} : graph'[i] = graph[i]
      /\ id \in EntityIds /\ graph'[id] # Nothing /\ ToNode(graph'[id]) = new
  BY UpsertNodeDraws
<1>. HIDE DEF new
<1>2. ScopesInv' /\ MemoriesAsStored /\ MemoriesAsStored'
  BY UpsertNodeKeeps, MemoriesAre, MemoriesWillBe
<1>3. ASSUME NEW t \in Scope
      PROVE  /\ NodesOf(t)' = IF t = sc THEN [NodesOf(sc) EXCEPT ![id] = new] ELSE NodesOf(t)
             /\ EdgesOf(t)' = EdgesOf(t)
  <2>1. /\ NodesOf(t) = [i \in OwnIds(t) |->
              IF graph[i] = Nothing THEN Nothing ELSE ToNode(graph[i])]
        /\ NodesOf(t)' = [i \in OwnIds(t) |->
              IF graph'[i] = Nothing THEN Nothing ELSE ToNode(graph'[i])]
        /\ Nodes(t) = {i \in OwnIds(t) : graph[i] # Nothing}
        /\ Nodes(t)' = {i \in OwnIds(t) : graph'[i] # Nothing}
    BY <1>2 DEF MemoriesAsStored
  <2>2. \A i \in OwnIds(t) : i \in EntityIds /\ (i = id => t = sc)
    BY OwnIsKnown, OwnersApart
  <2>3. ASSUME t = sc PROVE NodesOf(t)' = [NodesOf(sc) EXCEPT ![id] = new]
    <3>1. NodesOf(t)' = [i \in OwnIds(t) |-> IF i = id THEN new ELSE
              IF graph[i] = Nothing THEN Nothing ELSE ToNode(graph[i])]
      BY <1>1, <2>1, <2>2
    <3>. QED
      BY <2>1, <2>3, <3>1
  <2>4. ASSUME t # sc PROVE NodesOf(t)' = NodesOf(t)
    BY <1>1, <2>1, <2>2, <2>4
  <2>5. EdgesOf(t)' = EdgesOf(t)
    <3>1. ASSUME NEW x \in relations
          PROVE  {x.subject, x.object} \subseteq Nodes(t) <=> {x.subject, x.object} \subseteq Nodes(t)'
      <4>1. Nodes(t) \subseteq Nodes(t)'
        BY <1>1, <2>1, <2>2
      <4>2. Nodes(t)' \subseteq OwnIds(t)
        BY <2>1
      <4>3. x.subject \in OwnIds(t) => {x.subject, x.object} \subseteq Nodes(t)
        BY EdgesAreOf DEF EdgesOf
      <4>. QED
        BY <4>1, <4>2, <4>3
    <3>. QED
      BY <1>1, <3>1 DEF EdgesOf
  <2>. QED
    BY <2>3, <2>4, <2>5
<1>. QED
  BY <1>3 DEF new

LEMMA WriteTripleActs ==
    ASSUME ScopesInv, NEW sc \in Scope, NEW edge, WriteTriple(sc, edge)
    PROVE  /\ {edge.subject, edge.object} \subseteq Nodes(sc)
           /\ \A t \in Scope :
                 EdgesOf(t)' = IF t = sc THEN EdgesOf(sc) \cup {edge} ELSE EdgesOf(t)
<1>1. /\ {edge.subject, edge.object} \subseteq Nodes(sc) /\ relations' = relations \cup {edge}
      /\ UNCHANGED graph
  BY DEF WriteTriple
<1>2. ASSUME NEW t \in Scope
      PROVE  /\ Nodes(t)' = Nodes(t)
             /\ {edge.subject, edge.object} \subseteq Nodes(t) <=> t = sc
  <2>1. Nodes(t)' = Nodes(t)
    BY <1>1 DEF Nodes, InScope
  <2>2. Nodes(t) \subseteq OwnIds(t) /\ Nodes(sc) \subseteq OwnIds(sc)
    BY OwnIsFound
  <2>. QED
    BY <1>1, <2>1, <2>2, OwnersApart
<1>. QED
  BY <1>1, <1>2 DEF EdgesOf

LEMMA DeleteDocumentEdgesActs ==
    ASSUME ScopesInv, NEW sc \in Scope, NEW doc, DeleteDocumentEdges(sc, doc)
    PROVE  \A t \in Scope :
              EdgesOf(t)' = IF t = sc THEN {x \in EdgesOf(sc) : x.doc # doc} ELSE EdgesOf(t)
<1>1. /\ relations' = {x \in relations :
                          ~(x.doc = doc /\ {x.subject, x.object} \subseteq Nodes(sc))}
      /\ UNCHANGED graph
  BY DEF DeleteDocumentEdges
<1>2. ASSUME NEW t \in Scope
      PROVE  EdgesOf(t)' = IF t = sc THEN {x \in EdgesOf(sc) : x.doc # doc} ELSE EdgesOf(t)
  <2>1. Nodes(t)' = Nodes(t)
    BY <1>1 DEF Nodes, InScope
  <2>2. Nodes(t) \subseteq OwnIds(t) /\ Nodes(sc) \subseteq OwnIds(sc)
    BY OwnIsFound
  <2>3. CASE t = sc
    BY <1>1, <2>1, <2>3 DEF EdgesOf
  <2>4. CASE t # sc
    <3>1. \A x \in relations : {x.subject, x.object} \subseteq Nodes(t) =>
                                  ~({x.subject, x.object} \subseteq Nodes(sc))
      BY <2>2, <2>4, OwnersApart
    <3>. QED
      BY <1>1, <2>1, <2>4, <3>1 DEF EdgesOf
  <2>. QED
    BY <2>3, <2>4
<1>. QED
  BY <1>2

\* What is not the scope's is not deleted, and an edge goes with either of its ends.
LEMMA DeleteNodesActs ==
    ASSUME ScopesInv, NEW sc \in Scope, NEW ids, DeleteNodes(sc, ids)
    PROVE  \A t \in Scope :
              /\ NodesOf(t)' =
                    IF t = sc THEN [i \in OwnIds(sc) |-> IF i \in ids THEN Nothing ELSE NodesOf(sc)[i]]
                    ELSE NodesOf(t)
              /\ EdgesOf(t)' =
                    IF t = sc THEN EdgesOf(sc) \ Memory!Touching(EdgesOf(sc), ids) ELSE EdgesOf(t)
<1>. DEFINE gone == ids \cap Nodes(sc)
<1>1. /\ graph' = [i \in EntityIds |-> IF i \in gone THEN Nothing ELSE graph[i]]
      /\ relations' = relations \ Memory!Touching(relations, gone)
  BY DEF DeleteNodes
<1>2. MemoriesAsStored /\ MemoriesAsStored'
  BY DeleteNodesKeeps, MemoriesAre, MemoriesWillBe
<1>3. gone \subseteq OwnIds(sc) /\ Nodes(sc) = {i \in OwnIds(sc) : graph[i] # Nothing}
  BY OwnIsFound
<1>4. \A i \in OwnIds(sc) : i \notin gone /\ i \in ids => graph[i] = Nothing
  BY <1>3
<1>5. \A x \in relations' : x \in relations /\ {x.subject, x.object} \cap gone = {}
  BY <1>1 DEF Memory!Touching
<1>6. \A x \in relations : {x.subject, x.object} \cap gone = {} => x \in relations'
  BY <1>1 DEF Memory!Touching
<1>7. ASSUME NEW t \in Scope
      PROVE  /\ NodesOf(t)' =
                    IF t = sc THEN [i \in OwnIds(sc) |-> IF i \in ids THEN Nothing ELSE NodesOf(sc)[i]]
                    ELSE NodesOf(t)
             /\ EdgesOf(t)' =
                    IF t = sc THEN EdgesOf(sc) \ Memory!Touching(EdgesOf(sc), ids) ELSE EdgesOf(t)
  <2>1. /\ NodesOf(t) = [i \in OwnIds(t) |->
              IF graph[i] = Nothing THEN Nothing ELSE ToNode(graph[i])]
        /\ NodesOf(t)' = [i \in OwnIds(t) |->
              IF graph'[i] = Nothing THEN Nothing ELSE ToNode(graph'[i])]
        /\ Nodes(t) = {i \in OwnIds(t) : graph[i] # Nothing}
        /\ Nodes(t)' = {i \in OwnIds(t) : graph'[i] # Nothing}
    BY <1>2 DEF MemoriesAsStored
  <2>2. OwnIds(t) \subseteq EntityIds /\ (t # sc => OwnIds(t) \cap gone = {})
    BY <1>3, OwnIsKnown, OwnersApart
  <2>. HIDE DEF gone
  <2>3. \A i \in OwnIds(t) : /\ i \in gone => graph'[i] = Nothing
                             /\ i \notin gone => graph'[i] = graph[i]
    BY <1>1, <2>2
  <2>4. Nodes(t)' = Nodes(t) \ gone
    BY <2>1, <2>3
  <2>5. CASE t = sc
    <3>1. NodesOf(t)' = [i \in OwnIds(sc) |-> IF i \in ids THEN Nothing ELSE NodesOf(sc)[i]]
      <4>1. \A i \in OwnIds(sc) : NodesOf(t)'[i] = IF i \in ids THEN Nothing ELSE NodesOf(sc)[i]
        BY <1>4, <2>1, <2>3, <2>5 DEF gone
      <4>2. NodesOf(t)' = [i \in OwnIds(sc) |-> NodesOf(t)'[i]]
        BY <2>1, <2>5
      <4>. QED
        BY <4>1, <4>2
    <3>2. EdgesOf(t)' = EdgesOf(sc) \ Memory!Touching(EdgesOf(sc), ids)
      <4>1. ASSUME NEW x, {x.subject, x.object} \subseteq Nodes(sc)
            PROVE  {x.subject, x.object} \cap ids = {} <=> {x.subject, x.object} \cap gone = {}
        BY <4>1 DEF gone
      <4>2. \A x : x \in EdgesOf(t)' <=>
                     x \in relations /\ {x.subject, x.object} \subseteq Nodes(sc)
                     /\ {x.subject, x.object} \cap gone = {}
        BY <1>5, <1>6, <2>4, <2>5 DEF EdgesOf
      <4>3. \A x : x \in EdgesOf(sc) \ Memory!Touching(EdgesOf(sc), ids) <=>
                     x \in relations /\ {x.subject, x.object} \subseteq Nodes(sc)
                     /\ {x.subject, x.object} \cap gone = {}
        BY <4>1 DEF EdgesOf, Memory!Touching
      <4>. QED
        BY <4>2, <4>3
    <3>. QED
      BY <2>5, <3>1, <3>2
  <2>6. CASE t # sc
    <3>1. NodesOf(t)' = NodesOf(t)
      BY <2>1, <2>2, <2>3, <2>6
    <3>2. Nodes(t)' = Nodes(t) /\ Nodes(t) \cap gone = {}
      BY <2>1, <2>2, <2>4, <2>6
    <3>3. EdgesOf(t)' = EdgesOf(t)
      BY <1>5, <1>6, <3>2 DEF EdgesOf
    <3>. QED
      BY <2>6, <3>1, <3>3
  <2>. QED
    BY <2>5, <2>6
<1>. QED
  BY <1>7

(***************************************************************************)
(* No call reaches another scope.                                          *)
(***************************************************************************)

\* From what every call does to every memory, none touches a memory that is not the caller's.
LEMMA CallsStayHome ==
    ASSUME ScopesInv, NEW sc \in Scope, Call(sc), NEW t \in Scope \ {sc}
    PROVE  MemoryOf(t)' = MemoryOf(t)
<1>1. CASE ObjectCall(sc)
  <2>0. PICK key \in Keys : \E data : Put(sc, key, data)
    BY <1>1 DEF ObjectCall, Delete
  <2>1. PICK data : Put(sc, key, data)
    BY <2>0
  <2>2. UNCHANGED <<documentIndex, entityIndex, graph, relations>>
    BY <2>1 DEF Put
  <2>3. ObjectsOf(t)' = ObjectsOf(t)
    BY <2>1, PutActs
  <2>. QED
    BY <2>2, <2>3, MemoriesStay DEF MemoryOf
<1>2. CASE DocumentCall(sc)
  <2>1. UNCHANGED <<bucket, entityIndex, graph, relations>>
    BY <1>2 DEF DocumentCall, UpsertDocument, DeleteDocument
  <2>2. DocumentsOf(t)' = DocumentsOf(t)
    BY <1>2, UpsertDocumentActs, DeleteDocumentActs DEF DocumentCall
  <2>. QED
    BY <2>1, <2>2, MemoriesStay DEF MemoryOf
<1>3. CASE EntityCall(sc)
  <2>1. UNCHANGED <<bucket, documentIndex, graph, relations>>
    BY <1>3 DEF EntityCall, UpsertEntity, DeleteEntity
  <2>2. EntitiesOf(t)' = EntitiesOf(t)
    BY <1>3, UpsertEntityActs, DeleteEntityActs DEF EntityCall
  <2>. QED
    BY <2>1, <2>2, MemoriesStay DEF MemoryOf
<1>4. CASE GraphCall(sc)
  <2>1. UNCHANGED <<bucket, documentIndex, entityIndex>>
    BY <1>4 DEF GraphCall, UpsertNode, WriteTriple, DeleteDocumentEdges, DeleteNodes
  <2>2. NodesOf(t)' = NodesOf(t) /\ EdgesOf(t)' = EdgesOf(t)
    <3>1. CASE \E id \in OwnIds(sc), p \in Profiles : UpsertNode(sc, id, p)
      BY <3>1, UpsertNodeActs
    <3>2. CASE \E edge \in Memory!Edges(sc) : WriteTriple(sc, edge)
      <4>1. UNCHANGED graph
        BY <3>2 DEF WriteTriple
      <4>. QED
        BY <3>2, <4>1, WriteTripleActs, MemoriesStay
    <3>3. CASE \E doc \in DocIds : DeleteDocumentEdges(sc, doc)
      <4>1. UNCHANGED graph
        BY <3>3 DEF DeleteDocumentEdges
      <4>. QED
        BY <3>3, <4>1, DeleteDocumentEdgesActs, MemoriesStay
    <3>4. CASE \E other \in Scope : \E ids \in SUBSET OwnIds(other) : DeleteNodes(sc, ids)
      BY <3>4, DeleteNodesActs
    <3>. QED
      BY <1>4, <3>1, <3>2, <3>3, <3>4 DEF GraphCall
  <2>. QED
    BY <2>1, <2>2, MemoriesStay DEF MemoryOf
<1>. QED
  BY <1>1, <1>2, <1>3, <1>4 DEF Call

\* No call of one scope, whatever id, key or edge it names, changes what another scope has.
THEOREM OthersStayUntouched == Spec => OthersAreUntouched
<1>1. ScopesInv /\ [Next]_adapterVars =>
        [\A sc \in Scope : Call(sc) =>
            \A other \in Scope \ {sc} : MemoryOf(other)' = MemoryOf(other)]_adapterVars
  BY CallsStayHome
<1>. QED
  BY <1>1, ScopesAlways, PTL DEF Spec, OthersAreUntouched

(***************************************************************************)
(* The adapters implement a memory per scope.                              *)
(***************************************************************************)

\* What a memory says is present is what is stored.
LEMMA PresentIs ==
    ASSUME ScopesInv, NEW sc \in Scope
    PROVE  /\ Memory!Present(DocumentsOf(sc)) = {i \in OwnDocs(sc) : documentIndex[i] # Nothing}
           /\ Memory!Present(EntitiesOf(sc)) = {i \in OwnIds(sc) : entityIndex[i] # Nothing}
           /\ Memory!Present(NodesOf(sc)) = Nodes(sc)
<1>1. OwnDocs(sc) \subseteq DocIds /\ OwnIds(sc) \subseteq EntityIds
  BY OwnIsKnown
<1>2. Nothing \notin Document /\ Nothing \notin Entity /\ Nothing \notin Node
  BY AdapterAssumption
<1>3. ASSUME NEW i \in OwnDocs(sc), documentIndex[i] # Nothing
      PROVE  ToRecord(documentIndex[i]) # Nothing
  <2>. DEFINE source == documentIndex[i]
  <2>1. source \in DocumentSources
    BY <1>1, <1>3 DEF ScopesInv, StoresTyped
  <2>2. source.links \in SUBSET EntityIds /\ source.nested \in Seq(Int \cup {NoVector})
    BY <2>1 DEF DocumentSources
  <2>. HIDE DEF source
  <2>3. (\A j \in DOMAIN source.nested : source.nested[j] # NoVector)
            => source.nested \in Seq(Int \ {NoVector})
    BY <2>2
  <2>4. ToRecord(source) \in Document
    BY <2>2, <2>3 DEF ToRecord, Document
  <2>. QED
    BY <1>2, <2>4 DEF source
<1>4. ASSUME NEW i \in OwnIds(sc)
      PROVE  /\ entityIndex[i] # Nothing => ToEntity(entityIndex[i]) # Nothing
             /\ graph[i] # Nothing => ToNode(graph[i]) # Nothing
  <2>1. /\ entityIndex[i] # Nothing => entityIndex[i] \in EntitySources
        /\ graph[i] # Nothing => graph[i] \in NodeSources
    BY <1>1 DEF ScopesInv, StoresTyped
  <2>2. /\ entityIndex[i] # Nothing => ToEntity(entityIndex[i]) \in Entity
        /\ graph[i] # Nothing => ToNode(graph[i]) \in Node
    BY <2>1 DEF EntitySources, NodeSources, ToEntity, ToNode, Entity, Node
  <2>. QED
    BY <1>2, <2>2
<1>5. MemoriesAsStored
  BY MemoriesAre
<1>. QED
  BY <1>3, <1>4, <1>5 DEF MemoriesAsStored, Memory!Present

LEMMA MemoryInit == Init => Memory!Init
<1>. SUFFICES ASSUME Init PROVE Memory!Init
  OBVIOUS
<1>1. ScopesInv /\ MemoriesAsStored
  BY ScopesInit, MemoriesAre
<1>2. /\ DOMAIN OldDocuments \subseteq OwnDocs(Default)
      /\ DOMAIN OldEntities \subseteq OwnIds(Default)
      /\ DOMAIN OldNodes \subseteq OwnIds(Default)
      /\ DOMAIN OldObjects \subseteq {key \in Keys : MayName(Default, key)}
  BY AdapterAssumption
<1>3. ASSUME NEW sc \in Scope
      PROVE  /\ OwnDocs(sc) \subseteq DocIds /\ OwnIds(sc) \subseteq EntityIds
             /\ \A i \in OwnDocs(sc) : i \in DOMAIN OldDocuments => sc = Default
             /\ \A i \in OwnIds(sc) : i \in DOMAIN OldEntities => sc = Default
             /\ \A i \in OwnIds(sc) : i \in DOMAIN OldNodes => sc = Default
  BY <1>2, OwnIsKnown, OwnersApart, DefaultIsScope
<1>4. ASSUME NEW sc \in Scope
      PROVE  ObjectsOf(sc) = Memory!Old(sc, Memory!Named(sc), OldObjects)
  <2>1. ASSUME NEW k \in Keys, MayName(sc, k)
        PROVE  bucket[ObjectPath(sc, k)] =
                  IF sc = Default /\ k \in DOMAIN OldObjects THEN OldObjects[k] ELSE Nothing
    <3>1. bucket[ObjectPath(sc, k)] = IF ObjectPath(sc, k) \in DOMAIN OldObjects
                                      THEN OldObjects[ObjectPath(sc, k)] ELSE Nothing
      BY OlderType DEF Paths
    <3>2. ASSUME ObjectPath(sc, k) \in DOMAIN OldObjects PROVE sc = Default
      <4>1. ObjectPath(sc, k) \in Keys /\ MayName(Default, ObjectPath(sc, k))
        BY <1>2, <3>2
      <4>2. ObjectPath(Default, ObjectPath(sc, k)) = ObjectPath(sc, k)
        BY DEF ObjectPath
      <4>. QED
        BY <2>1, <4>1, <4>2, PathsApart, DefaultIsScope
    <3>3. sc = Default => ObjectPath(sc, k) = k
      BY DEF ObjectPath
    <3>. QED
      BY <3>1, <3>2, <3>3
  <2>2. Memory!Named(sc) = {k \in Keys : MayName(sc, k)} /\ Memory!Default = Default
    BY SameNames DEF Memory!Named
  <2>. QED
    BY <2>1, <2>2 DEF ObjectsOf, Get, Memory!Old
<1>5. ASSUME NEW sc \in Scope
      PROVE  DocumentsOf(sc) = Memory!Old(sc, Memory!OwnDocs(sc), OldDocuments)
  <2>1. \A i \in OwnDocs(sc) : /\ i \notin DOMAIN OldDocuments => documentIndex[i] = Nothing
                               /\ i \in DOMAIN OldDocuments =>
                                    /\ documentIndex[i] # Nothing
                                    /\ ToRecord(documentIndex[i]) = OldDocuments[i]
    BY <1>3, OlderType, OldDocumentType
  <2>2. DocumentsOf(sc) = [i \in OwnDocs(sc) |->
              IF documentIndex[i] = Nothing THEN Nothing ELSE ToRecord(documentIndex[i])]
    BY <1>1 DEF MemoriesAsStored
  <2>. QED
    BY <1>3, <2>1, <2>2, SameNames DEF Memory!Old
<1>6. ASSUME NEW sc \in Scope
      PROVE  EntitiesOf(sc) = Memory!Old(sc, Memory!OwnIds(sc), OldEntities)
  <2>1. \A i \in OwnIds(sc) : /\ i \notin DOMAIN OldEntities => entityIndex[i] = Nothing
                              /\ i \in DOMAIN OldEntities =>
                                    /\ entityIndex[i] # Nothing
                                    /\ ToEntity(entityIndex[i]) = OldEntities[i]
    BY <1>3, OlderType, OldEntityType
  <2>2. EntitiesOf(sc) = [i \in OwnIds(sc) |->
              IF entityIndex[i] = Nothing THEN Nothing ELSE ToEntity(entityIndex[i])]
    BY <1>1 DEF MemoriesAsStored
  <2>. QED
    BY <1>3, <2>1, <2>2, SameNames DEF Memory!Old
<1>7. ASSUME NEW sc \in Scope
      PROVE  /\ NodesOf(sc) = Memory!Old(sc, Memory!OwnIds(sc), OldNodes)
             /\ EdgesOf(sc) = IF sc = Default THEN OldEdges ELSE {}
  <2>1. \A i \in OwnIds(sc) : /\ i \notin DOMAIN OldNodes => graph[i] = Nothing
                              /\ i \in DOMAIN OldNodes =>
                                    graph[i] # Nothing /\ ToNode(graph[i]) = OldNodes[i]
    BY <1>3, OlderType, OldNodeType
  <2>2. /\ NodesOf(sc) = [i \in OwnIds(sc) |->
              IF graph[i] = Nothing THEN Nothing ELSE ToNode(graph[i])]
        /\ Nodes(sc) = {i \in OwnIds(sc) : graph[i] # Nothing}
    BY <1>1 DEF MemoriesAsStored
  <2>3. NodesOf(sc) = Memory!Old(sc, Memory!OwnIds(sc), OldNodes)
    BY <1>3, <2>1, <2>2, SameNames DEF Memory!Old
  <2>4. ASSUME NEW x \in OldEdges
        PROVE  {x.subject, x.object} \subseteq Nodes(sc) <=> sc = Default
    <3>1. x.subject \in DOMAIN OldNodes /\ x.object \in DOMAIN OldNodes
      BY AdapterAssumption
    <3>. QED
      BY <1>2, <1>3, <2>1, <2>2, <3>1
  <2>5. EdgesOf(sc) = IF sc = Default THEN OldEdges ELSE {}
    BY <2>4, OlderType DEF EdgesOf
  <2>. QED
    BY <2>3, <2>5
<1>. QED
  BY <1>4, <1>5, <1>6, <1>7, SameNames DEF Memory!Init

\* What the memories of all scopes are as one function, before and after a step.
LEMMA OneScopeActs ==
    ASSUME NEW sc \in Scope, NEW F, NEW G, NEW v,
           F = [t \in Scope |-> F[t]], G = [t \in Scope |-> G[t]],
           \A t \in Scope : G[t] = IF t = sc THEN v ELSE F[t]
    PROVE  G = [F EXCEPT ![sc] = v]
<1>1. [F EXCEPT ![sc] = v] = [t \in Scope |-> IF t = sc THEN v ELSE F[t]]
  OBVIOUS
<1>. QED
  BY <1>1

LEMMA PutImplements ==
    ASSUME ScopesInv, NEW sc \in Scope, NEW key \in Keys, NEW data \in Contents \cup {Nothing},
           Put(sc, key, data)
    PROVE  Memory!Next
<1>. DEFINE objects == [t \in Scope |-> ObjectsOf(t)]
<1>1. objects' = [objects EXCEPT ![sc] = [@ EXCEPT ![key] = data]]
  <2>. DEFINE v == [ObjectsOf(sc) EXCEPT ![key] = data]
              new == [t \in Scope |-> ObjectsOf(t)']
  <2>1. \A t \in Scope : new[t] = IF t = sc THEN v ELSE objects[t]
    BY PutActs
  <2>2. objects[sc] = ObjectsOf(sc) /\ objects = [t \in Scope |-> objects[t]]
        /\ new = [t \in Scope |-> new[t]]
    OBVIOUS
  <2>. HIDE DEF v, new, objects
  <2>3. new = [objects EXCEPT ![sc] = v]
    BY <2>1, <2>2, OneScopeActs
  <2>. QED
    BY <2>2, <2>3 DEF v, new, objects
<1>2. Memory!PutObject(sc, key, data)
  <2>1. MayName(sc, key) /\ UNCHANGED <<documentIndex, entityIndex, graph, relations>>
    BY DEF Put
  <2>. QED
    BY <1>1, <2>1, SameNames, MemoriesStay DEF Memory!PutObject
<1>. QED
  BY <1>2 DEF Memory!Next

LEMMA UpsertDocumentImplements ==
    ASSUME ScopesInv, NEW sc \in Scope, NEW id \in OwnDocs(sc), NEW r \in Records,
           UpsertDocument(sc, id, r)
    PROVE  Memory!Next
<1>. DEFINE documents == [t \in Scope |-> DocumentsOf(t)]
<1>1. documents' = [documents EXCEPT ![sc] = [@ EXCEPT ![id] = Memory!Stored(r, sc)]]
  <2>. DEFINE v == [DocumentsOf(sc) EXCEPT ![id] = Memory!Stored(r, sc)]
              new == [t \in Scope |-> DocumentsOf(t)']
  <2>1. \A t \in Scope : new[t] = IF t = sc THEN v ELSE documents[t]
    BY UpsertDocumentActs
  <2>2. documents[sc] = DocumentsOf(sc) /\ documents = [t \in Scope |-> documents[t]]
        /\ new = [t \in Scope |-> new[t]]
    OBVIOUS
  <2>. HIDE DEF v, new, documents
  <2>3. new = [documents EXCEPT ![sc] = v]
    BY <2>1, <2>2, OneScopeActs
  <2>. QED
    BY <2>2, <2>3 DEF v, new, documents
<1>2. Memory!UpsertDocument(sc, id, r)
  <2>1. UNCHANGED <<bucket, entityIndex, graph, relations>>
    BY DEF UpsertDocument
  <2>. QED
    BY <1>1, <2>1, MemoriesStay DEF Memory!UpsertDocument
<1>. QED
  BY <1>2, SameNames DEF Memory!Next

LEMMA DeleteDocumentImplements ==
    ASSUME ScopesInv, NEW sc \in Scope, NEW id \in DocIds, DeleteDocument(sc, id)
    PROVE  Memory!Next
<1>. DEFINE documents == [t \in Scope |-> DocumentsOf(t)]
<1>1. documents' = [documents EXCEPT ![sc] = [@ EXCEPT ![id] = Nothing]]
  <2>. DEFINE v == [DocumentsOf(sc) EXCEPT ![id] = Nothing]
              new == [t \in Scope |-> DocumentsOf(t)']
  <2>1. \A t \in Scope : new[t] = IF t = sc THEN v ELSE documents[t]
    BY DeleteDocumentActs
  <2>2. documents[sc] = DocumentsOf(sc) /\ documents = [t \in Scope |-> documents[t]]
        /\ new = [t \in Scope |-> new[t]]
    OBVIOUS
  <2>. HIDE DEF v, new, documents
  <2>3. new = [documents EXCEPT ![sc] = v]
    BY <2>1, <2>2, OneScopeActs
  <2>. QED
    BY <2>2, <2>3 DEF v, new, documents
<1>2. Memory!DeleteDocument(sc, id)
  <2>1. UNCHANGED <<bucket, entityIndex, graph, relations>>
    BY DEF DeleteDocument
  <2>. QED
    BY <1>1, <2>1, MemoriesStay DEF Memory!DeleteDocument
<1>. QED
  BY <1>2, SameNames, DeleteDocumentActs DEF Memory!Next

LEMMA UpsertEntityImplements ==
    ASSUME ScopesInv, NEW sc \in Scope, NEW id \in OwnIds(sc), NEW p \in Profiles,
           UpsertEntity(sc, id, p)
    PROVE  Memory!Next
<1>. DEFINE entities == [t \in Scope |-> EntitiesOf(t)]
<1>1. entities' = [entities EXCEPT ![sc] = [@ EXCEPT ![id] = p]]
  <2>. DEFINE v == [EntitiesOf(sc) EXCEPT ![id] = p]
              new == [t \in Scope |-> EntitiesOf(t)']
  <2>1. \A t \in Scope : new[t] = IF t = sc THEN v ELSE entities[t]
    BY UpsertEntityActs
  <2>2. entities[sc] = EntitiesOf(sc) /\ entities = [t \in Scope |-> entities[t]]
        /\ new = [t \in Scope |-> new[t]]
    OBVIOUS
  <2>. HIDE DEF v, new, entities
  <2>3. new = [entities EXCEPT ![sc] = v]
    BY <2>1, <2>2, OneScopeActs
  <2>. QED
    BY <2>2, <2>3 DEF v, new, entities
<1>2. Memory!UpsertEntity(sc, id, p)
  <2>1. UNCHANGED <<bucket, documentIndex, graph, relations>>
    BY DEF UpsertEntity
  <2>. QED
    BY <1>1, <2>1, MemoriesStay DEF Memory!UpsertEntity
<1>. QED
  BY <1>2, SameNames DEF Memory!Next

LEMMA DeleteEntityImplements ==
    ASSUME ScopesInv, NEW sc \in Scope, NEW id \in EntityIds, DeleteEntity(sc, id)
    PROVE  Memory!Next
<1>. DEFINE entities == [t \in Scope |-> EntitiesOf(t)]
<1>1. entities' = [entities EXCEPT ![sc] = [@ EXCEPT ![id] = Nothing]]
  <2>. DEFINE v == [EntitiesOf(sc) EXCEPT ![id] = Nothing]
              new == [t \in Scope |-> EntitiesOf(t)']
  <2>1. \A t \in Scope : new[t] = IF t = sc THEN v ELSE entities[t]
    BY DeleteEntityActs
  <2>2. entities[sc] = EntitiesOf(sc) /\ entities = [t \in Scope |-> entities[t]]
        /\ new = [t \in Scope |-> new[t]]
    OBVIOUS
  <2>. HIDE DEF v, new, entities
  <2>3. new = [entities EXCEPT ![sc] = v]
    BY <2>1, <2>2, OneScopeActs
  <2>. QED
    BY <2>2, <2>3 DEF v, new, entities
<1>2. Memory!DeleteEntity(sc, id)
  <2>1. UNCHANGED <<bucket, documentIndex, graph, relations>>
    BY DEF DeleteEntity
  <2>. QED
    BY <1>1, <2>1, MemoriesStay DEF Memory!DeleteEntity
<1>. QED
  BY <1>2, SameNames, DeleteEntityActs DEF Memory!Next

LEMMA UpsertNodeImplements ==
    ASSUME ScopesInv, NEW sc \in Scope, NEW id \in OwnIds(sc), NEW p \in Profiles,
           UpsertNode(sc, id, p)
    PROVE  Memory!Next
<1>. DEFINE nodes == [t \in Scope |-> NodesOf(t)]
            edges == [t \in Scope |-> EdgesOf(t)]
<1>1. nodes' = [nodes EXCEPT ![sc] = [@ EXCEPT ![id] = Memory!Drawn(p)]]
  <2>. DEFINE v == [NodesOf(sc) EXCEPT ![id] = Memory!Drawn(p)]
              new == [t \in Scope |-> NodesOf(t)']
  <2>1. \A t \in Scope : new[t] = IF t = sc THEN v ELSE nodes[t]
    BY UpsertNodeActs
  <2>2. nodes[sc] = NodesOf(sc) /\ nodes = [t \in Scope |-> nodes[t]]
        /\ new = [t \in Scope |-> new[t]]
    OBVIOUS
  <2>. HIDE DEF v, new, nodes
  <2>3. new = [nodes EXCEPT ![sc] = v]
    BY <2>1, <2>2, OneScopeActs
  <2>. QED
    BY <2>2, <2>3 DEF v, new, nodes
<1>2. edges' = edges
  BY UpsertNodeActs
<1>3. Memory!UpsertNode(sc, id, p)
  <2>1. UNCHANGED <<bucket, documentIndex, entityIndex>>
    BY DEF UpsertNode
  <2>. QED
    BY <1>1, <1>2, <2>1, MemoriesStay DEF Memory!UpsertNode
<1>. QED
  BY <1>3, SameNames DEF Memory!Next

LEMMA WriteTripleImplements ==
    ASSUME ScopesInv, NEW sc \in Scope, NEW edge \in Memory!Edges(sc), WriteTriple(sc, edge)
    PROVE  Memory!Next
<1>. DEFINE nodes == [t \in Scope |-> NodesOf(t)]
            edges == [t \in Scope |-> EdgesOf(t)]
<1>1. edges' = [edges EXCEPT ![sc] = @ \cup {edge}]
  <2>. DEFINE v == EdgesOf(sc) \cup {edge}
              new == [t \in Scope |-> EdgesOf(t)']
  <2>1. \A t \in Scope : new[t] = IF t = sc THEN v ELSE edges[t]
    BY WriteTripleActs
  <2>2. edges[sc] = EdgesOf(sc) /\ edges = [t \in Scope |-> edges[t]]
        /\ new = [t \in Scope |-> new[t]]
    OBVIOUS
  <2>. HIDE DEF v, new, edges
  <2>3. new = [edges EXCEPT ![sc] = v]
    BY <2>1, <2>2, OneScopeActs
  <2>. QED
    BY <2>2, <2>3 DEF v, new, edges
<1>2. {edge.subject, edge.object} \subseteq Memory!Present(nodes[sc])
  BY WriteTripleActs, PresentIs
<1>3. Memory!WriteTriple(sc, edge)
  <2>1. UNCHANGED <<bucket, documentIndex, entityIndex, graph>>
    BY DEF WriteTriple
  <2>. QED
    BY <1>1, <1>2, <2>1, MemoriesStay DEF Memory!WriteTriple
<1>. QED
  BY <1>3 DEF Memory!Next

\* A document of another scope has no edge of this one: nothing is deleted for it.
LEMMA DeleteDocumentEdgesImplements ==
    ASSUME ScopesInv, NEW sc \in Scope, NEW doc \in DocIds, DeleteDocumentEdges(sc, doc)
    PROVE  Memory!Next \/ UNCHANGED Memory!memoryVars
<1>. DEFINE edges == [t \in Scope |-> EdgesOf(t)]
<1>1. UNCHANGED <<bucket, documentIndex, entityIndex, graph>>
  BY DEF DeleteDocumentEdges
<1>2. CASE doc \in OwnDocs(sc)
  <2>1. edges' = [edges EXCEPT ![sc] = {x \in @ : x.doc # doc}]
    <3>. DEFINE v == {x \in EdgesOf(sc) : x.doc # doc}
                new == [t \in Scope |-> EdgesOf(t)']
    <3>1. \A t \in Scope : new[t] = IF t = sc THEN v ELSE edges[t]
      BY DeleteDocumentEdgesActs
    <3>2. edges[sc] = EdgesOf(sc) /\ edges = [t \in Scope |-> edges[t]]
          /\ new = [t \in Scope |-> new[t]]
      OBVIOUS
    <3>. HIDE DEF v, new, edges
    <3>3. new = [edges EXCEPT ![sc] = v]
      BY <3>1, <3>2, OneScopeActs
    <3>. QED
      BY <3>2, <3>3 DEF v, new, edges
  <2>2. Memory!DeleteDocumentEdges(sc, doc)
    BY <1>1, <2>1, MemoriesStay DEF Memory!DeleteDocumentEdges
  <2>. QED
    BY <1>2, <2>2, SameNames DEF Memory!Next
<1>3. CASE doc \notin OwnDocs(sc)
  <2>1. \A t \in Scope : EdgesOf(t)' = EdgesOf(t)
    <3>1. \A x \in EdgesOf(sc) : x.doc # doc
      BY <1>3, EdgesAreOf
    <3>2. {x \in EdgesOf(sc) : x.doc # doc} = EdgesOf(sc)
      BY <3>1
    <3>. QED
      BY <3>2, DeleteDocumentEdgesActs
  <2>. QED
    BY <1>1, <2>1, MemoriesStay DEF Memory!memoryVars
<1>. QED
  BY <1>2, <1>3

\* Of the nodes asked for, the scope's own are deleted.
LEMMA DeleteNodesImplements ==
    ASSUME ScopesInv, NEW sc \in Scope, NEW ids, DeleteNodes(sc, ids)
    PROVE  Memory!Next
<1>. DEFINE nodes == [t \in Scope |-> NodesOf(t)]
            edges == [t \in Scope |-> EdgesOf(t)]
            own == ids \cap OwnIds(sc)
<1>1. DOMAIN NodesOf(sc) = OwnIds(sc)
  BY DEF NodesOf
<1>2. /\ [i \in OwnIds(sc) |-> IF i \in ids THEN Nothing ELSE NodesOf(sc)[i]] =
            [i \in OwnIds(sc) |-> IF i \in own THEN Nothing ELSE NodesOf(sc)[i]]
      /\ Memory!Touching(EdgesOf(sc), ids) = Memory!Touching(EdgesOf(sc), own)
  <2>1. \A x \in EdgesOf(sc) : {x.subject, x.object} \subseteq OwnIds(sc)
    BY OwnIsFound DEF EdgesOf
  <2>. QED
    BY <2>1 DEF Memory!Touching
<1>. HIDE DEF own
<1>3. nodes' = [nodes EXCEPT ![sc] = [i \in DOMAIN @ |-> IF i \in own THEN Nothing ELSE @[i]]]
  <2>. DEFINE v == [i \in OwnIds(sc) |-> IF i \in own THEN Nothing ELSE NodesOf(sc)[i]]
              new == [t \in Scope |-> NodesOf(t)']
  <2>1. \A t \in Scope : new[t] = IF t = sc THEN v ELSE nodes[t]
    BY <1>2, DeleteNodesActs
  <2>2. nodes[sc] = NodesOf(sc) /\ nodes = [t \in Scope |-> nodes[t]]
        /\ new = [t \in Scope |-> new[t]]
    OBVIOUS
  <2>3. v = [i \in DOMAIN nodes[sc] |-> IF i \in own THEN Nothing ELSE nodes[sc][i]]
    BY <1>1, <2>2
  <2>. HIDE DEF v, new, nodes
  <2>4. new = [nodes EXCEPT ![sc] = v]
    BY <2>1, <2>2, OneScopeActs
  <2>5. nodes' = new
    BY DEF nodes, new
  <2>. QED
    BY <2>3, <2>4, <2>5
<1>4. edges' = [edges EXCEPT ![sc] = @ \ Memory!Touching(@, own)]
  <2>. DEFINE v == EdgesOf(sc) \ Memory!Touching(EdgesOf(sc), own)
              new == [t \in Scope |-> EdgesOf(t)']
  <2>1. \A t \in Scope : new[t] = IF t = sc THEN v ELSE edges[t]
    BY <1>2, DeleteNodesActs
  <2>2. edges[sc] = EdgesOf(sc) /\ edges = [t \in Scope |-> edges[t]]
        /\ new = [t \in Scope |-> new[t]]
    OBVIOUS
  <2>. HIDE DEF v, new, edges
  <2>3. new = [edges EXCEPT ![sc] = v]
    BY <2>1, <2>2, OneScopeActs
  <2>. QED
    BY <2>2, <2>3 DEF v, new, edges
<1>5. Memory!DeleteNodes(sc, own)
  <2>1. UNCHANGED <<bucket, documentIndex, entityIndex>>
    BY DEF DeleteNodes
  <2>. QED
    BY <1>3, <1>4, <2>1, MemoriesStay DEF Memory!DeleteNodes
<1>6. own \in SUBSET Memory!OwnIds(sc)
  BY SameNames DEF own
<1>. QED
  BY <1>5, <1>6 DEF Memory!Next

LEMMA MemoryStep == ScopesInv /\ [Next]_adapterVars => [Memory!Next]_(Memory!memoryVars)
<1>. SUFFICES ASSUME ScopesInv, [Next]_adapterVars
              PROVE  Memory!Next \/ UNCHANGED Memory!memoryVars
  OBVIOUS
<1>1. ASSUME NEW sc \in Scope, ObjectCall(sc) PROVE Memory!Next
  BY <1>1, PutImplements DEF ObjectCall, Delete
<1>2. ASSUME NEW sc \in Scope, DocumentCall(sc) PROVE Memory!Next
  BY <1>2, UpsertDocumentImplements, DeleteDocumentImplements DEF DocumentCall
<1>3. ASSUME NEW sc \in Scope, EntityCall(sc) PROVE Memory!Next
  BY <1>3, UpsertEntityImplements, DeleteEntityImplements DEF EntityCall
<1>4. ASSUME NEW sc \in Scope, GraphCall(sc)
      PROVE  Memory!Next \/ UNCHANGED Memory!memoryVars
  BY <1>4, UpsertNodeImplements, WriteTripleImplements, DeleteDocumentEdgesImplements,
     DeleteNodesImplements DEF GraphCall
<1>5. CASE UNCHANGED adapterVars
  BY <1>5, MemoriesStay DEF adapterVars, Memory!memoryVars
<1>. QED
  BY <1>1, <1>2, <1>3, <1>4, <1>5 DEF Next, Call

\* The adapters, on one shared index, graph and bucket, implement a memory per scope
\* (adapters/scoping.py): each write does to its scope's memory what the in-memory stores do.
THEOREM AdaptersImplementMemory == Spec => ImplementsScopedMemory
BY MemoryInit, MemoryStep, ScopesAlways, PTL DEF Spec, ImplementsScopedMemory, Memory!Spec

(***************************************************************************)
(* Every read answers as the scope's own memory would.                     *)
(***************************************************************************)

\* A set that holds 0 and, with each number up to n, the next one, holds all up to n.
LEMMA LeastNat ==
    ASSUME NEW T, T \subseteq Nat, T # {}
    PROVE  \E n \in T : \A m \in T : n <= m
<1>. DEFINE R == {p \in Nat \X Nat : p[1] < p[2]}
<1>1. IsWellFoundedOn(R, Nat)
  BY NatLessThanWellFounded DEF OpToRel
<1>2. \A x, y \in Nat : x < y => <<x, y>> \in R
  OBVIOUS
<1>. HIDE DEF R
<1>3. PICK x \in T : \A y \in T : ~(<<y, x>> \in R)
  BY <1>1, WFMin
<1>4. \A y \in T : x <= y
  <2>1. TAKE y \in T
  <2>2. x \in Nat /\ y \in Nat /\ ~(y < x)
    BY <1>2, <1>3
  <2>. QED
    BY <2>2
<1>. QED
  BY <1>4

LEMMA UpTo ==
    ASSUME NEW n \in Nat, NEW T, 0 \in T, \A k \in 1..n : k - 1 \in T => k \in T
    PROVE  0..n \subseteq T
<1>. DEFINE Bad == (0..n) \ T
<1>1. ASSUME Bad # {} PROVE FALSE
  <2>1. Bad \subseteq Nat
    OBVIOUS
  <2>2. PICK k \in Bad : \A m \in Bad : k <= m
    <3>. HIDE DEF Bad
    <3>. QED
      BY <1>1, <2>1, LeastNat
  <2>3. k \in 1..n /\ k - 1 \in 0..n /\ k - 1 \notin Bad
    BY <2>2
  <2>. QED
    BY <2>2, <2>3
<1>. QED
  BY <1>1

\* Entities: by id, by type and name, by similarity, all of them.
LEMMA EntitiesAnswer == ScopesInv => EntityAnswers
<1>. SUFFICES ASSUME ScopesInv, NEW sc \in Scope
     PROVE  /\ \A id \in EntityIds : GetEntity(sc, id) = Memory!Found(EntitiesOf(sc), id)
            /\ \A type \in Memory!Types, n \in DOMAIN Normalized :
                  BlockCandidates(sc, type, Normalized[n]) =
                    Memory!Candidates(EntitiesOf(sc), type, Normalized[n])
            /\ \A types \in {Memory!Types} \cup {{t} : t \in Memory!Types} :
                  Knn(sc, types) = Memory!Best(Memory!Scored(EntitiesOf(sc), types), TopK)
            /\ AllEntities(sc) = Memory!Present(EntitiesOf(sc))
  BY DEF EntityAnswers
<1>. DEFINE m == EntitiesOf(sc)
            present == Memory!Present(m)
<1>1. /\ m = [i \in OwnIds(sc) |->
                IF entityIndex[i] = Nothing THEN Nothing ELSE ToEntity(entityIndex[i])]
      /\ present = {i \in OwnIds(sc) : entityIndex[i] # Nothing}
  BY MemoriesAre, PresentIs DEF MemoriesAsStored
<1>2. OwnIds(sc) \subseteq EntityIds
  BY OwnIsKnown
<1>3. Hits(entityIndex, sc) = present
  BY <1>1, OwnIsFound
<1>4. \A i \in present : /\ m[i].type = entityIndex[i].type /\ m[i].name = entityIndex[i].name
                         /\ m[i].aliases = entityIndex[i].aliases
                         /\ m[i].vector = entityIndex[i].vector
  BY <1>1 DEF ToEntity
<1>5. \A id \in EntityIds : GetEntity(sc, id) = Memory!Found(m, id)
  BY <1>1, OwnIsFound DEF GetEntity, Memory!Found
<1>. HIDE DEF m, present
<1>6. ASSUME NEW type, NEW name
      PROVE  BlockCandidates(sc, type, name) = Memory!Candidates(m, type, name)
  <2>1. ASSUME NEW i \in present
        PROVE  name \in Memory!NamesOf(m[i]) <=>
                  entityIndex[i].normalizedName = name \/ name \in entityIndex[i].aliasesNormalized
    <3>1. /\ entityIndex[i].normalizedName = Normalized[m[i].name]
          /\ entityIndex[i].aliasesNormalized = {Normalized[a] : a \in m[i].aliases}
      BY <1>1, <1>2, <1>4 DEF ScopesInv, NamesAreIndexed
    <3>. QED
      BY <3>1 DEF Memory!NamesOf
  <2>. QED
    BY <1>3, <1>4, <2>1 DEF BlockCandidates, Memory!Candidates, present
<1>7. ASSUME NEW types
      PROVE  Knn(sc, types) = Memory!Best(Memory!Scored(m, types), TopK)
  <2>. DEFINE indexed == {i \in Hits(entityIndex, sc) :
                            entityIndex[i].vector # NoVector /\ entityIndex[i].type \in types}
              stored == {j \in present : m[j].type \in types /\ m[j].vector # NoVector}
  <2>1. indexed = stored
    BY <1>3, <1>4
  <2>2. {[id |-> i, score |-> entityIndex[i].vector] : i \in indexed} =
            {[id |-> i, score |-> m[i].vector] : i \in stored}
    BY <1>4, <2>1
  <2>. QED
    BY <2>2 DEF Knn, Memory!Scored, present
<1>. QED
  BY <1>3, <1>5, <1>6, <1>7 DEF m, present, AllEntities

(***************************************************************************)
(* The walk of khop goes through any node; it stays in the scope it starts *)
(* in because every edge does.                                             *)
(***************************************************************************)
IsWalked(g, sc, seeds, n) ==
    g = [k \in 0..n |-> IF k = 0 THEN seeds \cap Nodes(sc)
                        ELSE g[k - 1] \cup Memory!Neighbours(relations, g[k - 1])]

IsAround(g, sc, seeds, n) ==
    g = [k \in 0..n |-> IF k = 0 THEN seeds \cap Memory!Present(NodesOf(sc))
                        ELSE g[k - 1] \cup (Memory!Neighbours(EdgesOf(sc), g[k - 1])
                                              \cap Memory!Present(NodesOf(sc)))]

LEMMA NeighboursStay ==
    ASSUME ScopesInv, NEW sc \in Scope, NEW S, S \subseteq Nodes(sc)
    PROVE  /\ Memory!Neighbours(relations, S) = Memory!Neighbours(EdgesOf(sc), S)
           /\ Memory!Neighbours(relations, S) \subseteq Nodes(sc)
<1>1. Nodes(sc) \subseteq OwnIds(sc)
  BY OwnIsFound
<1>2. ASSUME NEW x \in relations, {x.subject, x.object} \cap S # {}
      PROVE  x \in EdgesOf(sc) /\ {x.subject, x.object} \subseteq Nodes(sc)
  BY <1>1, <1>2, EdgesAreOf DEF EdgesOf
<1>3. {y \in relations : {y.subject, y.object} \cap S # {}} =
        {y \in EdgesOf(sc) : {y.subject, y.object} \cap S # {}}
  BY <1>2 DEF EdgesOf
<1>4. Memory!Neighbours(relations, S) \subseteq Nodes(sc)
  BY <1>2 DEF Memory!Neighbours
<1>. QED
  BY <1>3, <1>4 DEF Memory!Neighbours

LEMMA AroundExists ==
    ASSUME NEW sc, NEW seeds, NEW n \in Nat
    PROVE  \E g : IsAround(g, sc, seeds, n)
<1>. DEFINE T == {j \in Nat : \E g : IsAround(g, sc, seeds, j)}
            P == Memory!Present(NodesOf(sc))
            step(S) == S \cup (Memory!Neighbours(EdgesOf(sc), S) \cap P)
<1>1. ASSUME NEW g, NEW j
      PROVE  IsAround(g, sc, seeds, j) <=>
                g = [k \in 0..j |-> IF k = 0 THEN seeds \cap P ELSE step(g[k - 1])]
  BY DEF IsAround
<1>. HIDE DEF P, step
<1>2. 0 \in T
  <2>. DEFINE h == [k \in 0..0 |-> seeds \cap P]
  <2>1. h = [k \in 0..0 |-> IF k = 0 THEN seeds \cap P ELSE step(h[k - 1])]
    OBVIOUS
  <2>2. IsAround(h, sc, seeds, 0)
    BY <1>1, <2>1
  <2>. QED
    BY <2>2
<1>3. ASSUME NEW j \in 1..n, j - 1 \in T PROVE j \in T
  <2>1. PICK g : IsAround(g, sc, seeds, j - 1)
    BY <1>3
  <2>2. g = [k \in 0..(j - 1) |-> IF k = 0 THEN seeds \cap P ELSE step(g[k - 1])]
    BY <1>1, <2>1
  <2>. DEFINE h == [k \in 0..j |-> IF k = 0 THEN seeds \cap P ELSE step(g[k - 1])]
  <2>3. \A k \in 0..(j - 1) : h[k] = g[k]
    <3>1. TAKE k \in 0..(j - 1)
    <3>2. k \in 0..j
      OBVIOUS
    <3>3. h[k] = IF k = 0 THEN seeds \cap P ELSE step(g[k - 1])
      BY <3>2
    <3>4. g[k] = IF k = 0 THEN seeds \cap P ELSE step(g[k - 1])
      BY <2>2
    <3>. QED
      BY <3>3, <3>4
  <2>4. h = [k \in 0..j |-> IF k = 0 THEN seeds \cap P ELSE step(h[k - 1])]
    <3>1. \A k \in 0..j : k # 0 => k - 1 \in 0..(j - 1)
      OBVIOUS
    <3>2. \A k \in 0..j : k # 0 => h[k - 1] = g[k - 1]
      BY <2>3, <3>1
    <3>. QED
      BY <3>2
  <2>5. IsAround(h, sc, seeds, j)
    BY <1>1, <2>4
  <2>. QED
    BY <2>5
<1>. HIDE DEF T
<1>4. n \in T
  BY <1>2, <1>3, UpTo
<1>. QED
  BY <1>4 DEF T

\* A walk in the scope's own graph is one in everybody's, and there is only one.
LEMMA AroundIsWalked ==
    ASSUME ScopesInv, NEW sc \in Scope, NEW seeds, NEW n \in Nat, NEW g, IsAround(g, sc, seeds, n)
    PROVE  IsWalked(g, sc, seeds, n) /\ \A k \in 0..n : g[k] \subseteq Nodes(sc)
<1>1. Memory!Present(NodesOf(sc)) = Nodes(sc)
  BY PresentIs
<1>. DEFINE T == {k \in 0..n : g[k] \subseteq Nodes(sc)}
<1>2. 0 \in T
  BY <1>1 DEF IsAround
<1>3. ASSUME NEW k \in 1..n, k - 1 \in T PROVE k \in T
  <2>1. k \in 0..n /\ k # 0
    OBVIOUS
  <2>2. g[k] = g[k - 1] \cup (Memory!Neighbours(EdgesOf(sc), g[k - 1]) \cap Nodes(sc))
    BY <1>1, <2>1 DEF IsAround
  <2>. QED
    BY <1>3, <2>1, <2>2
<1>. HIDE DEF T
<1>4. \A k \in 0..n : g[k] \subseteq Nodes(sc)
  BY <1>2, <1>3, UpTo DEF T
<1>5. ASSUME NEW k \in 0..n, k # 0
      PROVE  Memory!Neighbours(EdgesOf(sc), g[k - 1]) \cap Nodes(sc) =
                Memory!Neighbours(relations, g[k - 1])
  <2>1. g[k - 1] \subseteq Nodes(sc)
    BY <1>4, <1>5
  <2>. QED
    BY <2>1, NeighboursStay
<1>6. IsWalked(g, sc, seeds, n)
  BY <1>1, <1>5 DEF IsAround, IsWalked
<1>. QED
  BY <1>4, <1>6

LEMMA WalksAgree ==
    ASSUME NEW sc, NEW seeds, NEW n \in Nat, NEW g, NEW h,
           IsWalked(g, sc, seeds, n), IsWalked(h, sc, seeds, n)
    PROVE  g[n] = h[n]
<1>. DEFINE T == {k \in 0..n : g[k] = h[k]}
<1>1. 0 \in T
  BY DEF IsWalked
<1>2. ASSUME NEW k \in 1..n, k - 1 \in T PROVE k \in T
  <2>1. k \in 0..n /\ k # 0
    OBVIOUS
  <2>2. g[k] = g[k - 1] \cup Memory!Neighbours(relations, g[k - 1])
    BY <2>1 DEF IsWalked
  <2>3. h[k] = h[k - 1] \cup Memory!Neighbours(relations, h[k - 1])
    BY <2>1 DEF IsWalked
  <2>. QED
    BY <1>2, <2>1, <2>2, <2>3
<1>. HIDE DEF T
<1>3. 0..n \subseteq T /\ n \in 0..n
  BY <1>1, <1>2, UpTo
<1>4. n \in T
  BY <1>3
<1>. QED
  BY <1>4 DEF T

LEMMA WalkedIsAround ==
    ASSUME ScopesInv, NEW sc \in Scope, NEW seeds, NEW n \in Nat
    PROVE  Walked(sc, seeds, n) = Memory!Around(NodesOf(sc), EdgesOf(sc), seeds, n)
<1>. DEFINE a == CHOOSE g : IsAround(g, sc, seeds, n)
            w == CHOOSE g : IsWalked(g, sc, seeds, n)
<1>1. IsAround(a, sc, seeds, n)
  BY AroundExists
<1>2. Memory!Around(NodesOf(sc), EdgesOf(sc), seeds, n) = a[n]
  BY DEF Memory!Around, IsAround
<1>3. Walked(sc, seeds, n) = w[n] \cap Nodes(sc)
  BY DEF Walked, IsWalked
<1>. HIDE DEF a
<1>4. IsWalked(a, sc, seeds, n) /\ a[n] \subseteq Nodes(sc)
  BY <1>1, AroundIsWalked
<1>5. IsWalked(w, sc, seeds, n)
  BY <1>4
<1>. HIDE DEF w
<1>6. w[n] = a[n]
  BY <1>4, <1>5, WalksAgree
<1>. QED
  BY <1>2, <1>3, <1>4, <1>6

\* The graph, also when the seeds of a walk are of another scope.
LEMMA GraphAnswersAlike == ScopesInv => GraphAnswers
<1>. SUFFICES ASSUME ScopesInv, NEW sc \in Scope
     PROVE  /\ \A seeds \in SUBSET EntityIds, hops \in 0..Hops :
                  Walked(sc, seeds, hops) = Memory!Around(NodesOf(sc), EdgesOf(sc), seeds, hops)
            /\ \A id \in EntityIds :
                  /\ GetNode(sc, id) = Memory!Found(NodesOf(sc), id)
                  /\ GetNodeEdges(sc, id) = Memory!Touching(EdgesOf(sc), {id})
  BY DEF GraphAnswers
<1>1. \A seeds \in SUBSET EntityIds, hops \in 0..Hops :
          Walked(sc, seeds, hops) = Memory!Around(NodesOf(sc), EdgesOf(sc), seeds, hops)
  <2>1. 0..Hops \subseteq Nat
    OBVIOUS
  <2>. QED
    BY <2>1, WalkedIsAround
<1>2. ASSUME NEW id \in EntityIds
      PROVE  /\ GetNode(sc, id) = Memory!Found(NodesOf(sc), id)
             /\ GetNodeEdges(sc, id) = Memory!Touching(EdgesOf(sc), {id})
  <2>1. NodesOf(sc) = [i \in OwnIds(sc) |->
              IF graph[i] = Nothing THEN Nothing ELSE ToNode(graph[i])]
    BY MemoriesAre DEF MemoriesAsStored
  <2>2. GetNode(sc, id) = Memory!Found(NodesOf(sc), id)
    BY <2>1, OwnIsFound DEF GetNode, Memory!Found
  <2>3. GetNodeEdges(sc, id) = Memory!Touching(EdgesOf(sc), {id})
    BY DEF GetNodeEdges, EdgesOf, Memory!Touching
  <2>. QED
    BY <2>2, <2>3
<1>. QED
  BY <1>1, <1>2

(***************************************************************************)
(* The best n of a finite set: there are some, and the best of a part that *)
(* leaves nothing better out are the best of the whole.                    *)
(***************************************************************************)

LEMMA ImageIsFinite ==
    ASSUME NEW S, NEW f, IsFiniteSet(S)
    PROVE  /\ IsFiniteSet({f[x] : x \in S})
           /\ (\A x, y \in S : f[x] = f[y] => x = y) => Cardinality({f[x] : x \in S}) = Cardinality(S)
<1>. DEFINE T == {f[x] : x \in S}
            g == [x \in S |-> f[x]]
<1>1. g \in Surjection(S, T)
  BY DEF Surjection
<1>2. (\A x, y \in S : f[x] = f[y] => x = y) => g \in Injection(S, T)
  BY DEF Injection, IsInjective
<1>. HIDE DEF g, T
<1>3. IsFiniteSet(T) /\ (Cardinality(T) = Cardinality(S) <=> g \in Injection(S, T))
  BY <1>1, FS_Surjection
<1>. QED
  BY <1>2, <1>3 DEF T

\* A finite set with an element has one with the highest score.
LEMMA Highest ==
    ASSUME NEW S, IsFiniteSet(S), S # {}, \A s \in S : s.score \in Int
    PROVE  \E t \in S : \A s \in S : s.score <= t.score
<1>. DEFINE n == Cardinality(S)
<1>1. n \in Nat /\ n # 0 /\ ExistsBijection(1..n, S)
  BY FS_CardinalityType, FS_EmptySet
<1>. HIDE DEF n
<1>2. PICK b \in Bijection(1..n, S) : TRUE
  BY <1>1 DEF ExistsBijection
<1>3. /\ \A i \in 1..n : b[i] \in S
      /\ \A s \in S : \E i \in 1..n : b[i] = s
  BY <1>2 DEF Bijection, Surjection
<1>4. \A i \in 1..n : b[i].score \in Int
  BY <1>3
<1>. DEFINE T == {k \in 0..n : k = 0 \/ \E j \in 1..k : \A i \in 1..k : b[i].score <= b[j].score}
<1>5. 0 \in T
  BY <1>1
<1>6. ASSUME NEW k \in 1..n, k - 1 \in T PROVE k \in T
  <2>1. CASE k = 1
    <3>1. \A i \in 1..k : b[i].score <= b[1].score
      BY <1>4, <2>1
    <3>. QED
      BY <2>1, <3>1
  <2>2. CASE k # 1
    <3>1. PICK j \in 1..(k - 1) : \A i \in 1..(k - 1) : b[i].score <= b[j].score
      BY <1>6, <2>2
    <3>2. j \in 1..n /\ j \in 1..k /\ k \in 1..n
      BY <1>1, <3>1
    <3>2a. b[j].score \in Int /\ b[k].score \in Int
      BY <1>4, <3>2
    <3>3. \A i \in 1..k : i = k \/ i \in 1..(k - 1)
      OBVIOUS
    <3>4. CASE b[k].score <= b[j].score
      <4>1. \A i \in 1..k : b[i].score <= b[j].score
        BY <3>1, <3>3, <3>4
      <4>. QED
        BY <3>2, <4>1
    <3>5. CASE ~(b[k].score <= b[j].score)
      <4>1. ASSUME NEW i \in 1..k PROVE b[i].score <= b[k].score
        <5>0. i \in 1..n
          BY <1>1
        <5>1. b[i].score \in Int
          BY <1>4, <5>0
        <5>2. CASE i = k
          BY <3>2a, <5>2
        <5>3. CASE i \in 1..(k - 1)
          <6>1. b[i].score <= b[j].score
            BY <3>1, <5>3
          <6>. QED
            BY <3>2a, <3>5, <5>1, <6>1
        <5>. QED
          BY <3>3, <5>2, <5>3
      <4>. QED
        BY <4>1
    <3>. QED
      BY <3>4, <3>5
  <2>. QED
    BY <2>1, <2>2
<1>. HIDE DEF T
<1>7. n \in T
  BY <1>1, <1>5, <1>6, UpTo
<1>8. PICK j \in 1..n : \A i \in 1..n : b[i].score <= b[j].score
  BY <1>1, <1>7 DEF T
<1>. QED
  BY <1>3, <1>8

\* how many there are is the same on both sides
LEMMA BestIs ==
    ASSUME NEW S, NEW n
    PROVE  Memory!Best(S, n) =
              {T \in SUBSET S :
                  /\ Cardinality(T) = IF n < Cardinality(S) THEN n ELSE Cardinality(S)
                  /\ \A t \in T, s \in S \ T : t.score >= s.score}
<1>1. \A X : Memory!Cardinality(X) = Cardinality(X)
  BY DEF Memory!Cardinality, Cardinality
<1>. QED
  BY <1>1 DEF Memory!Best

LEMMA BestCounts ==
    ASSUME NEW S, NEW n \in Nat, NEW T \in Memory!Best(S, n), IsFiniteSet(S)
    PROVE  /\ T \subseteq S /\ IsFiniteSet(T) /\ Cardinality(T) \in Nat /\ Cardinality(T) <= n
           /\ T # S => Cardinality(T) = n
           /\ n # 0 /\ S # {} => T # {}
           /\ \A t \in T, s \in S \ T : t.score >= s.score
<1>1. /\ T \subseteq S /\ Cardinality(T) = IF n < Cardinality(S) THEN n ELSE Cardinality(S)
      /\ \A t \in T, s \in S \ T : t.score >= s.score
  BY BestIs
<1>2. IsFiniteSet(T) /\ Cardinality(S) \in Nat /\ Cardinality(T) \in Nat
      /\ (Cardinality(S) = Cardinality(T) => S = T)
  BY <1>1, FS_Subset, FS_CardinalityType
<1>3. (Cardinality(S) = 0 <=> S = {}) /\ (Cardinality(T) = 0 <=> T = {})
  BY <1>2, FS_EmptySet
<1>. QED
  BY <1>1, <1>2, <1>3

LEMMA BestExists ==
    ASSUME NEW S, NEW n \in Nat, IsFiniteSet(S), \A s \in S : s.score \in Int
    PROVE  \E T : T \in Memory!Best(S, n)
<1>. DEFINE K == {k \in 0..n : \E T : T \in Memory!Best(S, k)}
<1>1. Cardinality(S) \in Nat
  BY FS_CardinalityType
<1>2. 0 \in K
  <2>1. {} \in Memory!Best(S, 0)
    BY <1>1, FS_EmptySet, BestIs
  <2>. QED
    BY <2>1
<1>3. ASSUME NEW k \in 1..n, k - 1 \in K PROVE k \in K
  <2>1. PICK T : T \in Memory!Best(S, k - 1)
    BY <1>3
  <2>2. /\ T \subseteq S
        /\ Cardinality(T) = IF k - 1 < Cardinality(S) THEN k - 1 ELSE Cardinality(S)
        /\ \A t \in T, s \in S \ T : t.score >= s.score
    BY <2>1, BestIs
  <2>3. CASE Cardinality(S) <= k - 1
    <3>1. T \in Memory!Best(S, k)
      BY <1>1, <2>2, <2>3, BestIs
    <3>. QED
      BY <3>1
  <2>4. CASE ~(Cardinality(S) <= k - 1)
    <3>1. Cardinality(T) = k - 1 /\ k <= Cardinality(S) /\ T # S
      BY <1>1, <2>2, <2>4
    <3>2. IsFiniteSet(T) /\ IsFiniteSet(S \ T) /\ S \ T # {}
      BY <2>2, <3>1, FS_Subset, FS_Difference
    <3>3. PICK t \in S \ T : \A s \in S \ T : s.score <= t.score
      BY <3>2, Highest
    <3>4. Cardinality(T \cup {t}) = k
      <4>1. Cardinality(T \cup {t}) = Cardinality(T) + 1
        BY <3>2, <3>3, FS_AddElement
      <4>. QED
        BY <3>1, <4>1
    <3>5. \A u \in T \cup {t}, s \in S \ (T \cup {t}) : u.score >= s.score
      <4>1. ASSUME NEW u \in T \cup {t}, NEW s \in S \ (T \cup {t}) PROVE u.score >= s.score
        <5>1. u.score \in Int /\ s.score \in Int
          BY <2>2
        <5>2. CASE u \in T
          BY <2>2, <5>2
        <5>3. CASE u = t
          BY <3>3, <5>1, <5>3
        <5>. QED
          BY <5>2, <5>3
      <4>. QED
        BY <4>1
    <3>6. T \cup {t} \in Memory!Best(S, k)
      BY <1>1, <2>2, <3>1, <3>4, <3>5, BestIs
    <3>. QED
      BY <3>6
  <2>. QED
    BY <1>1, <2>3, <2>4
<1>. HIDE DEF K
<1>4. 0..n \subseteq K /\ n \in 0..n
  BY <1>2, <1>3, UpTo
<1>5. n \in K
  BY <1>4
<1>. QED
  BY <1>5 DEF K

\* Whatever is left out of S, there are n in S at least as good: the best n of S are of P.
LEMMA BestOfPart ==
    ASSUME NEW P, NEW S, NEW n \in Nat, NEW R \in Memory!Best(S, n),
           IsFiniteSet(P), \A p \in P : p.score \in Int, S \subseteq P,
           \A p \in P \ S : \E U \in SUBSET S :
                Cardinality(U) = n /\ \A u \in U : u.score >= p.score
    PROVE  R \in Memory!Best(P, n)
<1>1. IsFiniteSet(S) /\ Cardinality(S) \in Nat /\ Cardinality(P) \in Nat
      /\ Cardinality(S) <= Cardinality(P)
  BY FS_Subset, FS_CardinalityType
<1>2. /\ R \subseteq S /\ Cardinality(R) = IF n < Cardinality(S) THEN n ELSE Cardinality(S)
      /\ \A t \in R, s \in S \ R : t.score >= s.score
  BY BestIs
<1>3. IsFiniteSet(R) /\ Cardinality(R) <= n
  BY <1>1, <1>2, FS_Subset
<1>4. ASSUME NEW p \in P \ S PROVE n <= Cardinality(S)
  <2>1. PICK U \in SUBSET S : Cardinality(U) = n
    OBVIOUS
  <2>. QED
    BY <1>1, <2>1, FS_Subset
<1>5. Cardinality(R) = IF n < Cardinality(P) THEN n ELSE Cardinality(P)
  <2>1. CASE S = P
    BY <1>2, <2>1
  <2>2. CASE S # P
    <3>1. n <= Cardinality(S)
      BY <1>4, <2>2
    <3>. QED
      BY <1>1, <1>2, <3>1
  <2>. QED
    BY <2>1, <2>2
<1>6. ASSUME NEW t \in R, NEW s \in P \ R PROVE t.score >= s.score
  <2>1. t.score \in Int /\ s.score \in Int
    BY <1>2
  <2>2. CASE s \in S
    BY <1>2, <2>2
  <2>3. CASE s \notin S
    <3>1. PICK U \in SUBSET S : Cardinality(U) = n /\ \A u \in U : u.score >= s.score
      BY <2>3
    <3>2. SUFFICES ASSUME ~(t.score >= s.score) PROVE FALSE
      OBVIOUS
    <3>3. t \notin U
      BY <2>1, <3>1, <3>2
    <3>4. \A u \in U : u \in R
      <4>1. ASSUME NEW u \in U, u \notin R PROVE FALSE
        <5>1. t.score >= u.score /\ u.score >= s.score /\ u.score \in Int
          BY <1>2, <3>1, <4>1
        <5>. QED
          BY <2>1, <3>2, <5>1
      <4>. QED
        BY <4>1
    <3>5. IsFiniteSet(U) /\ Cardinality(U \cup {t}) = n + 1
      BY <1>1, <3>1, <3>3, FS_Subset, FS_AddElement
    <3>6. Cardinality(U \cup {t}) <= Cardinality(R) /\ Cardinality(R) \in Nat
      BY <1>3, <3>4, FS_Subset, FS_CardinalityType
    <3>. QED
      BY <1>3, <3>5, <3>6
  <2>. QED
    BY <2>2, <2>3
<1>. QED
  BY <1>2, <1>5, <1>6, BestIs

(***************************************************************************)
(* The nested search: the best sentences of the documents whose best       *)
(* sentence is best are the best sentences of all.                         *)
(***************************************************************************)

\* There are never more documents than were upserted.
FewDocuments == IsFiniteSet({i \in DocIds : documentIndex[i] # Nothing})

LEMMA FewAtFirst == Init => FewDocuments
<1>. SUFFICES ASSUME Init PROVE FewDocuments
  OBVIOUS
<1>1. IsFiniteSet(DOMAIN OldDocuments)
  BY AdapterAssumption
<1>2. {i \in DocIds : documentIndex[i] # Nothing} \in SUBSET DOMAIN OldDocuments
  BY OlderType
<1>. QED
  BY <1>1, <1>2, FS_Subset DEF FewDocuments

LEMMA FewStay == ScopesInv /\ FewDocuments /\ [Next]_adapterVars => FewDocuments'
<1>. SUFFICES ASSUME ScopesInv, FewDocuments, [Next]_adapterVars PROVE FewDocuments'
  OBVIOUS
<1>. DEFINE few == {i \in DocIds : documentIndex[i] # Nothing}
            then == {i \in DocIds : documentIndex'[i] # Nothing}
<1>1. DOMAIN documentIndex = DocIds
  BY DEF ScopesInv, StoresTyped
<1>2. UNCHANGED documentIndex \/
        \E id \in DocIds : \E source : documentIndex' = [documentIndex EXCEPT ![id] = source]
  <2>1. ASSUME NEW sc \in Scope, DocumentCall(sc)
        PROVE  \E id \in DocIds : \E source : documentIndex' = [documentIndex EXCEPT ![id] = source]
    <3>1. OwnDocs(sc) \subseteq DocIds
      BY OwnIsKnown
    <3>2. CASE \E id \in OwnDocs(sc), r \in Records : UpsertDocument(sc, id, r)
      BY <3>1, <3>2 DEF UpsertDocument
    <3>3. CASE \E id \in DocIds : DeleteDocument(sc, id)
      BY <3>3 DEF DeleteDocument
    <3>. QED
      BY <2>1, <3>2, <3>3 DEF DocumentCall
  <2>2. ASSUME NEW sc \in Scope, ObjectCall(sc) \/ EntityCall(sc) \/ GraphCall(sc)
        PROVE  UNCHANGED documentIndex
    BY <2>2 DEF ObjectCall, Delete, Put, EntityCall, UpsertEntity, DeleteEntity,
                GraphCall, UpsertNode, WriteTriple, DeleteDocumentEdges, DeleteNodes
  <2>3. UNCHANGED adapterVars => UNCHANGED documentIndex
    BY DEF adapterVars
  <2>. QED
    BY <2>1, <2>2, <2>3 DEF Next, Call
<1>3. CASE UNCHANGED documentIndex
  BY <1>3 DEF FewDocuments
<1>4. CASE \E id \in DocIds : \E source : documentIndex' = [documentIndex EXCEPT ![id] = source]
  <2>0. PICK id \in DocIds : \E source : documentIndex' = [documentIndex EXCEPT ![id] = source]
    BY <1>4
  <2>1. PICK source : documentIndex' = [documentIndex EXCEPT ![id] = source]
    BY <2>0
  <2>2. then \in SUBSET (few \cup {id})
    BY <1>1, <2>1
  <2>3. IsFiniteSet(few \cup {id})
    BY FS_AddElement DEF FewDocuments
  <2>. HIDE DEF few, then
  <2>4. IsFiniteSet(then)
    BY <2>2, <2>3, FS_Subset
  <2>. QED
    BY <2>4 DEF then, FewDocuments
<1>. QED
  BY <1>2, <1>3, <1>4

LEMMA SentencesType ==
    ASSUME ScopesInv, NEW sc \in Scope, NEW d \in Hits(documentIndex, sc)
    PROVE  /\ d \in OwnDocs(sc) /\ documentIndex[d] # Nothing
           /\ documentIndex[d].nested \in Seq(Int \cup {NoVector})
           /\ IsFiniteSet(Sentences(d))
           /\ \A s \in Sentences(d) : s.doc = d /\ s.score \in Int
<1>1. d \in OwnDocs(sc) /\ documentIndex[d] # Nothing /\ d \in DocIds
  BY OwnIsFound, OwnIsKnown
<1>. DEFINE nested == documentIndex[d].nested
            having == {n \in DOMAIN nested : nested[n] # NoVector}
            f == [i \in having |-> [doc |-> d, index |-> i, score |-> nested[i]]]
<1>2. nested \in Seq(Int \cup {NoVector})
  BY <1>1 DEF ScopesInv, StoresTyped, DocumentSources
<1>. HIDE DEF nested
<1>3. DOMAIN nested = 1..Len(nested) /\ Len(nested) \in Nat
  BY <1>2
<1>4. IsFiniteSet(having)
  <2>1. IsFiniteSet(1..Len(nested)) /\ having \in SUBSET (1..Len(nested))
    BY <1>3, FS_Interval
  <2>. QED
    BY <2>1, FS_Subset
<1>5. \A i \in having : f[i].doc = d /\ f[i].score \in Int
  BY <1>2
<1>6. Sentences(d) = {f[i] : i \in having}
  BY DEF Sentences, nested
<1>. HIDE DEF having, f
<1>. QED
  BY <1>1, <1>2, <1>4, <1>5, <1>6, ImageIsFinite DEF nested

\* Taken apart, the records have the vectors that were merged.
LEMMA PassagesAre ==
    ASSUME ScopesInv, NEW sc \in Scope
    PROVE  Memory!Passages(DocumentsOf(sc)) = UNION {Sentences(d) : d \in Hits(documentIndex, sc)}
<1>. DEFINE m == DocumentsOf(sc)
            H == Hits(documentIndex, sc)
<1>1. Memory!Present(m) = H
  BY PresentIs, OwnIsFound
<1>2. ASSUME NEW d \in H
      PROVE  {[doc |-> d, index |-> i, score |-> m[d].vectors[i]] : i \in DOMAIN m[d].vectors} =
                Sentences(d)
  <2>. DEFINE nested == documentIndex[d].nested
  <2>1. /\ d \in OwnDocs(sc) /\ documentIndex[d] # Nothing /\ d \in DocIds
        /\ nested \in Seq(Int \cup {NoVector})
    BY SentencesType, OwnIsKnown
  <2>2. m[d] = ToRecord(documentIndex[d])
    BY <2>1, MemoriesAre DEF MemoriesAsStored
  <2>3. m[d].vectors = IF \A i \in DOMAIN nested : nested[i] # NoVector THEN nested ELSE <<>>
    BY <2>2 DEF ToRecord
  <2>4. AllOrNone(nested)
    BY <2>1 DEF ScopesInv, VectorsAreWhole
  <2>5. Sentences(d) = {[doc |-> d, index |-> i, score |-> nested[i]] :
                            i \in {n \in DOMAIN nested : nested[n] # NoVector}}
    BY DEF Sentences
  <2>. HIDE DEF nested, m
  <2>6. CASE \A i \in DOMAIN nested : nested[i] # NoVector
    BY <2>3, <2>5, <2>6
  <2>7. CASE ~(\A i \in DOMAIN nested : nested[i] # NoVector)
    <3>1. {n \in DOMAIN nested : nested[n] # NoVector} = {} /\ DOMAIN m[d].vectors = {}
      BY <2>3, <2>4, <2>7 DEF AllOrNone
    <3>. QED
      BY <2>5, <3>1
  <2>. QED
    BY <2>6, <2>7
<1>. HIDE DEF H, m
<1>3. {{[doc |-> d, index |-> i, score |-> m[d].vectors[i]] : i \in DOMAIN m[d].vectors} : d \in H}
        = {Sentences(d) : d \in H}
  BY <1>2
<1>. QED
  BY <1>1, <1>3 DEF Memory!Passages, H, m

\* the documents with a vector, by their best sentence
Ranked(sc) ==
    {[id |-> d, score |-> CHOOSE best \in {s.score : s \in Sentences(d)} :
                            \A s \in Sentences(d) : s.score <= best] :
        d \in {h \in Hits(documentIndex, sc) : Sentences(h) # {}}}

\* the sentences found inside them
Inner(found) ==
    {S \in SUBSET UNION {Sentences(d.id) : d \in found} :
        \A d \in found : {s \in S : s.doc = d.id} \in Memory!Best(Sentences(d.id), TopK)}

LEMMA SearchIs ==
    ASSUME NEW sc
    PROVE  SearchSentences(sc) =
              UNION {UNION {Memory!Best(S, TopK) : S \in Inner(found)} :
                        found \in Memory!Best(Ranked(sc), TopK)}
BY DEF SearchSentences, Ranked, Inner

LEMMA RankedType ==
    ASSUME ScopesInv, FewDocuments, NEW sc \in Scope
    PROVE  /\ IsFiniteSet(Hits(documentIndex, sc)) /\ IsFiniteSet(Ranked(sc))
           /\ \A r \in Ranked(sc) :
                 /\ r.score \in Int /\ r.id \in Hits(documentIndex, sc)
                 /\ \E s \in Sentences(r.id) : s.score = r.score
                 /\ \A s \in Sentences(r.id) : s.score <= r.score
           /\ \A q, r \in Ranked(sc) : q.id = r.id => q = r
           /\ \A d \in Hits(documentIndex, sc) :
                 Sentences(d) # {} => \E r \in Ranked(sc) : r.id = d
<1>. DEFINE H == Hits(documentIndex, sc)
            having == {h \in H : Sentences(h) # {}}
            top(d) == CHOOSE best \in {s.score : s \in Sentences(d)} :
                            \A s \in Sentences(d) : s.score <= best
            f == [d \in having |-> [id |-> d, score |-> top(d)]]
<1>1. IsFiniteSet(H)
  <2>1. H \in SUBSET {i \in DocIds : documentIndex[i] # Nothing}
    BY OwnIsFound, OwnIsKnown
  <2>. QED
    BY <2>1, FS_Subset DEF FewDocuments
<1>2. IsFiniteSet(having)
  <2>1. having \in SUBSET H
    OBVIOUS
  <2>. QED
    BY <1>1, <2>1, FS_Subset
<1>3. ASSUME NEW d \in having
      PROVE  /\ top(d) \in {s.score : s \in Sentences(d)}
             /\ \A s \in Sentences(d) : s.score <= top(d)
  <2>1. IsFiniteSet(Sentences(d)) /\ Sentences(d) # {} /\ \A s \in Sentences(d) : s.score \in Int
    BY SentencesType
  <2>2. PICK t \in Sentences(d) : \A s \in Sentences(d) : s.score <= t.score
    BY <2>1, Highest
  <2>. QED
    BY <2>2
<1>. HIDE DEF top
<1>4. ASSUME NEW d \in having
      PROVE  /\ f[d].id = d /\ f[d].score = top(d) /\ f[d].score \in Int
             /\ \E s \in Sentences(d) : s.score = f[d].score
             /\ \A s \in Sentences(d) : s.score <= f[d].score
  <2>1. \A s \in Sentences(d) : s.score \in Int
    BY SentencesType
  <2>. QED
    BY <1>3, <2>1
<1>5. Ranked(sc) = {f[d] : d \in having}
  BY DEF Ranked, top
<1>. HIDE DEF f
<1>6. IsFiniteSet(Ranked(sc))
  BY <1>2, <1>5, ImageIsFinite
<1>. QED
  BY <1>1, <1>4, <1>5, <1>6

LEMMA InnerType ==
    ASSUME ScopesInv, FewDocuments, NEW sc \in Scope,
           NEW found \in Memory!Best(Ranked(sc), TopK), NEW S \in Inner(found)
    PROVE  LET P == UNION {Sentences(d) : d \in Hits(documentIndex, sc)}
           IN  /\ S \subseteq P
               /\ \A p \in P \ S : \E U \in SUBSET S :
                    Cardinality(U) = TopK /\ \A u \in U : u.score >= p.score
<1>. DEFINE P == UNION {Sentences(d) : d \in Hits(documentIndex, sc)}
<1>1. TopK \in Nat
  BY AdapterAssumption
<1>2. IsFiniteSet(Ranked(sc))
  BY RankedType
<1>3. /\ found \subseteq Ranked(sc) /\ IsFiniteSet(found)
      /\ found # Ranked(sc) => Cardinality(found) = TopK
      /\ \A t \in found, s \in Ranked(sc) \ found : t.score >= s.score
  BY <1>1, <1>2, BestCounts
<1>4. \A d \in found : /\ d.id \in Hits(documentIndex, sc) /\ d.score \in Int
                       /\ \E s \in Sentences(d.id) : s.score = d.score
                       /\ \A s \in Sentences(d.id) : s.score <= d.score
  BY <1>3, RankedType
<1>5. S \subseteq P
  BY <1>4 DEF Inner
<1>6. ASSUME NEW d \in found
      PROVE  /\ IsFiniteSet(Sentences(d.id))
             /\ \A s \in Sentences(d.id) : s.doc = d.id /\ s.score \in Int
             /\ {s \in S : s.doc = d.id} \in Memory!Best(Sentences(d.id), TopK)
  BY <1>4, SentencesType DEF Inner
<1>7. ASSUME NEW p \in P \ S
      PROVE  \E U \in SUBSET S : Cardinality(U) = TopK /\ \A u \in U : u.score >= p.score
  <2>1. PICK e \in Hits(documentIndex, sc) : p \in Sentences(e)
    OBVIOUS
  <2>2. p.doc = e /\ p.score \in Int
    BY <2>1, SentencesType
  <2>3. PICK r \in Ranked(sc) : r.id = e
    BY <2>1, RankedType
  <2>4. p.score <= r.score /\ r.score \in Int
    BY <2>1, <2>3, RankedType
  <2>5. CASE r \in found
    <3>. DEFINE B == {s \in S : s.doc = r.id}
    <3>1. B \in Memory!Best(Sentences(r.id), TopK) /\ IsFiniteSet(Sentences(r.id))
      BY <1>6, <2>5
    <3>2. p \in Sentences(r.id) \ B
      BY <2>1, <2>3
    <3>3. Cardinality(B) = TopK /\ \A u \in B : u.score >= p.score
      <4>. HIDE DEF B
      <4>. QED
        BY <1>1, <3>1, <3>2, BestCounts
    <3>. QED
      BY <3>3
  <2>6. CASE r \notin found
    <3>1. Cardinality(found) = TopK /\ \A d \in found : d.score >= r.score
      BY <1>3, <2>6
    <3>2. ASSUME NEW d \in found
          PROVE  \E u \in S : u.doc = d.id /\ u.score >= p.score
      <4>. DEFINE B == {s \in S : s.doc = d.id}
      <4>1. /\ B \in Memory!Best(Sentences(d.id), TopK) /\ IsFiniteSet(Sentences(d.id))
            /\ d.score \in Int /\ d.score >= r.score
        BY <1>4, <1>6, <3>1
      <4>2. PICK m \in Sentences(d.id) : m.score = d.score
        BY <1>4
      <4>3. TopK # 0
        BY <1>3, <3>1, FS_EmptySet
      <4>. HIDE DEF B
      <4>4. B # {} /\ B \subseteq Sentences(d.id)
            /\ \A t \in B, s \in Sentences(d.id) \ B : t.score >= s.score
        BY <1>1, <4>1, <4>2, <4>3, BestCounts
      <4>5. \E u \in B : u.score >= d.score
        <5>1. CASE m \in B
          BY <4>1, <4>2, <5>1
        <5>2. CASE m \notin B
          BY <4>2, <4>4, <5>2
        <5>. QED
          BY <5>1, <5>2
      <4>6. PICK u \in B : u.score >= d.score
        BY <4>5
      <4>7. u.score \in Int
        BY <1>6, <4>4
      <4>8. u.score >= p.score
        BY <2>2, <2>4, <4>1, <4>6, <4>7
      <4>. QED
        BY <4>6, <4>8 DEF B
    <3>. DEFINE pick == [d \in found |-> CHOOSE u \in S : u.doc = d.id /\ u.score >= p.score]
                U == {pick[d] : d \in found}
    <3>3. \A d \in found : pick[d] \in S /\ pick[d].doc = d.id /\ pick[d].score >= p.score
      BY <3>2
    <3>4. \A c, d \in found : pick[c] = pick[d] => c = d
      BY <1>3, <3>3, RankedType
    <3>. HIDE DEF pick
    <3>5. Cardinality(U) = TopK
      BY <1>3, <3>1, <3>4, ImageIsFinite
    <3>6. U \in SUBSET S /\ \A u \in U : u.score >= p.score
      BY <3>3
    <3>. QED
      BY <3>5, <3>6
  <2>. QED
    BY <2>5, <2>6
<1>. QED
  BY <1>5, <1>7

\* What a search finds is the best there is, and it always finds something to answer.
LEMMA SearchIsBest ==
    ASSUME ScopesInv, FewDocuments, NEW sc \in Scope
    PROVE  /\ SearchSentences(sc) # {}
           /\ SearchSentences(sc) \subseteq
                Memory!Best(Memory!Passages(DocumentsOf(sc)), TopK)
<1>. DEFINE H == Hits(documentIndex, sc)
            P == UNION {Sentences(d) : d \in H}
<1>1. TopK \in Nat
  BY AdapterAssumption
<1>2. Memory!Passages(DocumentsOf(sc)) = P
  BY PassagesAre
<1>3. IsFiniteSet(P) /\ \A p \in P : p.score \in Int
  <2>. DEFINE f == [d \in H |-> Sentences(d)]
              K == {f[d] : d \in H}
  <2>1. IsFiniteSet(H)
    BY RankedType
  <2>2. IsFiniteSet(K)
    <3>. HIDE DEF f, H
    <3>. QED
      BY <2>1, ImageIsFinite
  <2>3. \A T \in K : IsFiniteSet(T)
    BY SentencesType
  <2>4. IsFiniteSet(UNION K)
    <3>. HIDE DEF K
    <3>. QED
      BY <2>2, <2>3, FS_UNION
  <2>5. UNION K = P
    OBVIOUS
  <2>6. \A p \in P : p.score \in Int
    BY SentencesType
  <2>. QED
    BY <2>4, <2>5, <2>6
<1>4. ASSUME NEW found \in Memory!Best(Ranked(sc), TopK), NEW S \in Inner(found)
      PROVE  S \subseteq P /\ Memory!Best(S, TopK) \subseteq Memory!Best(P, TopK)
  <2>1. /\ S \subseteq P
        /\ \A p \in P \ S : \E U \in SUBSET S :
             Cardinality(U) = TopK /\ \A u \in U : u.score >= p.score
    BY InnerType
  <2>. HIDE DEF P
  <2>2. ASSUME NEW R \in Memory!Best(S, TopK) PROVE R \in Memory!Best(P, TopK)
    BY <1>1, <1>3, <2>1, BestOfPart
  <2>. QED
    BY <2>1, <2>2
<1>5. \E found : found \in Memory!Best(Ranked(sc), TopK)
  <2>1. IsFiniteSet(Ranked(sc)) /\ \A r \in Ranked(sc) : r.score \in Int
    BY RankedType
  <2>. QED
    BY <1>1, <2>1, BestExists
<1>6. ASSUME NEW found \in Memory!Best(Ranked(sc), TopK) PROVE \E S : S \in Inner(found)
  <2>1. /\ found \subseteq Ranked(sc)
        /\ \A d \in found : d.id \in H
        /\ \A c, d \in found : c.id = d.id => c = d
    BY RankedType, BestIs
  <2>2. ASSUME NEW d \in found
        PROVE  /\ \E T : T \in Memory!Best(Sentences(d.id), TopK)
               /\ \A s \in Sentences(d.id) : s.doc = d.id
    <3>1. d.id \in Hits(documentIndex, sc)
      BY <2>1
    <3>2. IsFiniteSet(Sentences(d.id)) /\ \A s \in Sentences(d.id) : s.doc = d.id /\ s.score \in Int
      BY <3>1, SentencesType
    <3>. QED
      BY <1>1, <3>2, BestExists
  <2>. DEFINE best(d) == CHOOSE T : T \in Memory!Best(Sentences(d.id), TopK)
              S == UNION {best(d) : d \in found}
  <2>3. \A d \in found : best(d) \in Memory!Best(Sentences(d.id), TopK)
    BY <2>2
  <2>4. \A d \in found : best(d) \subseteq Sentences(d.id)
    BY <2>3, BestIs
  <2>. HIDE DEF best
  <2>5. ASSUME NEW d \in found PROVE {s \in S : s.doc = d.id} = best(d)
    <3>1. \A c \in found : \A s \in best(c) : s.doc = d.id => c = d
      BY <2>1, <2>2, <2>4
    <3>2. \A s \in best(d) : s.doc = d.id
      BY <2>2, <2>4
    <3>. QED
      BY <3>1, <3>2
  <2>6. S \in SUBSET UNION {Sentences(d.id) : d \in found}
    BY <2>4
  <2>7. S \in Inner(found)
    <3>1. \A d \in found : {s \in S : s.doc = d.id} \in Memory!Best(Sentences(d.id), TopK)
      BY <2>3, <2>5
    <3>. HIDE DEF S
    <3>. QED
      BY <2>6, <3>1 DEF Inner
  <2>. QED
    BY <2>7
<1>7. ASSUME NEW found \in Memory!Best(Ranked(sc), TopK), NEW S \in Inner(found)
      PROVE  \E R : R \in Memory!Best(S, TopK)
  <2>1. S \subseteq P
    BY <1>4
  <2>2. IsFiniteSet(S) /\ \A s \in S : s.score \in Int
    <3>. HIDE DEF P
    <3>. QED
      BY <1>3, <2>1, FS_Subset
  <2>. QED
    BY <1>1, <2>2, BestExists
<1>. HIDE DEF P
<1>8. SearchSentences(sc) # {}
  <2>1. PICK found : found \in Memory!Best(Ranked(sc), TopK)
    BY <1>5
  <2>2. PICK S : S \in Inner(found)
    BY <1>6, <2>1
  <2>3. PICK R : R \in Memory!Best(S, TopK)
    BY <1>7, <2>1, <2>2
  <2>4. R \in UNION {Memory!Best(T, TopK) : T \in Inner(found)}
    BY <2>2, <2>3
  <2>5. R \in SearchSentences(sc)
    BY <2>1, <2>4, SearchIs
  <2>. QED
    BY <2>5
<1>9. ASSUME NEW R \in SearchSentences(sc) PROVE R \in Memory!Best(P, TopK)
  <2>1. PICK found \in Memory!Best(Ranked(sc), TopK) :
            R \in UNION {Memory!Best(S, TopK) : S \in Inner(found)}
    BY SearchIs
  <2>2. PICK S \in Inner(found) : R \in Memory!Best(S, TopK)
    BY <2>1
  <2>. QED
    BY <1>4, <2>2
<1>. QED
  BY <1>2, <1>8, <1>9

\* Documents, what is in use, and sentences.
LEMMA DocumentsAnswer == ScopesInv /\ FewDocuments => DocumentAnswers
<1>. SUFFICES ASSUME ScopesInv, FewDocuments, NEW sc \in Scope
     PROVE  /\ \A id \in DocIds : GetDocument(sc, id) = Memory!Found(DocumentsOf(sc), id)
            /\ \A excluding \in DocIds \cup {Nothing} :
                  EntitiesInUse(sc, EntityIds, excluding) =
                    Memory!Linked(DocumentsOf(sc), excluding)
            /\ SearchSentences(sc) # {}
            /\ SearchSentences(sc) \subseteq
                  Memory!Best(Memory!Passages(DocumentsOf(sc)), TopK)
  BY DEF DocumentAnswers
<1>. DEFINE m == DocumentsOf(sc)
<1>1. /\ m = [i \in OwnDocs(sc) |->
                IF documentIndex[i] = Nothing THEN Nothing ELSE ToRecord(documentIndex[i])]
      /\ Memory!Present(m) = {i \in OwnDocs(sc) : documentIndex[i] # Nothing}
      /\ Hits(documentIndex, sc) = {i \in OwnDocs(sc) : documentIndex[i] # Nothing}
  BY MemoriesAre, PresentIs, OwnIsFound DEF MemoriesAsStored
<1>2. \A id \in DocIds : GetDocument(sc, id) = Memory!Found(m, id)
  BY <1>1, OwnIsFound DEF GetDocument, Memory!Found
<1>3. \A i \in Memory!Present(m) :
          m[i].links = documentIndex[i].links /\ documentIndex[i].links \subseteq EntityIds
  <2>1. ASSUME NEW i \in Memory!Present(m)
        PROVE  m[i].links = documentIndex[i].links /\ documentIndex[i].links \subseteq EntityIds
    <3>1. i \in DocIds /\ documentIndex[i] # Nothing /\ m[i] = ToRecord(documentIndex[i])
      BY <1>1, OwnIsKnown
    <3>2. documentIndex[i] \in DocumentSources
      BY <3>1 DEF ScopesInv, StoresTyped
    <3>. QED
      BY <3>1, <3>2 DEF ToRecord, DocumentSources
  <2>. QED
    BY <2>1
<1>. HIDE DEF m
<1>4. ASSUME NEW excluding
      PROVE  EntitiesInUse(sc, EntityIds, excluding) = Memory!Linked(m, excluding)
  <2>. DEFINE D == Memory!Present(m) \ {excluding}
  <2>1. EntitiesInUse(sc, EntityIds, excluding) =
            {i \in EntityIds : \E d \in D : i \in documentIndex[d].links}
    BY <1>1 DEF EntitiesInUse
  <2>2. Memory!Linked(m, excluding) = UNION {documentIndex[d].links : d \in D}
    BY <1>3 DEF Memory!Linked
  <2>3. \A d \in D : documentIndex[d].links \subseteq EntityIds
    BY <1>3
  <2>. HIDE DEF D
  <2>. QED
    BY <2>1, <2>2, <2>3
<1>. QED
  BY <1>2, <1>4, SearchIsBest DEF m

\* At any time, every read of a scope answers as a memory with nobody else in it would, whatever
\* the other scopes have and however it was written (ElasticsearchDocumentStore,
\* ElasticsearchEntityStore, Neo4jGraphStore).
THEOREM QueriesAlwaysStay == Spec => []QueriesStayInScope
<1>1. Spec => []FewDocuments
  BY FewAtFirst, FewStay, ScopesAlways, PTL DEF Spec
<1>2. ScopesInv /\ FewDocuments => QueriesStayInScope
  <2>1. ScopesInv => EdgesStayInScope
    BY DEF ScopesInv, EdgesAreOwned, EdgesStayInScope
  <2>. QED
    BY <2>1, DocumentsAnswer, EntitiesAnswer, GraphAnswersAlike DEF QueriesStayInScope
<1>. QED
  BY <1>1, <1>2, ScopesAlways, PTL
===============================================================================
