---------------------------- MODULE EntityLinking ----------------------------
(***************************************************************************)
(* Linking one mention after the other against the ES-Entities index of a  *)
(* scope: block on type and normalized name, else score the nearest        *)
(* vectors, else mint a new id.  Each remote call is one step of the       *)
(* consumer thread; a forget in a request thread deletes entities between  *)
(* any two of them.                                                        *)
(*                                                                         *)
(* A surface form stands for its normalized name, which is all the code    *)
(* compares, and a canonical id for the digest's arguments.                *)
(***************************************************************************)
EXTENDS Integers, FiniteSets

CONSTANTS
    Types,          \* curated types
    Names,          \* normalized names
    NoName,         \* the normalized name of a surface that is all punctuation
    Vectors,        \* embeddings of a mention in its context
    Cosine,         \* Vectors -> Vectors -> Int, in hundredths
    Threshold,      \* el_threshold
    TopK,           \* el_knn_top_k
    TieBreaker,     \* el_tiebreaker_enabled
    Margin,         \* half-width of the band the tie-breaker arbitrates
    NoSalt, NoEntity

ASSUME LinkingAssumption ==
    /\ NoName \in Names
    /\ Cosine \in [Vectors -> [Vectors -> Int]]
    /\ Threshold \in Int
    /\ TopK \in Nat
    /\ TieBreaker \in BOOLEAN
    /\ Margin \in Nat
    /\ NoSalt \notin Vectors

Ids == [type : Types, name : Names, salt : Vectors \cup {NoSalt}]

\* the digest of type, normalized name and salt
EntityId(t, n, salt) == [type |-> t, name |-> n, salt |-> salt]

Entity == [type : Types, name : Names, aliases : SUBSET Names, vector : Vectors]

ASSUME NoEntityAssumption == NoEntity \notin Entity \cup Ids

VARIABLES
    store,          \* Ids -> entity, or NoEntity
    linker,         \* where the consumer thread is with its mention
    resolved        \* history: the ids each name was linked to and that were not removed since

linkingVars == <<store, linker, resolved>>

LinkerIdle == [pc |-> "idle"]

Mention == [type : Types, name : Names, vector : Vectors]

Linker ==
    {LinkerIdle}
    \cup [pc : {"knn", "mint"}, mention : Mention]
    \cup [pc : {"create"}, mention : Mention, id : Ids]
    \cup [pc : {"merge"}, mention : Mention, id : Ids, entity : Entity]

Slots == [type : Types, name : Names]

Slot(m) == [type |-> m.type, name |-> m.name]

LinkingTypeOK ==
    /\ store \in [Ids -> Entity \cup {NoEntity}]
    /\ linker \in Linker
    /\ resolved \in [Slots -> SUBSET Ids]

LinkingInit ==
    /\ store = [id \in Ids |-> NoEntity]
    /\ linker = LinkerIdle
    /\ resolved = [s \in Slots |-> {}]

Stored(id) == store[id] # NoEntity

NamesOf(e) == {e.name} \cup e.aliases

(***************************************************************************)
(* Blocking: same type, and the name is the entity's or one of its aliases.*)
(***************************************************************************)

\* Wrong on purpose: the aliases are not searched.
BlockByName(s) ==
    {id \in Ids : Stored(id) /\ store[id].type = s.type /\ s.name = store[id].name}

\* Wrong on purpose: the search sees nothing of what was just written.
BlockNothing(s) == {}

Block(s) ==
    {id \in Ids : Stored(id) /\ store[id].type = s.type /\ s.name \in NamesOf(store[id])}

\* the entity with the lowest digest, which may be any of them, is the same one
BlockHit(m) ==
    /\ linker = LinkerIdle
    /\ \E id \in Block(Slot(m)) :
        linker' = [pc |-> "merge", mention |-> m, id |-> id, entity |-> store[id]]
    /\ UNCHANGED <<store, resolved>>

BlockMiss(m) ==
    /\ linker = LinkerIdle
    /\ Block(Slot(m)) = {}
    /\ linker' = [pc |-> "knn", mention |-> m]
    /\ UNCHANGED <<store, resolved>>

(***************************************************************************)
(* Scoring.  The search is approximate: it returns at most TopK entities   *)
(* of the type, and the best of those counts.                              *)
(***************************************************************************)
Candidates(t) ==
    {C \in SUBSET {id \in Ids : Stored(id) /\ store[id].type = t} : Cardinality(C) <= TopK}

Score(m, id) == Cosine[m.vector][store[id].vector]

Best(m, C) == {id \in C : \A other \in C : Score(m, other) <= Score(m, id)}

Near(score) == score >= Threshold

\* the language model may decide either way
Arbitrated(score) ==
    /\ TieBreaker
    /\ Threshold - Margin <= score /\ score <= Threshold + Margin

\* Wrong on purpose: the best candidate is taken however far it is.
TakeBest ==
    /\ linker.pc = "knn"
    /\ \E C \in Candidates(linker.mention.type) :
        \E id \in Best(linker.mention, C) :
            linker' = [pc |-> "merge", mention |-> linker.mention, id |-> id, entity |-> store[id]]
    /\ UNCHANGED <<store, resolved>>

FuzzyMatch ==
    /\ linker.pc = "knn"
    /\ \E C \in Candidates(linker.mention.type) :
        \E id \in Best(linker.mention, C) :
            /\ Near(Score(linker.mention, id)) \/ Arbitrated(Score(linker.mention, id))
            /\ linker' = [pc |-> "merge", mention |-> linker.mention, id |-> id, entity |-> store[id]]
    /\ UNCHANGED <<store, resolved>>

NoMatch ==
    /\ linker.pc = "knn"
    /\ \E C \in Candidates(linker.mention.type) :
        \A id \in Best(linker.mention, C) :
            ~Near(Score(linker.mention, id)) \/ Arbitrated(Score(linker.mention, id))
    /\ linker' = [linker EXCEPT !.pc = "mint"]
    /\ UNCHANGED <<store, resolved>>

(***************************************************************************)
(* Writing.                                                                *)
(***************************************************************************)
Resolve(s, id) == resolved' = [resolved EXCEPT ![s] = @ \cup {id}]

\* Wrong on purpose: the name is not remembered.
ForgetAlias(e, n) == e

\* Wrong on purpose: the new name replaces the ones before it.
ReplaceAliases(e, n) ==
    IF n = NoName \/ n \in NamesOf(e) THEN e ELSE [e EXCEPT !.aliases = {n}]

\* the entity as it was read, with the name among its aliases
Merged(e, n) ==
    IF n = NoName \/ n \in NamesOf(e) THEN e ELSE [e EXCEPT !.aliases = @ \cup {n}]

\* Wrong on purpose: the vector is the last mention's.
MergeAndMove ==
    /\ linker.pc = "merge"
    /\ store' = [store EXCEPT ![linker.id] =
                    [Merged(linker.entity, linker.mention.name) EXCEPT !.vector = linker.mention.vector]]
    /\ Resolve(Slot(linker.mention), linker.id)
    /\ linker' = LinkerIdle

Merge ==
    /\ linker.pc = "merge"
    /\ store' = [store EXCEPT ![linker.id] = Merged(linker.entity, linker.mention.name)]
    /\ Resolve(Slot(linker.mention), linker.id)
    /\ linker' = LinkerIdle

\* an id that is taken is salted with the vector
Mint ==
    /\ linker.pc = "mint"
    /\ LET m == linker.mention
           plain == EntityId(m.type, m.name, NoSalt)
       IN  linker' = [pc |-> "create", mention |-> m,
                      id |-> IF Stored(plain) THEN EntityId(m.type, m.name, m.vector) ELSE plain]
    /\ UNCHANGED <<store, resolved>>

Create ==
    /\ linker.pc = "create"
    /\ LET m == linker.mention
       IN  /\ store' = [store EXCEPT ![linker.id] =
                          [type |-> m.type, name |-> m.name, aliases |-> {}, vector |-> m.vector]]
           /\ Resolve(Slot(m), linker.id)
    /\ linker' = LinkerIdle

\* a call raises and the document is dropped, or the process dies
Abort ==
    /\ linker # LinkerIdle
    /\ linker' = LinkerIdle
    /\ UNCHANGED <<store, resolved>>

\* a forget found nobody else linked to the entity
Remove(id) ==
    /\ Stored(id)
    /\ store' = [store EXCEPT ![id] = NoEntity]
    /\ resolved' = [s \in Slots |-> resolved[s] \ {id}]
    /\ UNCHANGED linker

LinkingNext ==
    \/ \E m \in Mention : BlockHit(m) \/ BlockMiss(m)
    \/ FuzzyMatch \/ NoMatch
    \/ Merge \/ Mint \/ Create
    \/ Abort
    \/ \E id \in Ids : Remove(id)

LinkingSpec == LinkingInit /\ [][LinkingNext]_linkingVars

(***************************************************************************)
(* The abstract view: who has each name.                                   *)
(***************************************************************************)
NoOne == NoEntity

Owner(s) ==
    IF Block(s) = {} THEN NoOne ELSE CHOOSE id \in Ids : id \in Block(s)

Ownership == INSTANCE NameOwnership WITH
                Owners <- Ids, owner <- [s \in Slots |-> Owner(s)]
=============================================================================
