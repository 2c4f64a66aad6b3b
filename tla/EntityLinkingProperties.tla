---------------------- MODULE EntityLinkingProperties ----------------------
(***************************************************************************)
(* What linking promises, however removals fall between its calls.         *)
(***************************************************************************)
EXTENDS EntityLinking

\* No name of a type is the name or an alias of two entities, so a block search has one
\* answer and the corpus never splits an entity.
NamesDisjoint ==
    \A i, j \in Ids :
        (i # j /\ Stored(i) /\ Stored(j) /\ store[i].type = store[j].type)
            => NamesOf(store[i]) \cap NamesOf(store[j]) = {}

\* Every document that names a thing alike is linked to the same entity, until that entity
\* is removed; context only ever decides for names not seen before.
LinksAgree ==
    \A s \in Slots : s.name # NoName => \A i, j \in resolved[s] : i = j

\* An id is derived from the entity's own type and name and never needs its salt, so the
\* same corpus gets the same ids again.
IdsAreDerived ==
    \A id \in Ids : Stored(id) => id = EntityId(store[id].type, store[id].name, NoSalt)

\* The first document seeds the record: as long as an entity is stored it keeps its type,
\* name and vector, and loses no alias, whatever stale copy a merge writes back.
SeedKept ==
    [][\A id \in Ids : (Stored(id) /\ Stored(id)') =>
        /\ store[id]'.type = store[id].type
        /\ store[id]'.name = store[id].name
        /\ store[id]'.vector = store[id].vector
        /\ store[id].aliases \subseteq store[id]'.aliases]_linkingVars

\* A name becomes an alias only of an entity near enough to the mention, as far as the
\* tie-breaker may stretch that.
AliasesEarned ==
    [][\A id \in Ids : (Stored(id) /\ Stored(id)' /\ store[id]'.aliases # store[id].aliases) =>
        Score(linker.mention, id) >= (IF TieBreaker THEN Threshold - Margin ELSE Threshold)]_linkingVars

\* Linking implements the ownership of names.
OwnsNames == Ownership!Spec
=============================================================================
