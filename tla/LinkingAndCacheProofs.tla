----------------------- MODULE LinkingAndCacheProofs -----------------------
(***************************************************************************)
(* What is proved of the two things the documents' threads share with the  *)
(* ones that came before: the entities they link to, for every set of      *)
(* types, names and vectors, every cosine and every threshold; and the     *)
(* response cache, for every set of threads, keys and answers, and every   *)
(* length of their texts.                                                  *)
(***************************************************************************)
EXTENDS EntityLinkingProperties, LlmCache, SequenceTheorems, TLAPS

(***************************************************************************)
(* Linking: type correctness.                                              *)
(***************************************************************************)

\* Merging a name into an entity gives an entity.
LEMMA MergedIsEntity ==
    ASSUME NEW e \in Entity, NEW n \in Names
    PROVE  /\ Merged(e, n) \in Entity
           /\ Merged(e, n).type = e.type /\ Merged(e, n).name = e.name
           /\ Merged(e, n).vector = e.vector
           /\ NamesOf(Merged(e, n)) = IF n = NoName THEN NamesOf(e) ELSE NamesOf(e) \cup {n}
           /\ e.aliases \subseteq Merged(e, n).aliases
           /\ Merged(e, n).aliases # e.aliases => n \notin NamesOf(e)
<1>1. PICK t \in Types, m \in Names, a \in SUBSET Names, v \in Vectors :
        e = [type |-> t, name |-> m, aliases |-> a, vector |-> v]
  BY DEF Entity
<1>2. [e EXCEPT !.aliases = @ \cup {n}]
        = [type |-> t, name |-> m, aliases |-> a \cup {n}, vector |-> v]
  BY <1>1
<1>3. [e EXCEPT !.aliases = @ \cup {n}] \in Entity
  BY <1>2 DEF Entity
<1>. QED
  BY <1>1, <1>2, <1>3 DEF Merged, NamesOf

\* The initial state is well typed.
LEMMA LinkingTypeInit == LinkingInit => LinkingTypeOK
BY DEF LinkingInit, LinkingTypeOK, Linker

\* Each step keeps the types.
LEMMA LinkingTypes == LinkingTypeOK /\ [LinkingNext]_linkingVars => LinkingTypeOK'
<1>. SUFFICES ASSUME LinkingTypeOK, [LinkingNext]_linkingVars
              PROVE  LinkingTypeOK'
  OBVIOUS
<1>. USE DEF LinkingTypeOK
<1>1. ASSUME NEW m \in Mention, BlockHit(m) \/ BlockMiss(m)
      PROVE  LinkingTypeOK'
  BY <1>1 DEF BlockHit, BlockMiss, Block, Stored, Linker
<1>2. CASE FuzzyMatch
  <2>1. linker.mention \in Mention
    BY <1>2 DEF FuzzyMatch, Linker, LinkerIdle
  <2>2. PICK id \in Ids : /\ Stored(id)
                          /\ linker' = [pc |-> "merge", mention |-> linker.mention, id |-> id,
                                        entity |-> store[id]]
    BY <1>2 DEF FuzzyMatch, Candidates, Best
  <2>. QED
    BY <1>2, <2>1, <2>2 DEF FuzzyMatch, Stored, Linker
<1>3. CASE NoMatch
  BY <1>3 DEF NoMatch, Linker, LinkerIdle
<1>4. CASE Merge
  <2>1. /\ linker.id \in Ids /\ linker.entity \in Entity /\ linker.mention \in Mention
    BY <1>4 DEF Merge, Linker, LinkerIdle
  <2>2. Merged(linker.entity, linker.mention.name) \in Entity /\ Slot(linker.mention) \in Slots
    BY <2>1, MergedIsEntity DEF Mention, Slot, Slots
  <2>. QED
    BY <1>4, <2>1, <2>2 DEF Merge, Resolve, Linker
<1>5. CASE Mint
  <2>1. linker.mention \in Mention
    BY <1>5 DEF Mint, Linker, LinkerIdle
  <2>. QED
    BY <1>5, <2>1 DEF Mint, Linker, EntityId, Ids, Mention
<1>6. CASE Create
  <2>1. /\ linker.id \in Ids /\ linker.mention \in Mention
    BY <1>6 DEF Create, Linker, LinkerIdle
  <2>2. /\ [type |-> linker.mention.type, name |-> linker.mention.name, aliases |-> {},
            vector |-> linker.mention.vector] \in Entity
        /\ Slot(linker.mention) \in Slots
    BY <2>1 DEF Mention, Entity, Slot, Slots
  <2>. QED
    BY <1>6, <2>1, <2>2 DEF Create, Resolve, Linker
<1>7. CASE Abort
  BY <1>7 DEF Abort, Linker
<1>8. ASSUME NEW id \in Ids, Remove(id)
      PROVE  LinkingTypeOK'
  BY <1>8 DEF Remove
<1>9. CASE UNCHANGED linkingVars
  BY <1>9 DEF linkingVars
<1>. QED
  BY <1>1, <1>2, <1>3, <1>4, <1>5, <1>6, <1>7, <1>8, <1>9 DEF LinkingNext

(***************************************************************************)
(* Linking: the inductive invariant.                                       *)
(***************************************************************************)

\* e has no name in common with another stored entity of its type
Apart(id, e) ==
    \A j \in Ids : (j # id /\ Stored(j) /\ store[j].type = e.type)
        => NamesOf(store[j]) \cap NamesOf(e) = {}

\* nobody of the mention's type has its name
Unclaimed(m) ==
    \A j \in Ids : Stored(j) /\ store[j].type = m.type => m.name \notin NamesOf(store[j])

\* how near an alias has to be
Bound == IF TieBreaker THEN Threshold - Margin ELSE Threshold

\* What the consumer thread read still holds when it writes: removals only take names away.
LinkerKnows ==
    /\ linker.pc \in {"knn", "mint", "create"} => Unclaimed(linker.mention)
    /\ linker.pc = "create" =>
        linker.id = EntityId(linker.mention.type, linker.mention.name, NoSalt)
    /\ linker.pc = "merge" =>
        /\ linker.id = EntityId(linker.entity.type, linker.entity.name, NoSalt)
        /\ linker.entity.type = linker.mention.type
        /\ Stored(linker.id) => store[linker.id] = linker.entity
        /\ Apart(linker.id, linker.entity)
        /\ \/ linker.mention.name \in NamesOf(linker.entity)
           \/ /\ Unclaimed(linker.mention)
              /\ Cosine[linker.mention.vector][linker.entity.vector] >= Bound

\* A name was linked to the one entity that has it now.
LinkedToHolder ==
    \A s \in Slots : s.name # NoName => \A id \in resolved[s] : id \in Block(s)

LinkInv == LinkingTypeOK /\ IdsAreDerived /\ NamesDisjoint /\ LinkerKnows /\ LinkedToHolder

\* The initial state satisfies it.
LEMMA LinkInit == LinkingInit => LinkInv
BY LinkingTypeInit
   DEF LinkingInit, LinkInv, IdsAreDerived, NamesDisjoint, LinkerKnows, LinkedToHolder, Stored, LinkerIdle

\* The steps that only read: what the thread now knows is true.
LEMMA LinkReads ==
    ASSUME LinkInv,
           \/ \E m \in Mention : BlockHit(m) \/ BlockMiss(m)
           \/ FuzzyMatch \/ NoMatch \/ Mint \/ Abort
    PROVE  LinkerKnows' /\ UNCHANGED <<store, resolved>>
<1>. USE DEF LinkInv, LinkingTypeOK
<1>0. UNCHANGED <<store, resolved>>
  BY DEF BlockHit, BlockMiss, FuzzyMatch, NoMatch, Mint, Abort
<1>a. \A id \in Ids : Stored(id) => /\ id = EntityId(store[id].type, store[id].name, NoSalt)
                                    /\ Apart(id, store[id])
  BY DEF IdsAreDerived, NamesDisjoint, Apart
<1>b. \A m \in Mention : Block(Slot(m)) = {} => Unclaimed(m)
  BY DEF Block, Slot, Unclaimed
<1>1. ASSUME NEW m \in Mention, BlockHit(m)
      PROVE  LinkerKnows'
  <2>1. PICK id \in Ids : /\ Stored(id) /\ store[id].type = m.type /\ m.name \in NamesOf(store[id])
                          /\ linker' = [pc |-> "merge", mention |-> m, id |-> id, entity |-> store[id]]
    BY <1>1 DEF BlockHit, Block, Slot
  <2>2. /\ id = EntityId(store[id].type, store[id].name, NoSalt)
        /\ Apart(id, store[id])
    BY <2>1, <1>a
  <2>3. Apart(id, store[id])'
    BY <2>2, <1>0 DEF Apart, Stored
  <2>. QED
    BY <2>1, <2>2, <2>3, <1>0 DEF LinkerKnows
<1>2. ASSUME NEW m \in Mention, BlockMiss(m)
      PROVE  LinkerKnows'
  <2>1. Unclaimed(m) /\ linker' = [pc |-> "knn", mention |-> m]
    BY <1>2, <1>b DEF BlockMiss
  <2>2. Unclaimed(m)'
    BY <2>1, <1>0 DEF Unclaimed, Stored
  <2>. QED
    BY <2>1, <2>2 DEF LinkerKnows
<1>3. CASE FuzzyMatch
  <2>1. linker.mention \in Mention /\ Unclaimed(linker.mention)
    BY <1>3 DEF FuzzyMatch, Linker, LinkerIdle, LinkerKnows
  <2>2. PICK id \in Ids :
          /\ Stored(id) /\ store[id].type = linker.mention.type
          /\ Near(Score(linker.mention, id)) \/ Arbitrated(Score(linker.mention, id))
          /\ linker' = [pc |-> "merge", mention |-> linker.mention, id |-> id, entity |-> store[id]]
    BY <1>3 DEF FuzzyMatch, Candidates, Best
  <2>3. /\ id = EntityId(store[id].type, store[id].name, NoSalt)
        /\ Apart(id, store[id])
    BY <2>2, <1>a
  <2>4. Cosine[linker.mention.vector][store[id].vector] >= Bound
    <3>1. store[id].vector \in Vectors /\ linker.mention.vector \in Vectors
      BY <2>1, <2>2 DEF Stored, Entity, Mention
    <3>2. Cosine[linker.mention.vector][store[id].vector] \in Int
      BY <3>1, LinkingAssumption
    <3>. QED
      BY <2>2, <3>2, LinkingAssumption DEF Near, Arbitrated, Score, Bound
  <2>. QED
    BY <2>1, <2>2, <2>3, <2>4, <1>0 DEF LinkerKnows, Apart, Unclaimed, Stored, Bound
<1>4. CASE NoMatch
  <2>1. linker.pc = "knn" /\ linker'.pc = "mint" /\ linker'.mention = linker.mention
    BY <1>4 DEF NoMatch, Linker, LinkerIdle
  <2>2. Unclaimed(linker.mention)
    BY <2>1 DEF LinkerKnows
  <2>. QED
    BY <2>1, <2>2, <1>0 DEF LinkerKnows, Unclaimed, Stored
<1>5. CASE Mint
  <2>1. linker.pc = "mint" /\ linker.mention \in Mention /\ Unclaimed(linker.mention)
    BY <1>5 DEF Mint, Linker, LinkerIdle, LinkerKnows
  <2>2. ~Stored(EntityId(linker.mention.type, linker.mention.name, NoSalt))
    <3>. DEFINE id == EntityId(linker.mention.type, linker.mention.name, NoSalt)
    <3>1. id \in Ids /\ id.type = linker.mention.type /\ id.name = linker.mention.name
      BY <2>1 DEF EntityId, Ids, Mention
    <3>2. Stored(id) => store[id].type = id.type /\ store[id].name = id.name
      BY <3>1, <1>a DEF EntityId
    <3>. QED
      BY <2>1, <3>1, <3>2 DEF Unclaimed, NamesOf
  <2>3. /\ linker'.pc = "create" /\ linker'.mention = linker.mention
        /\ linker'.id = EntityId(linker.mention.type, linker.mention.name, NoSalt)
    BY <1>5, <2>2 DEF Mint
  <2>. QED
    BY <2>1, <2>3, <1>0 DEF LinkerKnows, Unclaimed, Stored
<1>6. CASE Abort
  BY <1>6 DEF Abort, LinkerKnows, LinkerIdle
<1>. QED
  BY <1>0, <1>1, <1>2, <1>3, <1>4, <1>5, <1>6

\* Writing an entity whose names nobody else has, under its own id.
LEMMA LinkWrites ==
    ASSUME LinkInv, NEW id \in Ids, NEW e \in Entity, NEW s \in Slots,
           id = EntityId(e.type, e.name, NoSalt), Apart(id, e),
           s.type = e.type, s.name = NoName \/ s.name \in NamesOf(e),
           Stored(id) => store[id].type = e.type /\ NamesOf(store[id]) \subseteq NamesOf(e),
           store' = [store EXCEPT ![id] = e],
           resolved' = [resolved EXCEPT ![s] = @ \cup {id}]
    PROVE  IdsAreDerived' /\ NamesDisjoint' /\ LinkedToHolder'
<1>. USE DEF LinkInv, LinkingTypeOK
<1>1. /\ store'[id] = e /\ e # NoEntity
      /\ \A j \in Ids : j # id => store'[j] = store[j]
  BY NoEntityAssumption
<1>2. IdsAreDerived'
  BY <1>1 DEF IdsAreDerived, Stored
<1>3. NamesDisjoint'
  <2>. SUFFICES ASSUME NEW i \in Ids, NEW j \in Ids, i # j, Stored(i)', Stored(j)',
                       store'[i].type = store'[j].type
                PROVE  NamesOf(store'[i]) \cap NamesOf(store'[j]) = {}
    BY DEF NamesDisjoint
  <2>1. CASE i # id /\ j # id
    BY <2>1, <1>1 DEF NamesDisjoint, Stored
  <2>2. CASE i = id
    BY <2>2, <1>1 DEF Apart, Stored
  <2>3. CASE j = id
    BY <2>3, <1>1 DEF Apart, Stored
  <2>. QED
    BY <2>1, <2>2, <2>3
<1>4. LinkedToHolder'
  <2>. SUFFICES ASSUME NEW r \in Slots, r.name # NoName, NEW i \in resolved'[r]
                PROVE  i \in Ids /\ Stored(i)' /\ store'[i].type = r.type /\ r.name \in NamesOf(store'[i])
    BY DEF LinkedToHolder, Block
  <2>1. CASE i \in resolved[r]
    <3>1. i \in Ids /\ Stored(i) /\ store[i].type = r.type /\ r.name \in NamesOf(store[i])
      BY <2>1 DEF LinkedToHolder, Block
    <3>. QED
      BY <3>1, <1>1 DEF Stored
  <2>2. CASE i \notin resolved[r]
    <3>1. r = s /\ i = id
      BY <2>2
    <3>. QED
      BY <3>1, <1>1 DEF Stored
  <2>. QED
    BY <2>1, <2>2
<1>. QED
  BY <1>2, <1>3, <1>4

\* What Merge writes back.
LEMMA MergeWrites ==
    ASSUME LinkInv, Merge
    PROVE  /\ linker.id \in Ids /\ linker.entity \in Entity /\ linker.mention \in Mention
           /\ LET e == Merged(linker.entity, linker.mention.name)
              IN  /\ e \in Entity /\ linker.id = EntityId(e.type, e.name, NoSalt)
                  /\ Apart(linker.id, e)
                  /\ linker.mention.type = e.type
                  /\ linker.mention.name = NoName \/ linker.mention.name \in NamesOf(e)
                  /\ Stored(linker.id) => /\ store[linker.id] = linker.entity
                                          /\ store[linker.id].type = e.type
                                          /\ NamesOf(store[linker.id]) \subseteq NamesOf(e)
<1>. DEFINE e == Merged(linker.entity, linker.mention.name)
<1>1. /\ linker.pc = "merge" /\ linker.id \in Ids /\ linker.entity \in Entity
      /\ linker.mention \in Mention /\ linker.mention.name \in Names
  BY DEF Merge, LinkInv, LinkingTypeOK, Linker, LinkerIdle, Mention
<1>2. /\ e \in Entity /\ e.type = linker.entity.type /\ e.name = linker.entity.name
      /\ NamesOf(e) = IF linker.mention.name = NoName THEN NamesOf(linker.entity)
                      ELSE NamesOf(linker.entity) \cup {linker.mention.name}
  <2>. HIDE DEF e
  <2>1. \A f \in Entity, n \in Names :
          /\ Merged(f, n) \in Entity
          /\ Merged(f, n).type = f.type /\ Merged(f, n).name = f.name
          /\ NamesOf(Merged(f, n)) = IF n = NoName THEN NamesOf(f) ELSE NamesOf(f) \cup {n}
    BY MergedIsEntity
  <2>. QED
    BY <1>1, <2>1 DEF e
<1>3. Apart(linker.id, linker.entity)
  BY <1>1 DEF LinkInv, LinkerKnows
<1>4. \/ linker.mention.name \in NamesOf(linker.entity)
      \/ Unclaimed(linker.mention)
  BY <1>1 DEF LinkInv, LinkerKnows
<1>5. linker.entity.type = linker.mention.type
  BY <1>1 DEF LinkInv, LinkerKnows
<1>6. Apart(linker.id, e)
  BY <1>2, <1>3, <1>4, <1>5 DEF Apart, Unclaimed
<1>7. /\ linker.id = EntityId(linker.entity.type, linker.entity.name, NoSalt)
      /\ Stored(linker.id) => store[linker.id] = linker.entity
  BY <1>1 DEF LinkInv, LinkerKnows
<1>. QED
  BY <1>1, <1>2, <1>5, <1>6, <1>7

\* What Create writes.
LEMMA CreateWrites ==
    ASSUME LinkInv, Create
    PROVE  /\ linker.id \in Ids /\ linker.mention \in Mention
           /\ ~Stored(linker.id)
           /\ LET m == linker.mention
                  e == [type |-> m.type, name |-> m.name, aliases |-> {}, vector |-> m.vector]
              IN  /\ e \in Entity /\ linker.id = EntityId(e.type, e.name, NoSalt)
                  /\ Apart(linker.id, e) /\ m.type = e.type /\ m.name \in NamesOf(e)
                  /\ store' = [store EXCEPT ![linker.id] = e]
<1>. DEFINE m == linker.mention
            e == [type |-> m.type, name |-> m.name, aliases |-> {}, vector |-> m.vector]
<1>1. /\ linker.pc = "create" /\ linker.id \in Ids /\ m \in Mention
      /\ m.type \in Types /\ m.name \in Names /\ m.vector \in Vectors
  BY DEF Create, LinkInv, LinkingTypeOK, Linker, LinkerIdle, Mention
<1>2. linker.id = EntityId(m.type, m.name, NoSalt) /\ Unclaimed(m)
  BY <1>1 DEF LinkInv, LinkerKnows
<1>3. e \in Entity /\ NamesOf(e) = {m.name}
  BY <1>1 DEF Entity, NamesOf
<1>4. ~Stored(linker.id)
  <2>1. Stored(linker.id) => /\ store[linker.id].type = m.type
                             /\ m.name \in NamesOf(store[linker.id])
    BY <1>1, <1>2 DEF LinkInv, IdsAreDerived, EntityId, NamesOf
  <2>. QED
    BY <1>1, <1>2, <2>1 DEF Unclaimed
<1>5. Apart(linker.id, e)
  BY <1>2, <1>3 DEF Apart, Unclaimed
<1>6. store' = [store EXCEPT ![linker.id] = e]
  BY DEF Create
<1>. QED
  BY <1>1, <1>2, <1>3, <1>4, <1>5, <1>6

\* A removal only takes names away.
LEMMA LinkRemoves ==
    ASSUME LinkInv, NEW id \in Ids, Remove(id)
    PROVE  IdsAreDerived' /\ NamesDisjoint' /\ LinkerKnows' /\ LinkedToHolder'
<1>. USE DEF LinkInv, LinkingTypeOK
<1>1. /\ store'[id] = NoEntity /\ linker' = linker
      /\ \A j \in Ids : j # id => store'[j] = store[j]
      /\ \A s \in Slots : resolved'[s] = resolved[s] \ {id}
  BY DEF Remove
<1>2. \A j \in Ids : store'[j] # NoEntity => store'[j] = store[j] /\ store[j] # NoEntity
  BY <1>1
<1>3. IdsAreDerived'
  BY <1>2 DEF IdsAreDerived, Stored
<1>4. NamesDisjoint'
  BY <1>2 DEF NamesDisjoint, Stored
<1>5. LinkerKnows'
  <2>1. Unclaimed(linker.mention) => Unclaimed(linker.mention)'
    BY <1>1, <1>2 DEF Unclaimed, Stored
  <2>2. Apart(linker.id, linker.entity) => Apart(linker.id, linker.entity)'
    BY <1>1, <1>2 DEF Apart, Stored
  <2>3. linker.pc = "merge" => (Stored(linker.id)' => store'[linker.id] = linker.entity)
    <3>1. linker.pc = "merge" => linker.id \in Ids
      BY DEF Linker, LinkerIdle
    <3>2. linker.pc = "merge" =>
            (store[linker.id] # NoEntity => store[linker.id] = linker.entity)
      BY DEF Stored, LinkerKnows
    <3>3. linker.pc = "merge" => (store'[linker.id] # NoEntity => store'[linker.id] = linker.entity)
      BY <3>1, <3>2, <1>2
    <3>. QED
      BY <3>3, <1>1 DEF Stored
  <2>. QED
    BY <1>1, <2>1, <2>2, <2>3 DEF LinkerKnows, Bound
<1>6. LinkedToHolder'
  BY <1>1, <1>2 DEF LinkedToHolder, Block, Stored
<1>. QED
  BY <1>3, <1>4, <1>5, <1>6

\* The invariant is inductive.
LEMMA LinkStep == LinkInv /\ [LinkingNext]_linkingVars => LinkInv'
<1>. SUFFICES ASSUME LinkInv, [LinkingNext]_linkingVars
              PROVE  LinkInv'
  OBVIOUS
<1>0. LinkingTypeOK'
  BY LinkingTypes DEF LinkInv
<1>1. CASE \/ \E m \in Mention : BlockHit(m) \/ BlockMiss(m)
           \/ FuzzyMatch \/ NoMatch \/ Mint \/ Abort
  <2>1. LinkerKnows' /\ UNCHANGED <<store, resolved>>
    BY <1>1, LinkReads
  <2>. QED
    BY <1>0, <2>1 DEF LinkInv, IdsAreDerived, NamesDisjoint, LinkedToHolder, Block, Stored
<1>2. CASE Merge
  <2>1. IdsAreDerived' /\ NamesDisjoint' /\ LinkedToHolder'
    <3>1. Slot(linker.mention) \in Slots
      BY <1>2, MergeWrites DEF Slot, Slots, Mention
    <3>. QED
      BY <1>2, <3>1, MergeWrites, LinkWrites DEF Merge, Resolve, Slot
  <2>2. LinkerKnows'
    BY <1>2 DEF Merge, LinkerKnows, LinkerIdle
  <2>. QED
    BY <1>0, <2>1, <2>2 DEF LinkInv
<1>3. CASE Create
  <2>1. IdsAreDerived' /\ NamesDisjoint' /\ LinkedToHolder'
    <3>1. Slot(linker.mention) \in Slots
      BY <1>3, CreateWrites DEF Slot, Slots, Mention
    <3>. QED
      BY <1>3, <3>1, CreateWrites, LinkWrites DEF Create, Resolve, Slot
  <2>2. LinkerKnows'
    BY <1>3 DEF Create, LinkerKnows, LinkerIdle
  <2>. QED
    BY <1>0, <2>1, <2>2 DEF LinkInv
<1>4. ASSUME NEW id \in Ids, Remove(id)
      PROVE  LinkInv'
  BY <1>0, <1>4, LinkRemoves DEF LinkInv
<1>5. CASE UNCHANGED linkingVars
  BY <1>0, <1>5
     DEF linkingVars, LinkInv, IdsAreDerived, NamesDisjoint, LinkerKnows, LinkedToHolder, Block, Stored,
         Apart, Unclaimed, Bound
<1>. QED
  BY <1>1, <1>2, <1>3, <1>4, <1>5 DEF LinkingNext

\* The invariant holds in every reachable state.
THEOREM LinkAlways == LinkingSpec => []LinkInv
BY LinkInit, LinkStep, PTL DEF LinkingSpec

\* No two stored entities of a type share a name, for any corpus and any removals.
THEOREM NamesStayDisjoint == LinkingSpec => []NamesDisjoint
BY LinkAlways, PTL DEF LinkInv

\* Documents that name a thing alike agree on its entity.
THEOREM DocumentsAgree == LinkingSpec => []LinksAgree
<1>1. LinkInv => LinksAgree
  BY DEF LinkInv, LinkingTypeOK, LinksAgree, LinkedToHolder, NamesDisjoint, Block
<1>. QED
  BY <1>1, LinkAlways, PTL

\* The salted branch of _mint_id is never taken: every id is derived from type and name.
THEOREM IdsNeedNoSalt == LinkingSpec => []IdsAreDerived
BY LinkAlways, PTL DEF LinkInv

\* One step never moves the seed of an entity that stays stored, and gives it an alias only
\* for a mention that is near enough.
LEMMA StoredEntityStep ==
    ASSUME LinkInv, [LinkingNext]_linkingVars, NEW id \in Ids, Stored(id), Stored(id)'
    PROVE  /\ store[id]'.type = store[id].type /\ store[id]'.name = store[id].name
           /\ store[id]'.vector = store[id].vector
           /\ store[id].aliases \subseteq store[id]'.aliases
           /\ store[id]'.aliases # store[id].aliases => Score(linker.mention, id) >= Bound
<1>. USE DEF LinkInv, LinkingTypeOK
<1>1. CASE store'[id] = store[id]
  BY <1>1
<1>2. CASE Merge /\ id = linker.id
  <2>1. /\ linker.entity \in Entity /\ linker.mention.name \in Names
        /\ store[id] = linker.entity
    BY <1>2, MergeWrites DEF Mention
  <2>2. store'[id] = Merged(linker.entity, linker.mention.name)
    BY <1>2 DEF Merge
  <2>3. /\ store'[id].type = store[id].type /\ store'[id].name = store[id].name
        /\ store'[id].vector = store[id].vector
        /\ store[id].aliases \subseteq store'[id].aliases
        /\ store'[id].aliases # store[id].aliases => linker.mention.name \notin NamesOf(linker.entity)
    <3>. DEFINE M(f, n) == Merged(f, n)
    <3>1. \A f \in Entity, n \in Names :
            /\ M(f, n).type = f.type /\ M(f, n).name = f.name /\ M(f, n).vector = f.vector
            /\ f.aliases \subseteq M(f, n).aliases
            /\ M(f, n).aliases # f.aliases => n \notin NamesOf(f)
      BY MergedIsEntity
    <3>. QED
      BY <2>1, <2>2, <3>1
  <2>4. linker.mention.name \notin NamesOf(linker.entity) => Score(linker.mention, id) >= Bound
    BY <1>2, <2>1 DEF Merge, LinkerKnows, Score
  <2>. QED
    BY <2>3, <2>4
<1>3. CASE ~(Merge /\ id = linker.id) /\ store'[id] # store[id]
  <2>1. ~Create
    BY <1>3, CreateWrites DEF Stored
  <2>2. ~Merge
    BY <1>3 DEF Merge
  <2>3. \A j \in Ids : ~Remove(j)
    BY <1>3 DEF Remove, Stored
  <2>4. ~UNCHANGED linkingVars
    BY <1>3 DEF linkingVars
  <2>. QED
    BY <1>3, <2>1, <2>2, <2>3, <2>4, LinkReads DEF LinkingNext
<1>. QED
  BY <1>1, <1>2, <1>3

\* The first document seeds the record, and no stale write-back moves it.
THEOREM SeedsAreKept == LinkingSpec => SeedKept
<1>1. ASSUME LinkInv, [LinkingNext]_linkingVars
      PROVE  [\A id \in Ids : (Stored(id) /\ Stored(id)') =>
                /\ store[id]'.type = store[id].type
                /\ store[id]'.name = store[id].name
                /\ store[id]'.vector = store[id].vector
                /\ store[id].aliases \subseteq store[id]'.aliases]_linkingVars
  BY <1>1, StoredEntityStep
<1>. QED
  BY <1>1, LinkAlways, PTL DEF LinkingSpec, SeedKept

\* No name becomes an alias of an entity that is too far from the mention.
THEOREM AliasesAreEarned == LinkingSpec => AliasesEarned
<1>1. ASSUME LinkInv, [LinkingNext]_linkingVars
      PROVE  [\A id \in Ids :
                (Stored(id) /\ Stored(id)' /\ store[id]'.aliases # store[id].aliases) =>
                    Score(linker.mention, id) >=
                        (IF TieBreaker THEN Threshold - Margin ELSE Threshold)]_linkingVars
  BY <1>1, StoredEntityStep DEF Bound
<1>. QED
  BY <1>1, LinkAlways, PTL DEF LinkingSpec, AliasesEarned

(***************************************************************************)
(* Linking implements the ownership of names.                              *)
(***************************************************************************)

\* The owner of a slot is the one entity whose names cover it.
LEMMA OwnerIs ==
    ASSUME LinkInv, NEW s \in Slots
    PROVE  /\ \A id \in Ids : Owner(s) = id <=> id \in Block(s)
           /\ Block(s) = {} => Owner(s) = NoOne
<1>. USE DEF LinkInv, LinkingTypeOK
<1>1. \A i, j \in Block(s) : i = j
  BY DEF Block, NamesDisjoint
<1>2. NoOne \notin Ids
  BY NoEntityAssumption DEF NoOne
<1>. QED
  BY <1>1, <1>2 DEF Owner, Block

\* Writing an entity gives it the slots of its names, and changes no other owner.
LEMMA WriteClaims ==
    ASSUME LinkInv, LinkInv', NEW id \in Ids, NEW e \in Entity, Apart(id, e),
           Stored(id) => store[id].type = e.type /\ NamesOf(store[id]) \subseteq NamesOf(e),
           store' = [store EXCEPT ![id] = e]
    PROVE  Ownership!Next
<1>. DEFINE S == {s \in Slots : s.type = e.type /\ s.name \in NamesOf(e)}
            owner == [s \in Slots |-> Owner(s)]
<1>0. /\ store'[id] = e /\ e # NoEntity /\ \A j \in Ids : j # id => store'[j] = store[j]
  BY NoEntityAssumption DEF LinkInv, LinkingTypeOK
<1>1. ASSUME NEW s \in S
      PROVE  Owner(s) \in {NoOne, id} /\ Owner(s)' = id
  <2>1. \A j \in Block(s) : j = id
    BY DEF Apart, Block
  <2>2. Owner(s) \in {NoOne, id}
    BY <2>1, OwnerIs DEF Block
  <2>3. id \in Block(s)'
    BY <1>0 DEF Block, Stored
  <2>4. \A j \in Block(s)' : j = id
    BY <2>3 DEF LinkInv, NamesDisjoint, Block
  <2>5. Owner(s)' = id
    BY <2>3, <2>4 DEF Owner, Block
  <2>. QED
    BY <2>2, <2>5
<1>2. ASSUME NEW s \in Slots \ S
      PROVE  Owner(s)' = Owner(s)
  <2>1. Block(s)' = Block(s)
    BY <1>0 DEF Block, Stored
  <2>. QED
    BY <2>1 DEF Owner
<1>3. Ownership!OneType(S \cup Ownership!OwnedBy(id))
  <2>1. \A s \in S : s.type = e.type
    OBVIOUS
  <2>2. ASSUME NEW s \in Slots, Owner(s) = id
        PROVE  s.type = e.type
    <3>1. id \in Block(s)
      BY <2>2, OwnerIs
    <3>. QED
      BY <3>1 DEF Block
  <2>. QED
    BY <2>1, <2>2 DEF Ownership!OneType, Ownership!OwnedBy
<1>4. Ownership!Claim(id, S)
  <2>1. \A s \in S : owner[s] \in {NoOne, id}
    BY <1>1
  <2>2. owner' = [s \in Slots |-> IF s \in S THEN id ELSE owner[s]]
    BY <1>1, <1>2
  <2>. QED
    BY <2>1, <2>2, <1>3 DEF Ownership!Claim
<1>5. S \in SUBSET Slots
  OBVIOUS
<1>. QED
  BY <1>4, <1>5 DEF Ownership!Next

\* Every step maps to a claim, a release or a stutter.
LEMMA OwnershipStep ==
    ASSUME LinkInv, LinkInv', [LinkingNext]_linkingVars
    PROVE  [Ownership!Next]_([s \in Slots |-> Owner(s)])
<1>1. CASE UNCHANGED store
  <2>1. \A s \in Slots : Owner(s)' = Owner(s)
    BY <1>1 DEF Owner, Block, Stored
  <2>. QED
    BY <2>1
<1>2. CASE Merge
  BY <1>2, MergeWrites, WriteClaims DEF Merge
<1>3. CASE Create
  BY <1>3, CreateWrites, WriteClaims
<1>4. ASSUME NEW id \in Ids, Remove(id)
      PROVE  Ownership!Next
  <2>1. /\ store'[id] = NoEntity
        /\ \A j \in Ids : j # id => store'[j] = store[j]
    BY <1>4 DEF Remove, LinkInv, LinkingTypeOK
  <2>2. ASSUME NEW s \in Slots
        PROVE  Owner(s)' = IF Owner(s) = id THEN NoOne ELSE Owner(s)
    <3>1. Block(s)' = Block(s) \ {id}
      BY <2>1 DEF Block, Stored
    <3>2. CASE Owner(s) = id
      <4>1. Block(s) = {id}
        BY <3>2, OwnerIs DEF Block, LinkInv, NamesDisjoint
      <4>2. Block(s)' = {}
        BY <3>1, <4>1
      <4>. QED
        BY <3>2, <4>2 DEF Owner
    <3>3. CASE Owner(s) # id
      <4>1. id \notin Block(s)
        BY <3>3, OwnerIs
      <4>2. Block(s)' = Block(s)
        BY <3>1, <4>1
      <4>. QED
        BY <3>3, <4>2 DEF Owner
    <3>. QED
      BY <3>2, <3>3
  <2>3. Ownership!Release(id)
    BY <2>2 DEF Ownership!Release
  <2>. QED
    BY <2>3 DEF Ownership!Next
<1>5. CASE \/ \E m \in Mention : BlockHit(m) \/ BlockMiss(m)
           \/ FuzzyMatch \/ NoMatch \/ Mint \/ Abort
  BY <1>5, <1>1, LinkReads
<1>6. CASE UNCHANGED linkingVars
  BY <1>6, <1>1 DEF linkingVars
<1>. QED
  BY <1>2, <1>3, <1>4, <1>5, <1>6 DEF LinkingNext

\* Linking implements the ownership of names.
THEOREM LinkingImplementsOwnership == LinkingSpec => OwnsNames
<1>1. LinkingInit => Ownership!Init
  BY DEF LinkingInit, Ownership!Init, Owner, Block, Stored
<1>. QED
  BY <1>1, LinkAlways, OwnershipStep, PTL DEF LinkingSpec, OwnsNames, Ownership!Spec

(***************************************************************************)
(* The response cache.                                                     *)
(***************************************************************************)

\* Contents are the functions on 1..n, and writing a block makes another one.
LEMMA ContentFacts ==
    /\ <<>> \in Content
    /\ \A r \in Responses : Text(r) \in Content
    /\ \A x \in Content, i \in Nat \ {0}, r \in Responses : Put(x, i, r) \in Content
<1>. DEFINE Piece == Responses \cup {Hole}
<1>1. \A n \in Nat : [1..n -> Piece] \subseteq Content
  BY SeqDef DEF Content
<1>2. <<>> \in Content
  BY DEF Content
<1>3. ASSUME NEW r \in Responses
      PROVE  Text(r) \in Content
  <2>1. Blocks[r] \in Nat
    BY CacheAssumption
  <2>2. Text(r) \in [1..Blocks[r] -> Piece]
    BY DEF Text
  <2>. QED
    BY <2>1, <2>2, <1>1
<1>4. ASSUME NEW x \in Content, NEW i \in Nat \ {0}, NEW r \in Responses
      PROVE  Put(x, i, r) \in Content
  <2>. DEFINE n == IF i > Len(x) THEN i ELSE Len(x)
  <2>1. Len(x) \in Nat /\ x \in [1..Len(x) -> Piece]
    BY LenProperties DEF Content
  <2>2. n \in Nat
    BY <2>1
  <2>3. Put(x, i, r) \in [1..n -> Piece]
    <3>1. ASSUME NEW j \in 1..n
          PROVE  (CASE j = i -> r
                    [] j # i /\ j <= Len(x) -> x[j]
                    [] OTHER -> Hole) \in Piece
      <4>1. CASE j = i
        BY <4>1
      <4>2. CASE j # i /\ j <= Len(x)
        <5>1. x[j] \in Piece
          BY <4>2, <2>1
        <5>. QED
          BY <4>2, <5>1
      <4>3. CASE j # i /\ ~(j <= Len(x))
        BY <4>3
      <4>. QED
        BY <4>1, <4>2, <4>3
    <3>. QED
      BY <3>1 DEF Put
  <2>. QED
    BY <2>2, <2>3, <1>1
<1>. QED
  BY <1>2, <1>3, <1>4

\* Reading a content yields a content, in which reading again changes nothing; the instance
\* of a valid text is valid.
LEMMA ReadFacts ==
    /\ \A x \in Content : ReadText(x) \in Content /\ ReadText(ReadText(x)) = ReadText(x)
    /\ \A k \in Keys, r \in Responses : Outcome(k, r) \in Content
    /\ \A k \in StructuredKeys, r \in Valid : Validates(Outcome(k, r))
<1>. DEFINE Piece == Responses \cup {Hole}
<1>1. ASSUME NEW x \in Content
      PROVE  ReadText(x) \in Content /\ ReadText(ReadText(x)) = ReadText(x)
  <2>1. Len(x) \in Nat /\ x \in [1..Len(x) -> Piece] /\ DOMAIN x = 1..Len(x)
    BY LenProperties DEF Content
  <2>2. \A i \in DOMAIN x : (IF x[i] = Hole THEN Hole ELSE Newlines[x[i]]) \in Piece
    BY <2>1, CacheAssumption
  <2>3. ReadText(x) \in [1..Len(x) -> Piece]
    BY <2>1, <2>2 DEF ReadText
  <2>4. ReadText(x) \in Content
    BY <2>1, <2>3, SeqDef DEF Content
  <2>5. ReadText(ReadText(x)) = ReadText(x)
    <3>1. DOMAIN ReadText(x) = DOMAIN x
      BY DEF ReadText
    <3>2. ASSUME NEW i \in DOMAIN x
          PROVE  (IF ReadText(x)[i] = Hole THEN Hole ELSE Newlines[ReadText(x)[i]]) = ReadText(x)[i]
      <4>1. ReadText(x)[i] = IF x[i] = Hole THEN Hole ELSE Newlines[x[i]]
        BY DEF ReadText
      <4>2. CASE x[i] = Hole
        BY <4>1, <4>2
      <4>3. CASE x[i] # Hole
        <5>1. x[i] \in Responses
          BY <2>1, <4>3
        <5>2. Newlines[Newlines[x[i]]] = Newlines[x[i]] /\ Newlines[x[i]] # Hole
          BY <5>1, CacheAssumption
        <5>. QED
          BY <4>1, <4>3, <5>2
      <4>. QED
        BY <4>2, <4>3
    <3>3. ReadText(ReadText(x)) = [i \in DOMAIN x |-> ReadText(x)[i]]
      BY <3>1, <3>2 DEF ReadText
    <3>. QED
      BY <3>3 DEF ReadText
  <2>. QED
    BY <2>4, <2>5
<1>2. ASSUME NEW k \in Keys, NEW r \in Responses
      PROVE  Outcome(k, r) \in Content
  BY <1>1, ContentFacts DEF Outcome
<1>3. ASSUME NEW k \in StructuredKeys, NEW r \in Valid
      PROVE  Validates(Outcome(k, r))
  <2>1. r \in Responses /\ r # Hole /\ Newlines[r] \in Valid /\ Blocks[Newlines[r]] = Blocks[r]
    BY CacheAssumption
  <2>2. ReadText(Text(r)) = Text(Newlines[r])
    BY <2>1 DEF ReadText, Text
  <2>. QED
    BY <2>1, <2>2 DEF Outcome, Validates
<1>. QED
  BY <1>1, <1>2, <1>3

\* A content is never "no file".
LEMMA ContentIsAFile == Absent \notin Content
BY CacheAssumption DEF Content

(***************************************************************************)
(* The cache under every interleaving: the type, and what is returned.     *)
(***************************************************************************)

\* A thread that holds a text holds one its key accepts; a key that was answered has a file.
Answerable ==
    /\ \A c \in Callers : caller[c].pc \in {"open", "writing"} =>
        Accepts(caller[c].key, caller[c].text)
    /\ \A c \in Callers : Writing(c) => file[caller[c].key] # Absent
    /\ \A k \in Keys : returned[k] # {} => file[k] # Absent

CacheInv == TypeOK /\ OnlyValidIsReturned /\ Answerable

\* The initial state satisfies the invariant.
LEMMA CacheInit == Init => CacheInv
BY CacheAssumption
   DEF Init, CacheInv, TypeOK, OnlyValidIsReturned, Answerable, Idle, Writing

\* A block goes to the file of the thread's key, which stays a file.
LEMMA BlockWritten ==
    ASSUME CacheInv, NEW c \in Callers, WriteBlock(c)
    PROVE  /\ caller' \in [Callers -> {Idle} \cup Call \cup Write]
           /\ file' \in [Keys -> Content \cup {Absent}]
           /\ \A k \in Keys : file[k] # Absent => file'[k] # Absent
           /\ UNCHANGED <<returned, spent>>
<1>. USE DEF TypeOK, CacheInv
<1>1. PICK k \in Keys, t \in Responses, i \in Nat \ {0} :
        caller[c] = [pc |-> "writing", key |-> k, text |-> t, next |-> i]
  BY DEF WriteBlock, Idle, Call, Write
<1>2. [caller[c] EXCEPT !.next = @ + 1]
        = [pc |-> "writing", key |-> k, text |-> t, next |-> i + 1]
  BY <1>1
<1>3. [caller[c] EXCEPT !.next = @ + 1] \in Write
  BY <1>1, <1>2 DEF Write
<1>4. caller' \in [Callers -> {Idle} \cup Call \cup Write]
  BY <1>3 DEF WriteBlock
<1>5. file[k] \in Content
  BY <1>1 DEF Answerable, Writing
<1>6. Put(file[k], i, t) \in Content
  BY <1>1, <1>5, ContentFacts
<1>7. file' = [file EXCEPT ![k] = Put(file[k], i, t)]
  BY <1>1 DEF WriteBlock
<1>8. file' \in [Keys -> Content \cup {Absent}]
  BY <1>6, <1>7
<1>9. \A j \in Keys : file[j] # Absent => file'[j] # Absent
  BY <1>6, <1>7, ContentIsAFile
<1>10. UNCHANGED <<returned, spent>>
  BY DEF WriteBlock
<1>. QED
  BY <1>4, <1>8, <1>9, <1>10

\* Each step keeps the types.
LEMMA CacheTypes ==
    ASSUME CacheInv, [Next]_vars
    PROVE  TypeOK'
<1>. USE DEF TypeOK, CacheInv
<1>0. MaxRetries \in Nat
  BY CacheAssumption
<1>1. ASSUME NEW c \in Callers, NEW k \in Keys, Hit(c, k) \/ StructuredHit(c, k)
      PROVE  TypeOK'
  <2>1. file[k] \in Content
    BY <1>1 DEF Hit, StructuredHit
  <2>2. ReadText(file[k]) \in Content
    BY <2>1, ReadFacts
  <2>. QED
    BY <1>1, <2>2 DEF Hit, StructuredHit, Begin, Returns
<1>2. ASSUME NEW c \in Callers, NEW k \in Keys, Miss(c, k)
      PROVE  TypeOK'
  BY <1>0, <1>2 DEF Miss, Begin, Goto, Call
<1>3. ASSUME NEW c \in Callers, Answered(c)
      PROVE  TypeOK'
  BY <1>3 DEF Answered, Goto, Idle, Call, Write
<1>4. ASSUME NEW c \in Callers, Malformed(c)
      PROVE  TypeOK'
  <2>1. caller[c] \in Call
    BY <1>4 DEF Malformed, Idle, Write
  <2>2. caller[c].tries < MaxRetries => [caller[c] EXCEPT !.tries = @ + 1] \in Call
    BY <1>0, <2>1 DEF Call
  <2>. QED
    BY <1>4, <2>1, <2>2 DEF Malformed, Goto
<1>5. ASSUME NEW c \in Callers, Open(c)
      PROVE  TypeOK'
  <2>1. caller[c] \in Write
    BY <1>5 DEF Open, Idle, Call
  <2>2. [pc |-> "writing", key |-> caller[c].key, text |-> caller[c].text, next |-> 1] \in Write
    BY <2>1 DEF Write
  <2>. QED
    BY <1>5, <2>1, <2>2, ContentFacts DEF Open, Goto
<1>6. ASSUME NEW c \in Callers, WriteBlock(c)
      PROVE  TypeOK'
  BY <1>6, BlockWritten DEF WriteBlock
<1>7. ASSUME NEW c \in Callers, Return(c)
      PROVE  TypeOK'
  <2>. DEFINE k == caller[c].key
              answer == Outcome(k, caller[c].text)
  <2>1. k \in Keys /\ caller[c].text \in Responses
    BY <1>7 DEF Return, Idle, Call, Write
  <2>2. answer \in Content
    BY <2>1, ReadFacts
  <2>3. /\ caller' = [caller EXCEPT ![c] = Idle] /\ UNCHANGED <<file, spent>>
        /\ returned' = [returned EXCEPT ![k] = @ \cup {answer}]
    BY <1>7 DEF Return, Returns, Goto
  <2>. HIDE DEF k, answer
  <2>. QED
    BY <2>1, <2>2, <2>3
<1>8. ASSUME Crash \/ \E c \in Callers : Raise(c)
      PROVE  TypeOK'
  BY <1>8 DEF Crash, Raise, Fault, Goto
<1>9. CASE UNCHANGED vars
  BY <1>9 DEF vars
<1>. QED
  BY <1>1, <1>2, <1>3, <1>4, <1>5, <1>6, <1>7, <1>8, <1>9 DEF Next, Proceed

\* Each step keeps what the threads and the files know of each other.
LEMMA CacheStep ==
    ASSUME CacheInv, [Next]_vars
    PROVE  OnlyValidIsReturned' /\ Answerable'
<1>. USE DEF TypeOK, CacheInv, OnlyValidIsReturned, Answerable
<1>1. ASSUME NEW c \in Callers, NEW k \in Keys, Hit(c, k) \/ StructuredHit(c, k)
      PROVE  OnlyValidIsReturned' /\ Answerable'
  <2>1. /\ caller' = caller /\ file' = file /\ file[k] # Absent
        /\ \/ returned' = returned
           \/ /\ returned' = [returned EXCEPT ![k] = @ \cup {ReadText(file[k])}]
              /\ k \in StructuredKeys => Validates(ReadText(file[k]))
    BY <1>1 DEF Hit, StructuredHit, Returns
  <2>. DEFINE text == ReadText(file[k])
  <2>2. /\ \/ returned' = returned
           \/ /\ returned' = [returned EXCEPT ![k] = @ \cup {text}]
              /\ k \in StructuredKeys => Validates(text)
    BY <2>1
  <2>. HIDE DEF text
  <2>3. OnlyValidIsReturned'
    BY <2>2, CacheAssumption DEF Validates
  <2>4. Answerable'
    BY <2>1, <2>2 DEF Writing
  <2>. QED
    BY <2>3, <2>4
<1>2. ASSUME NEW c \in Callers, NEW k \in Keys, Miss(c, k)
      PROVE  OnlyValidIsReturned' /\ Answerable'
  BY <1>2 DEF Miss, Begin, Goto, Writing
<1>3. ASSUME NEW c \in Callers, Answered(c)
      PROVE  OnlyValidIsReturned' /\ Answerable'
  BY <1>3 DEF Answered, Goto, Writing
<1>4. ASSUME NEW c \in Callers, Malformed(c)
      PROVE  OnlyValidIsReturned' /\ Answerable'
  BY <1>4 DEF Malformed, Goto, Writing, Idle
<1>5. ASSUME NEW c \in Callers, Open(c)
      PROVE  OnlyValidIsReturned' /\ Answerable'
  <2>1. caller[c].key \in Keys /\ <<>> # Absent
    BY <1>5, ContentFacts, ContentIsAFile DEF Open, Idle, Call, Write
  <2>. QED
    BY <1>5, <2>1 DEF Open, Goto, Writing
<1>6. ASSUME NEW c \in Callers, WriteBlock(c)
      PROVE  OnlyValidIsReturned' /\ Answerable'
  <2>1. \A k \in Keys : file[k] # Absent => file'[k] # Absent
    BY <1>6, BlockWritten
  <2>. QED
    BY <1>6, <2>1 DEF WriteBlock, Writing
<1>7. ASSUME NEW c \in Callers, Return(c)
      PROVE  OnlyValidIsReturned' /\ Answerable'
  <2>. DEFINE k == caller[c].key
              r == caller[c].text
  <2>1. k \in Keys /\ r \in Responses /\ Accepts(k, r) /\ file[k] # Absent
    BY <1>7 DEF Return, Idle, Call, Write, Writing
  <2>2. k \in StructuredKeys => Validates(Outcome(k, r))
    BY <2>1, ReadFacts DEF Accepts
  <2>3. /\ caller' = [caller EXCEPT ![c] = Idle] /\ file' = file
        /\ returned' = [returned EXCEPT ![k] = @ \cup {Outcome(k, r)}]
    BY <1>7 DEF Return, Returns, Goto
  <2>. HIDE DEF k, r
  <2>4. OnlyValidIsReturned'
    BY <2>1, <2>2, <2>3, CacheAssumption DEF Validates
  <2>5. Answerable'
    BY <2>1, <2>3 DEF Writing, Idle
  <2>. QED
    BY <2>4, <2>5
<1>8. ASSUME Crash \/ \E c \in Callers : Raise(c)
      PROVE  OnlyValidIsReturned' /\ Answerable'
  BY <1>8 DEF Crash, Raise, Fault, Goto, Writing, Idle
<1>9. CASE UNCHANGED vars
  BY <1>9 DEF vars, Writing
<1>. QED
  BY <1>1, <1>2, <1>3, <1>4, <1>5, <1>6, <1>7, <1>8, <1>9 DEF Next, Proceed

\* The invariant holds in every reachable state.
THEOREM CacheAlways == Spec => []CacheInv
<1>1. CacheInv /\ [Next]_vars => CacheInv'
  BY CacheTypes, CacheStep DEF CacheInv
<1>. QED
  BY <1>1, CacheInit, PTL DEF Spec

\* `structured` returns only texts that validate, whatever happened to the file.
THEOREM ReturnedIsValid == Spec => []OnlyValidIsReturned
BY CacheAlways, PTL DEF CacheInv

\* No call after the first answer for a key asks the provider again.
THEOREM NeverPaidTwice == Spec => PaidOnce
<1>1. ASSUME CacheInv, [Next]_vars
      PROVE  [\A c \in Callers, k \in Keys :
                (caller[c] = Idle /\ caller'[c] # Idle /\ caller'[c].key = k)
                    => returned[k] = {}]_vars
  <2>. SUFFICES ASSUME NEW c \in Callers, NEW k \in Keys, Next,
                       caller[c] = Idle, caller'[c] # Idle, caller'[c].key = k
                PROVE  returned[k] = {}
    BY <1>1
  <2>1. PICK j \in Keys : Miss(c, j)
    <3>1. ASSUME NEW b \in Callers, Proceed(b) \/ Raise(b)
          PROVE  FALSE
      BY <3>1, <1>1 DEF Proceed, Answered, Malformed, Open, WriteBlock, Return, Raise, Goto,
                        Idle, CacheInv, TypeOK
    <3>2. ASSUME NEW b \in Callers, NEW j \in Keys, Hit(b, j) \/ StructuredHit(b, j)
          PROVE  FALSE
      BY <3>2 DEF Hit, StructuredHit
    <3>3. ~Crash
      BY DEF Crash
    <3>4. PICK b \in Callers, j \in Keys : Miss(b, j)
      BY <3>1, <3>2, <3>3 DEF Next
    <3>5. b = c
      BY <3>4, <1>1 DEF Miss, Goto, CacheInv, TypeOK
    <3>. QED
      BY <3>4, <3>5
  <2>. QED
    BY <1>1, <2>1 DEF Miss, Goto, CacheInv, TypeOK, Answerable
<1>. QED
  BY <1>1, CacheAlways, PTL DEF Spec, PaidOnce

\* Once nobody is in a call for a key that has a file, its answer is settled: what follows
\* any race or death leaves the file alone, and every later call gets what it then holds.
THEOREM AnswersAreSettled == Spec => AnswersSettle
<1>1. ASSUME CacheInv, [Next]_vars, NEW k \in Keys, ~Busy(k), file[k] # Absent
      PROVE  /\ ~Busy(k)' /\ file'[k] = file[k]
             /\ returned'[k] \subseteq returned[k] \cup {ReadText(file[k])}
  <2>. USE <1>1 DEF CacheInv, TypeOK, Busy
  <2>1. ASSUME NEW c \in Callers, NEW j \in Keys, Hit(c, j) \/ StructuredHit(c, j)
        PROVE  /\ ~Busy(k)' /\ file'[k] = file[k]
               /\ returned'[k] \subseteq returned[k] \cup {ReadText(file[k])}
    BY <2>1 DEF Hit, StructuredHit, Returns
  <2>2. ASSUME NEW c \in Callers, NEW j \in Keys, Miss(c, j)
        PROVE  /\ ~Busy(k)' /\ file'[k] = file[k] /\ returned' = returned
    <3>1. j # k /\ caller' = [caller EXCEPT ![c] = [pc |-> "calling", key |-> j, tries |-> 0]]
          /\ file' = file /\ returned' = returned
      BY <2>2 DEF Miss, Goto
    <3>. QED
      BY <3>1
  <2>3. ASSUME NEW c \in Callers, Proceed(c) \/ Raise(c)
        PROVE  /\ ~Busy(k)' /\ file'[k] = file[k] /\ returned'[k] = returned[k]
    <3>1. caller[c] # Idle /\ caller[c].key \in Keys /\ caller[c].key # k
      BY <2>3 DEF Proceed, Answered, Malformed, Open, WriteBlock, Return, Raise, Fault,
                  Idle, Call, Write
    <3>2. file'[k] = file[k] /\ returned'[k] = returned[k]
      BY <2>3, <3>1 DEF Proceed, Answered, Malformed, Open, WriteBlock, Return, Raise, Fault,
                        Returns
    <3>3. \A b \in Callers : b # c => caller'[b] = caller[b]
      BY <2>3 DEF Proceed, Answered, Malformed, Open, WriteBlock, Return, Raise, Goto
    <3>4. caller'[c] = Idle \/ caller'[c].key = caller[c].key
      <4>1. CASE Malformed(c)
        <5>1. caller[c] \in Call
          BY <4>1 DEF Malformed, Idle, Write
        <5>. QED
          BY <4>1, <5>1 DEF Malformed, Goto, Call
      <4>2. CASE WriteBlock(c)
        BY <4>2, BlockWritten DEF WriteBlock, Write, Call, Idle
      <4>3. CASE Answered(c) \/ Open(c) \/ Return(c) \/ Raise(c)
        BY <4>3 DEF Answered, Open, Return, Raise, Goto
      <4>. QED
        BY <2>3, <4>1, <4>2, <4>3 DEF Proceed
    <3>. QED
      BY <3>1, <3>2, <3>3, <3>4
  <2>4. CASE Crash
    BY <2>4 DEF Crash, Fault
  <2>5. CASE UNCHANGED vars
    BY <2>5 DEF vars
  <2>. QED
    BY <2>1, <2>2, <2>3, <2>4, <2>5 DEF Next
<1>2. ASSUME CacheInv, [Next]_vars
      PROVE  [\A k \in Keys : ~Busy(k) /\ file[k] # Absent =>
                /\ ~Busy(k)' /\ file'[k] = file[k]
                /\ returned'[k] \subseteq returned[k] \cup {ReadText(file[k])}]_vars
  BY <1>1, <1>2
<1>. QED
  BY <1>2, CacheAlways, PTL DEF Spec, AnswersSettle

(***************************************************************************)
(* The cache with one caller per key: what the files hold.                 *)
(***************************************************************************)

\* the first n blocks of a text
Prefix(r, n) == [i \in 1..n |-> r]

\* One thread at a time holds a key.  Until it has returned, the file is absent or a prefix
\* of its text and nobody got an answer; afterwards the file is whole and is the only answer.
OneHolder ==
    \A b, c \in Callers :
        b # c /\ caller[b] # Idle /\ caller[c] # Idle => caller[b].key # caller[c].key

HeldKeys ==
    \A c \in Callers : caller[c] # Idle =>
        /\ returned[caller[c].key] = {}
        /\ ~Writing(c) => file[caller[c].key] = Absent
        /\ Writing(c) =>
            /\ caller[c].next <= Blocks[caller[c].text] + 1
            /\ file[caller[c].key] = Prefix(caller[c].text, caller[c].next - 1)

\* x is what reading the content f gives a caller of k, or the text that content was made of
Reads(k, x, f) ==
    /\ f \in Content
    /\ IF k \in StructuredKeys THEN x = ReadText(f) ELSE ReadText(x) = ReadText(f)

AnswersAreFiles ==
    \A k \in Keys : ~Busy(k) => \A x \in returned[k] : Reads(k, x, file[k])

SerialInv == CacheInv /\ OneHolder /\ HeldKeys /\ FilesAreWhole /\ AnswersAreFiles

\* The next block makes the prefix one longer, and the whole prefix is the text.
LEMMA PrefixGrows ==
    ASSUME NEW r \in Responses, NEW n \in Nat \ {0}
    PROVE  /\ Put(Prefix(r, n - 1), n, r) = Prefix(r, n)
           /\ Prefix(r, Blocks[r]) = Text(r)
           /\ Prefix(r, 0) = <<>>
<1>1. Prefix(r, n - 1) \in Seq(Responses) /\ Len(Prefix(r, n - 1)) = n - 1
  <2>1. Prefix(r, n - 1) \in [1..(n - 1) -> Responses] /\ n - 1 \in Nat
    BY DEF Prefix
  <2>2. Prefix(r, n - 1) \in Seq(Responses)
    BY <2>1, SeqDef
  <2>. QED
    BY <2>1, <2>2, LenProperties
<1>2. Put(Prefix(r, n - 1), n, r) = Prefix(r, n)
  <2>1. Put(Prefix(r, n - 1), n, r)
          = [j \in 1..n |-> CASE j = n -> r
                              [] j # n /\ j <= n - 1 -> Prefix(r, n - 1)[j]
                              [] OTHER -> Hole]
    BY <1>1 DEF Put
  <2>2. \A j \in 1..n : (CASE j = n -> r
                          [] j # n /\ j <= n - 1 -> Prefix(r, n - 1)[j]
                          [] OTHER -> Hole) = r
    BY DEF Prefix
  <2>. QED
    BY <2>1, <2>2 DEF Prefix
<1>3. Prefix(r, 0) = <<>>
  BY DEF Prefix
<1>. QED
  BY <1>2, <1>3 DEF Prefix, Text

\* The initial state satisfies the invariant.
LEMMA SerialInit == Init => SerialInv
BY CacheInit DEF Init, SerialInv, OneHolder, HeldKeys, FilesAreWhole, AnswersAreFiles, Busy,
                 Idle, Writing

\* A call that begins takes a key nobody holds.
LEMMA SerialBegin ==
    ASSUME SerialInv, NEW c \in Callers, NEW k \in Keys, ~Busy(k),
           Hit(c, k) \/ StructuredHit(c, k) \/ Miss(c, k)
    PROVE  OneHolder' /\ HeldKeys' /\ FilesAreWhole' /\ AnswersAreFiles'
<1>. USE DEF SerialInv, OneHolder, HeldKeys, FilesAreWhole, AnswersAreFiles, Busy, Writing,
             CacheInv, TypeOK
<1>1. CASE Hit(c, k) \/ StructuredHit(c, k)
  <2>1. caller' = caller /\ file' = file
    BY <1>1 DEF Hit, StructuredHit
  <2>2. returned' = returned \/ returned' = [returned EXCEPT ![k] = @ \cup {ReadText(file[k])}]
    BY <1>1 DEF Hit, StructuredHit, Returns
  <2>3. \A b \in Callers : caller[b] # Idle =>
            caller[b].key # k /\ returned'[caller[b].key] = returned[caller[b].key]
    BY <2>2 DEF Idle, Call, Write
  <2>4. OneHolder' /\ HeldKeys' /\ FilesAreWhole'
    BY <2>1, <2>3
  <2>5. Reads(k, ReadText(file[k]), file[k])
    <3>1. file[k] \in Content
      BY <1>1 DEF Hit, StructuredHit
    <3>. QED
      BY <3>1, ReadFacts DEF Reads
  <2>6. AnswersAreFiles'
    BY <2>1, <2>2, <2>5
  <2>. QED
    BY <2>4, <2>6
<1>2. CASE Miss(c, k)
  <2>1. /\ file' = file /\ returned' = returned /\ file[k] = Absent /\ caller[c] = Idle
        /\ caller' = [caller EXCEPT ![c] = [pc |-> "calling", key |-> k, tries |-> 0]]
    BY <1>2 DEF Miss, Begin, Goto
  <2>2. returned[k] = {}
    BY <2>1 DEF Answerable
  <2>3. /\ caller'[c] # Idle /\ caller'[c].key = k /\ caller'[c].pc = "calling"
        /\ \A b \in Callers : b # c => caller'[b] = caller[b]
    BY <2>1 DEF Idle
  <2>4. OneHolder'
    BY <2>3
  <2>5. HeldKeys'
    BY <2>1, <2>2, <2>3
  <2>6. FilesAreWhole' /\ AnswersAreFiles'
    BY <2>1, <2>2, <2>3
  <2>. QED
    BY <2>4, <2>5, <2>6
<1>. QED
  BY <1>1, <1>2

\* A thread that asks the provider, or gives up before it writes, touches no file.
LEMMA SerialAsk ==
    ASSUME SerialInv, NEW c \in Callers, caller[c] # Idle, ~Writing(c),
           UNCHANGED <<file, returned>>,
           NEW s, caller' = [caller EXCEPT ![c] = s],
           s = Idle \/ (s.key = caller[c].key /\ s.pc # "writing")
    PROVE  OneHolder' /\ HeldKeys' /\ FilesAreWhole' /\ AnswersAreFiles'
<1>. USE DEF SerialInv, OneHolder, HeldKeys, FilesAreWhole, AnswersAreFiles, Busy, Writing,
             CacheInv, TypeOK
<1>1. /\ \A b \in Callers : b # c => caller'[b] = caller[b]
      /\ caller'[c] = s
  OBVIOUS
<1>2. OneHolder'
  BY <1>1 DEF Idle
<1>3. HeldKeys'
  BY <1>1 DEF Idle
<1>4. FilesAreWhole' /\ AnswersAreFiles'
  <2>. SUFFICES ASSUME NEW k \in Keys, ~Busy(k)'
                PROVE  /\ file[k] = Absent \/ \E r \in Responses : Accepts(k, r) /\ file[k] = Text(r)
                       /\ \A x \in returned[k] : Reads(k, x, file[k])
    OBVIOUS
  <2>1. CASE Busy(k)
    BY <2>1
  <2>2. CASE ~Busy(k)
    BY <2>2
  <2>. QED
    BY <2>1, <2>2
<1>. QED
  BY <1>2, <1>3, <1>4

\* A thread that writes changes the file of its own key only.
LEMMA SerialWrite ==
    ASSUME SerialInv, NEW c \in Callers, Open(c) \/ WriteBlock(c)
    PROVE  OneHolder' /\ HeldKeys' /\ FilesAreWhole' /\ AnswersAreFiles'
<1>. USE DEF SerialInv, CacheInv, TypeOK
<1>1. PICK k \in Keys, t \in Responses, i \in Nat \ {0} :
        /\ caller[c] # Idle /\ caller[c].key = k /\ caller[c].text = t
        /\ caller'[c] = [pc |-> "writing", key |-> k, text |-> t, next |-> i]
        /\ caller' = [caller EXCEPT ![c] = caller'[c]]
        /\ i <= Blocks[t] + 1
        /\ file' = [file EXCEPT ![k] = Prefix(t, i - 1)]
        /\ returned' = returned
  <2>1. CASE Open(c)
    <3>1. caller[c] \in Write
      BY <2>1 DEF Open, Idle, Call
    <3>2. /\ caller[c].key \in Keys /\ caller[c].text \in Responses
          /\ Blocks[caller[c].text] \in Nat
      BY <3>1, CacheAssumption DEF Write
    <3>3. Prefix(caller[c].text, 1 - 1) = <<>>
      <4>1. 1 - 1 = 0
        OBVIOUS
      <4>. QED
        BY <4>1, <3>2, PrefixGrows
    <3>4. /\ file' = [file EXCEPT ![caller[c].key] = <<>>] /\ returned' = returned
          /\ caller' = [caller EXCEPT ![c] = [pc |-> "writing", key |-> caller[c].key,
                                              text |-> caller[c].text, next |-> 1]]
      BY <2>1 DEF Open, Goto
    <3>5. caller[c] # Idle /\ 1 <= Blocks[caller[c].text] + 1
      BY <2>1, <3>2 DEF Open, Idle
    <3>. USE <3>2
    <3>. WITNESS caller[c].key \in Keys, caller[c].text \in Responses, 1 \in Nat \ {0}
    <3>. QED
      BY <3>2, <3>3, <3>4, <3>5
  <2>2. CASE WriteBlock(c)
    <3>1. PICK k \in Keys, t \in Responses, n \in Nat \ {0} :
            caller[c] = [pc |-> "writing", key |-> k, text |-> t, next |-> n]
      BY <2>2 DEF WriteBlock, Idle, Call, Write
    <3>2. [caller[c] EXCEPT !.next = @ + 1]
            = [pc |-> "writing", key |-> k, text |-> t, next |-> n + 1]
      BY <3>1
    <3>3. file[k] = Prefix(t, n - 1) /\ caller[c] # Idle
      BY <3>1 DEF HeldKeys, Writing, Idle
    <3>4. Put(file[k], n, t) = Prefix(t, (n + 1) - 1)
      <4>1. Put(Prefix(t, n - 1), n, t) = Prefix(t, n)
        BY PrefixGrows
      <4>2. (n + 1) - 1 = n
        OBVIOUS
      <4>. QED
        BY <4>1, <4>2, <3>3
    <3>5. Blocks[t] \in Nat /\ n <= Blocks[t]
      BY <2>2, <3>1, CacheAssumption DEF WriteBlock
    <3>6. /\ caller' = [caller EXCEPT ![c] = [pc |-> "writing", key |-> k, text |-> t, next |-> n + 1]]
          /\ file' = [file EXCEPT ![k] = Prefix(t, (n + 1) - 1)]
          /\ returned' = returned
      <4>1. caller' = [caller EXCEPT ![c] = [caller[c] EXCEPT !.next = @ + 1]]
        BY <2>2 DEF WriteBlock
      <4>2. file' = [file EXCEPT ![k] = Put(file[k], n, t)] /\ returned' = returned
        BY <2>2, <3>1 DEF WriteBlock
      <4>. QED
        BY <4>1, <4>2, <3>2, <3>4
    <3>. WITNESS k \in Keys, t \in Responses, n + 1 \in Nat \ {0}
    <3>. QED
      BY <3>1, <3>3, <3>5, <3>6
  <2>. QED
    BY <2>1, <2>2
<1>2. /\ \A b \in Callers : b # c => caller'[b] = caller[b]
      /\ \A j \in Keys : j # k => file'[j] = file[j]
      /\ file'[k] = Prefix(t, i - 1)
      /\ caller'[c] # Idle /\ caller'[c].key = k /\ caller'[c].text = t
      /\ caller'[c].next = i /\ caller'[c].pc = "writing"
  BY <1>1 DEF Idle
<1>3. \A b \in Callers : b # c /\ caller[b] # Idle => caller[b].key \in Keys /\ caller[b].key # k
  BY <1>1 DEF OneHolder, Idle, Call, Write
<1>4. OneHolder'
  BY <1>1, <1>2, <1>3 DEF OneHolder
<1>5. HeldKeys'
  <2>. SUFFICES ASSUME NEW b \in Callers, caller'[b] # Idle
                PROVE  /\ returned[caller'[b].key] = {}
                       /\ caller'[b].pc # "writing" => file'[caller'[b].key] = Absent
                       /\ caller'[b].pc = "writing" =>
                           /\ caller'[b].next <= Blocks[caller'[b].text] + 1
                           /\ file'[caller'[b].key] = Prefix(caller'[b].text, caller'[b].next - 1)
    BY <1>1 DEF HeldKeys, Writing
  <2>1. CASE b = c
    BY <2>1, <1>1, <1>2 DEF HeldKeys
  <2>2. CASE b # c
    BY <2>2, <1>2, <1>3 DEF HeldKeys, Writing
  <2>. QED
    BY <2>1, <2>2
<1>6. \A j \in Keys : ~Busy(j)' => ~Busy(j) /\ j # k
  BY <1>1, <1>2 DEF Busy
<1>7. FilesAreWhole'
  BY <1>2, <1>6 DEF FilesAreWhole
<1>8. AnswersAreFiles'
  BY <1>1, <1>2, <1>6 DEF AnswersAreFiles
<1>. QED
  BY <1>4, <1>5, <1>7, <1>8

\* The thread that returns leaves a whole file, and is the first to answer.
LEMMA SerialReturn ==
    ASSUME SerialInv, NEW c \in Callers, Return(c)
    PROVE  OneHolder' /\ HeldKeys' /\ FilesAreWhole' /\ AnswersAreFiles'
<1>. USE DEF SerialInv, CacheInv, TypeOK
<1>1. PICK k \in Keys, t \in Responses, n \in Nat \ {0} :
        caller[c] = [pc |-> "writing", key |-> k, text |-> t, next |-> n]
  BY DEF Return, Idle, Call, Write
<1>2. caller[c] # Idle /\ Accepts(k, t)
  BY <1>1 DEF Answerable, Idle
<1>3. returned[k] = {} /\ file[k] = Text(t)
  <2>1. /\ returned[k] = {} /\ n <= Blocks[t] + 1 /\ file[k] = Prefix(t, n - 1)
    BY <1>1, <1>2 DEF HeldKeys, Writing
  <2>2. n - 1 = Blocks[t]
    <3>1. Blocks[t] \in Nat
      BY CacheAssumption
    <3>2. n > Blocks[t]
      BY <1>1 DEF Return
    <3>. QED
      BY <3>1, <3>2, <2>1
  <2>. QED
    BY <2>1, <2>2, PrefixGrows
<1>4. /\ caller' = [caller EXCEPT ![c] = Idle] /\ file' = file
      /\ returned' = [returned EXCEPT ![k] = {Outcome(k, t)}]
  <2>1. caller' = [caller EXCEPT ![c] = Idle] /\ file' = file
    BY DEF Return, Goto
  <2>2. returned' = [returned EXCEPT ![k] = returned[k] \cup {Outcome(k, t)}]
    BY <1>1 DEF Return, Returns
  <2>3. returned[k] \cup {Outcome(k, t)} = {Outcome(k, t)}
    BY <1>3
  <2>. QED
    BY <2>1, <2>2, <2>3
<1>5. \A b \in Callers : b # c /\ caller[b] # Idle => caller[b].key # k
  BY <1>1, <1>2 DEF OneHolder
<1>6. OneHolder' /\ HeldKeys'
  <2>1. OneHolder'
    BY <1>4 DEF OneHolder
  <2>2. HeldKeys'
    <3>. SUFFICES ASSUME NEW b \in Callers, caller'[b] # Idle
                  PROVE  /\ returned'[caller'[b].key] = {}
                         /\ caller'[b].pc # "writing" => file'[caller'[b].key] = Absent
                         /\ caller'[b].pc = "writing" =>
                             /\ caller'[b].next <= Blocks[caller'[b].text] + 1
                             /\ file'[caller'[b].key] = Prefix(caller'[b].text, caller'[b].next - 1)
      BY DEF HeldKeys, Writing
    <3>1. b # c /\ caller'[b] = caller[b]
      BY <1>4
    <3>2. returned'[caller[b].key] = returned[caller[b].key]
      BY <3>1, <1>4, <1>5 DEF Idle, Call, Write
    <3>. QED
      BY <3>1, <3>2, <1>4 DEF HeldKeys, Writing
  <2>. QED
    BY <2>1, <2>2
<1>8. Reads(k, Outcome(k, t), file[k])
  <2>1. Text(t) \in Content
    BY ContentFacts
  <2>. QED
    BY <1>3, <2>1 DEF Reads, Outcome
<1>7. FilesAreWhole' /\ AnswersAreFiles'
  <2>. SUFFICES ASSUME NEW j \in Keys, ~Busy(j)'
                PROVE  /\ file[j] = Absent \/ \E r \in Responses : Accepts(j, r) /\ file[j] = Text(r)
                       /\ \A x \in returned'[j] : Reads(j, x, file[j])
    BY <1>4 DEF FilesAreWhole, AnswersAreFiles
  <2>1. CASE j = k
    BY <2>1, <1>2, <1>3, <1>4, <1>8
  <2>2. CASE j # k
    <3>1. ~Busy(j)
      BY <2>2, <1>1, <1>4 DEF Busy
    <3>. QED
      BY <2>2, <3>1, <1>4 DEF FilesAreWhole, AnswersAreFiles
  <2>. QED
    BY <2>1, <2>2
<1>. QED
  BY <1>6, <1>7

\* A crash while nobody writes frees the keys and touches no file.
LEMMA SerialCrash ==
    ASSUME SerialInv, \A c \in Callers : ~Writing(c), Crash
    PROVE  OneHolder' /\ HeldKeys' /\ FilesAreWhole' /\ AnswersAreFiles'
<1>1. /\ caller' = [c \in Callers |-> Idle] /\ file' = file /\ returned' = returned
  BY DEF Crash, Fault
<1>2. \A k \in Keys : Busy(k) => file[k] = Absent /\ returned[k] = {}
  BY DEF Busy, SerialInv, HeldKeys
<1>. QED
  BY <1>1, <1>2
     DEF SerialInv, OneHolder, HeldKeys, FilesAreWhole, AnswersAreFiles, Busy, Idle, Writing

\* The invariant is inductive.
LEMMA SerialStep == SerialInv /\ [SerialNext]_vars => SerialInv'
<1>. SUFFICES ASSUME SerialInv, [SerialNext]_vars
              PROVE  SerialInv'
  OBVIOUS
<1>1. CacheInv'
  <2>1. [Next]_vars
    BY DEF SerialNext, Next
  <2>. QED
    BY <2>1, CacheTypes, CacheStep DEF SerialInv, CacheInv
<1>2. ASSUME NEW c \in Callers, NEW k \in Keys, ~Busy(k),
             Hit(c, k) \/ StructuredHit(c, k) \/ Miss(c, k)
      PROVE  SerialInv'
  BY <1>1, <1>2, SerialBegin DEF SerialInv
<1>3. ASSUME NEW c \in Callers, Answered(c) \/ Malformed(c) \/ (~Writing(c) /\ Raise(c))
      PROVE  SerialInv'
  <2>1. caller[c] # Idle /\ ~Writing(c) /\ UNCHANGED <<file, returned>>
    BY <1>3 DEF Answered, Malformed, Raise, Fault, Idle, Writing
  <2>2. \E s : /\ caller' = [caller EXCEPT ![c] = s]
               /\ s = Idle \/ (s.key = caller[c].key /\ s.pc # "writing")
    <3>1. CASE Answered(c)
      BY <3>1 DEF Answered, Goto
    <3>2. CASE Malformed(c)
      <4>1. caller[c] \in Call
        BY <3>2 DEF Malformed, Idle, Write, SerialInv, CacheInv, TypeOK
      <4>2. PICK k \in Keys, n \in 0..MaxRetries : caller[c] = [pc |-> "calling", key |-> k, tries |-> n]
        BY <4>1 DEF Call
      <4>3. [caller[c] EXCEPT !.tries = @ + 1] = [pc |-> "calling", key |-> k, tries |-> n + 1]
        BY <4>2
      <4>4. \/ caller' = [caller EXCEPT ![c] = [pc |-> "calling", key |-> k, tries |-> n + 1]]
            \/ caller' = [caller EXCEPT ![c] = Idle]
        BY <3>2, <4>3 DEF Malformed, Goto
      <4>. QED
        BY <4>2, <4>4
    <3>3. CASE Raise(c)
      BY <3>3 DEF Raise, Goto
    <3>. QED
      BY <3>1, <3>2, <3>3, <1>3
  <2>. QED
    BY <1>1, <2>1, <2>2, SerialAsk DEF SerialInv
<1>4. ASSUME NEW c \in Callers, Open(c) \/ WriteBlock(c) \/ Return(c)
      PROVE  SerialInv'
  BY <1>1, <1>4, SerialWrite, SerialReturn DEF SerialInv
<1>5. CASE (\A c \in Callers : ~Writing(c)) /\ Crash
  BY <1>1, <1>5, SerialCrash DEF SerialInv
<1>6. CASE UNCHANGED vars
  BY <1>1, <1>6
     DEF vars, SerialInv, OneHolder, HeldKeys, FilesAreWhole, AnswersAreFiles, Busy, Writing
<1>. QED
  BY <1>2, <1>3, <1>4, <1>5, <1>6 DEF SerialNext, Proceed

\* With one caller per key every file nobody writes is one whole answer its key accepts.
THEOREM WholeFiles == SerialSpec => []FilesAreWhole
BY SerialInit, SerialStep, PTL DEF SerialSpec, SerialInv

\* With one caller per key everyone who asks a key gets the same answer: the same instance,
\* or the same text up to the line ends that read_text translates.
THEOREM SameAnswer == SerialSpec => []Repeatable
<1>1. SerialInv => Repeatable
  BY DEF SerialInv, HeldKeys, AnswersAreFiles, Repeatable, Reads, Busy
<1>. QED
  BY <1>1, SerialInit, SerialStep, PTL DEF SerialSpec
=============================================================================
