-------------------------- MODULE ExtractionProofs --------------------------
(***************************************************************************)
(* What is proved of the reading of a document, for every model, text,     *)
(* answer of a language model and decision of the linker.                  *)
(***************************************************************************)
EXTENDS Extraction, NaturalsInduction, FiniteSetTheorems, TLAPS

(***************************************************************************)
(* Keep: what a loop that skips elements appends.                          *)
(***************************************************************************)

\* A set of naturals with an element has a first one.
LEMMA FirstIsFirst ==
    ASSUME NEW S, S \subseteq Nat, S # {}
    PROVE  First(S) \in S /\ \A j \in S : First(S) <= j
<1>. DEFINE R == {p \in Nat \X Nat : p[1] < p[2]}
<1>1. IsWellFoundedOn(R, Nat)
  BY NatLessThanWellFounded DEF OpToRel
<1>2. \A i, j \in Nat : i < j => <<i, j>> \in R
  OBVIOUS
<1>. HIDE DEF R
<1>3. PICK i \in S : \A j \in S : ~(<<j, i>> \in R)
  BY <1>1, WFMin
<1>4. \A j \in S : i <= j
  <2>1. TAKE j \in S
  <2>2. i \in Nat /\ j \in Nat /\ ~(j < i)
    BY <1>2, <1>3
  <2>. QED
    BY <2>2
<1>. QED
  BY <1>4 DEF First

\* The n-th kept position: how many are not behind it.
Rank(kept, i) == Cardinality({j \in kept : j <= i})

\* Ranks count from 1 without a gap, and keep the order of the positions.
LEMMA RanksCount ==
    ASSUME NEW kept, kept \subseteq Nat, IsFiniteSet(kept)
    PROVE  /\ Cardinality(kept) \in Nat
           /\ \A i \in kept : Rank(kept, i) \in 1..Cardinality(kept)
           /\ \A i, j \in kept : i < j => Rank(kept, i) < Rank(kept, j)
           /\ \A n \in 1..Cardinality(kept) : \E i \in kept : Rank(kept, i) = n
<1>. DEFINE Upto(i) == {j \in kept : j <= i}
            N == Cardinality(kept)
<1>1. N \in Nat /\ \A i \in kept : IsFiniteSet(Upto(i)) /\ Cardinality(Upto(i)) \in Nat
  BY FS_Subset, FS_CardinalityType
<1>2. \A i \in kept : Cardinality(Upto(i)) <= N
  BY <1>1, FS_Subset
<1>3. \A i \in kept : Cardinality(Upto(i)) # 0
  <2>1. TAKE i \in kept
  <2>2. i \in Upto(i)
    OBVIOUS
  <2>. QED
    BY <1>1, <2>2, FS_EmptySet
<1>4. \A i, j \in kept : i < j => Cardinality(Upto(i)) < Cardinality(Upto(j))
  <2>1. TAKE i, j \in kept
  <2>2. HAVE i < j
  <2>3. Upto(i) \subseteq Upto(j) /\ j \in Upto(j) /\ j \notin Upto(i)
    <3>1. i \in Nat /\ j \in Nat
      OBVIOUS
    <3>2. \A k \in kept : k <= i => k <= j
      BY <2>2, <3>1
    <3>3. ~(j <= i) /\ j <= j
      BY <2>2, <3>1
    <3>. QED
      BY <3>2, <3>3
  <2>4. Upto(i) # Upto(j)
    BY <2>3
  <2>. QED
    BY <1>1, <2>3, <2>4, FS_Subset
<1>5. \A i \in kept : Rank(kept, i) = Cardinality(Upto(i))
  BY DEF Rank
<1>. HIDE DEF Upto
<1>6. \A i \in kept : Rank(kept, i) \in 1..N
  BY <1>1, <1>2, <1>3, <1>5
<1>7. \A i, j \in kept : i < j => Rank(kept, i) < Rank(kept, j)
  BY <1>4, <1>5
<1>8. \A n \in 1..N : \E i \in kept : Rank(kept, i) = n
  <2>. DEFINE f == [i \in kept |-> Rank(kept, i)]
  <2>1. f \in Injection(kept, 1..N)
    <3>1. \A i, j \in kept : Rank(kept, i) = Rank(kept, j) => i = j
      BY <1>1, <1>6, <1>7
    <3>. QED
      BY <1>6, <3>1 DEF Injection, IsInjective
  <2>2. IsFiniteSet(1..N) /\ Cardinality(1..N) = N
    BY <1>1, FS_Interval
  <2>3. f \in Surjection(kept, 1..N)
    BY <2>1, <2>2, FS_Injection
  <2>. QED
    BY <2>3 DEF Surjection
<1>. QED
  BY <1>1, <1>6, <1>7, <1>8

\* Keep gives the elements at the kept positions, all of them and no other, in their order.
LEMMA KeepsInOrder ==
    ASSUME NEW s, NEW kept, kept \subseteq Nat, IsFiniteSet(kept)
    PROVE  /\ Cardinality(kept) \in Nat /\ DOMAIN Keep(s, kept) = 1..Cardinality(kept)
           /\ \A n \in DOMAIN Keep(s, kept) : \E i \in kept : Keep(s, kept)[n] = s[i] /\ Rank(kept, i) = n
           /\ \A i \in kept : \E n \in DOMAIN Keep(s, kept) : Keep(s, kept)[n] = s[i]
<1>. DEFINE At(n) == CHOOSE i \in kept : Rank(kept, i) = n
            N == Cardinality(kept)
<1>1. N \in Nat
  BY RanksCount
<1>2. \A n \in 1..N : At(n) \in kept /\ Rank(kept, At(n)) = n
  BY RanksCount
<1>3. \A i \in kept : Rank(kept, i) \in 1..N
  BY RanksCount
<1>4. \A i, j \in kept : i < j => Rank(kept, i) < Rank(kept, j)
  BY RanksCount
<1>5. \A i, j \in kept : Rank(kept, i) = Rank(kept, j) => i = j
  <2>1. TAKE i, j \in kept
  <2>2. HAVE Rank(kept, i) = Rank(kept, j)
  <2>3. i \in Nat /\ j \in Nat /\ Rank(kept, i) \in Nat
    BY <1>1, <1>3
  <2>4. ~(i < j) /\ ~(j < i)
    BY <1>4, <2>2, <2>3
  <2>. QED
    BY <2>3, <2>4
<1>6. Keep(s, kept) = [n \in 1..N |-> s[At(n)]]
  BY DEF Keep, Rank
<1>. HIDE DEF At
<1>7. \A i \in kept : At(Rank(kept, i)) = i
  BY <1>2, <1>3, <1>5
<1>. QED
  BY <1>1, <1>2, <1>3, <1>6, <1>7

\* Of a sequence, Keep gives a sequence.
LEMMA KeepsSequence ==
    ASSUME NEW S, NEW s \in Seq(S), NEW kept \in SUBSET DOMAIN s
    PROVE  /\ Keep(s, kept) \in Seq(S)
           /\ \A n \in DOMAIN Keep(s, kept) : \E i \in kept : Keep(s, kept)[n] = s[i]
           /\ \A i \in kept : \E n \in DOMAIN Keep(s, kept) : Keep(s, kept)[n] = s[i]
<1>1. DOMAIN s = 1..Len(s) /\ Len(s) \in Nat
  OBVIOUS
<1>2. IsFiniteSet(1..Len(s))
  BY <1>1, FS_Interval
<1>3. kept \subseteq Nat /\ IsFiniteSet(kept)
  BY <1>1, <1>2, FS_Subset
<1>. DEFINE r == Keep(s, kept)
            N == Cardinality(kept)
<1>4. /\ N \in Nat /\ DOMAIN r = 1..N
      /\ \A n \in DOMAIN r : \E i \in kept : r[n] = s[i]
      /\ \A i \in kept : \E n \in DOMAIN r : r[n] = s[i]
  BY <1>3, KeepsInOrder
<1>5. r = [n \in 1..N |-> r[n]]
  BY DEF Keep
<1>. HIDE DEF r, N
<1>6. \A n \in 1..N : r[n] \in S
  BY <1>1, <1>4
<1>7. r \in Seq(S)
  BY <1>4, <1>5, <1>6
<1>. QED
  BY <1>4, <1>7 DEF r

(***************************************************************************)
(* What the stages return.                                                 *)
(***************************************************************************)

Mention == [text : Surfaces, type : Types, start : Nat]

DocEntity == [surface : Surfaces, type : Types, spans : SUBSET Nat]

EntityLink == [surface : Surfaces, type : Types, id : Ids, spans : SUBSET Nat]

\* Entities, or links, of these mentions: none is left out, and each is of the type of one
\* it covers.
Whole(entities, mentions) ==
    /\ \A i \in DOMAIN mentions : \E k \in DOMAIN entities : i \in entities[k].spans
    /\ \A k \in DOMAIN entities :
        \E i \in entities[k].spans : mentions[i].type = entities[k].type

\* The chain gives a model or none.
LEMMA LoadTyped ==
    ASSUME loaded \in Models \cup {NoModel}
    PROVE  Load \in Models \cup {NoModel}
<1>1. Keep(Fallbacks, {i \in DOMAIN Fallbacks : Fallbacks[i] # Configured}) \in Seq(Models)
  BY ExtractionAssumption, KeepsSequence
<1>2. Candidates \in Seq(Models)
  BY <1>1, ExtractionAssumption DEF Candidates
<1>. DEFINE found == {i \in DOMAIN Candidates : Candidates[i] \in installed}
<1>3. found # {} => First(found) \in found
  BY <1>2, FirstIsFirst
<1>4. \A i \in DOMAIN Candidates : Candidates[i] \in Models
  BY <1>2
<1>. QED
  BY <1>3, <1>4 DEF Load

\* NER returns mentions of curated types.
LEMMA MentionsTyped ==
    ASSUME NEW m \in Models, NEW t \in Texts
    PROVE  Mentions(m, t) \in Seq(Mention)
<1>. DEFINE read == Reads[m][t]
            at == {i \in DOMAIN read : read[i].label \in DOMAIN Curated}
            kept == Keep(read, at)
<1>1. read \in Seq(Read) /\ at \in SUBSET DOMAIN read
  BY ExtractionAssumption
<1>2. kept \in Seq(Read) /\ \A n \in DOMAIN kept : \E i \in at : kept[n] = read[i]
  <2>. HIDE DEF read, at
  <2>. QED
    BY <1>1, KeepsSequence
<1>. DEFINE made == [i \in DOMAIN kept |->
            [text |-> kept[i].surface, type |-> CuratedType(kept[i].label), start |-> kept[i].start]]
<1>3. Mentions(m, t) = made
  BY DEF Mentions
<1>. HIDE DEF kept
<1>4. DOMAIN kept = 1..Len(kept) /\ Len(kept) \in Nat
  BY <1>2
<1>5. \A i \in DOMAIN kept : kept[i] \in Read /\ kept[i].label \in DOMAIN Curated
  BY <1>2
<1>6. \A i \in DOMAIN kept : made[i] \in Mention
  BY <1>5, ExtractionAssumption DEF Read, Mention, CuratedType
<1>7. made \in Seq(Mention)
  BY <1>4, <1>6
<1>. QED
  BY <1>3, <1>7

\* Each element of `both` is one of a's or of b's, and each of theirs is in it.
Joins(both, a, b) ==
    /\ \A k \in DOMAIN both : \/ \E i \in DOMAIN a : both[k] = a[i]
                              \/ \E j \in DOMAIN b : both[k] = b[j]
    /\ \A i \in DOMAIN a : \E k \in DOMAIN both : both[k] = a[i]
    /\ \A j \in DOMAIN b : \E k \in DOMAIN both : both[k] = b[j]

\* Two sequences put together have the elements of both.
LEMMA Together ==
    ASSUME NEW S, NEW a \in Seq(S), NEW b \in Seq(S)
    PROVE  a \o b \in Seq(S) /\ Joins(a \o b, a, b)
<1>1. /\ Len(a) \in Nat /\ Len(b) \in Nat /\ DOMAIN a = 1..Len(a) /\ DOMAIN b = 1..Len(b)
      /\ DOMAIN (a \o b) = 1..Len(a) + Len(b) /\ a \o b \in Seq(S)
  OBVIOUS
<1>2. ASSUME NEW k \in DOMAIN (a \o b)
      PROVE  \/ \E i \in DOMAIN a : (a \o b)[k] = a[i]
             \/ \E j \in DOMAIN b : (a \o b)[k] = b[j]
  <2>1. CASE k <= Len(a)
    <3>1. k \in DOMAIN a /\ (a \o b)[k] = a[k]
      BY <1>1, <1>2, <2>1
    <3>. QED
      BY <3>1
  <2>2. CASE ~(k <= Len(a))
    <3>1. k - Len(a) \in DOMAIN b /\ (a \o b)[k] = b[k - Len(a)]
      BY <1>1, <1>2, <2>2
    <3>. QED
      BY <3>1
  <2>. QED
    BY <2>1, <2>2
<1>3. ASSUME NEW i \in DOMAIN a
      PROVE  i \in DOMAIN (a \o b) /\ (a \o b)[i] = a[i]
  BY <1>1
<1>4. ASSUME NEW j \in DOMAIN b
      PROVE  Len(a) + j \in DOMAIN (a \o b) /\ (a \o b)[Len(a) + j] = b[j]
  BY <1>1
<1>. QED
  BY <1>1, <1>2, <1>3, <1>4 DEF Joins

\* A cluster that matches a mention has the type of one it matches.
LEMMA ClusterTyped ==
    ASSUME NEW c, NEW mentions \in Seq(Mention), Matched(c, mentions) # {}
    PROVE  \E i \in Matched(c, mentions) : mentions[i].type = ClusterType(c, mentions)
<1>. DEFINE matched == Matched(c, mentions)
            exact == {i \in matched : mentions[i].text = c.canonical}
            pool == IF exact # {} THEN exact ELSE matched
<1>1. matched \subseteq Nat
  BY DEF Matched
<1>2. pool \subseteq Nat /\ pool # {} /\ pool \subseteq matched
  BY <1>1
<1>3. First(pool) \in pool
  <2>. HIDE DEF pool
  <2>. QED
    BY <1>2, FirstIsFirst
<1>. QED
  BY <1>2, <1>3 DEF ClusterType

\* Whatever the clusters are, every mention is part of an entity, and every entity is of the
\* type of one of its mentions.
LEMMA EntitiesWhole ==
    ASSUME NEW clusters \in CorefAnswers, NEW mentions \in Seq(Mention)
    PROVE  /\ DocLevelEntities(clusters, mentions) \in Seq(DocEntity)
           /\ Whole(DocLevelEntities(clusters, mentions), mentions)
<1>. DEFINE typable == {k \in DOMAIN clusters : Matched(clusters[k], mentions) # {}}
            uncovered == DOMAIN mentions \ Covered(clusters, mentions)
            all == [i \in DOMAIN mentions |-> i]
            typed == Typed(clusters, mentions)
            alone == Keep(all, uncovered)
<1>1. clusters \in Seq(Cluster)
  BY ExtractionAssumption
<1>2. /\ typed \in Seq(Cluster)
      /\ \A n \in DOMAIN typed : \E k \in typable : typed[n] = clusters[k]
      /\ \A k \in typable : \E n \in DOMAIN typed : typed[n] = clusters[k]
  <2>1. typed = Keep(clusters, typable) /\ typable \in SUBSET DOMAIN clusters
    BY DEF Typed
  <2>. HIDE DEF typable, typed
  <2>. QED
    BY <1>1, <2>1, KeepsSequence
<1>3. /\ DOMAIN mentions = 1..Len(mentions) /\ Len(mentions) \in Nat
      /\ DOMAIN mentions \subseteq Nat
      /\ \A i \in DOMAIN mentions : mentions[i] \in Mention
  OBVIOUS
<1>4. all \in Seq(DOMAIN mentions) /\ DOMAIN all = DOMAIN mentions
  BY <1>3
<1>5. /\ alone \in Seq(DOMAIN mentions)
      /\ \A n \in DOMAIN alone : alone[n] \in uncovered
      /\ \A i \in uncovered : \E n \in DOMAIN alone : alone[n] = i
  <2>1. uncovered \in SUBSET DOMAIN all
    BY <1>4
  <2>2. \A i \in uncovered : all[i] = i
    OBVIOUS
  <2>3. alone = Keep(all, uncovered)
    OBVIOUS
  <2>. HIDE DEF all, uncovered, alone
  <2>4. /\ alone \in Seq(DOMAIN mentions)
        /\ \A n \in DOMAIN alone : \E i \in uncovered : alone[n] = all[i]
        /\ \A i \in uncovered : \E n \in DOMAIN alone : alone[n] = all[i]
    BY <1>4, <2>1, <2>3, KeepsSequence
  <2>. QED
    BY <2>2, <2>4
<1>. DEFINE ofClusters == [k \in DOMAIN typed |->
                [surface |-> typed[k].canonical, type |-> ClusterType(typed[k], mentions),
                 spans |-> Matched(typed[k], mentions)]]
            ofMentions == [k \in DOMAIN alone |->
                [surface |-> mentions[alone[k]].text, type |-> mentions[alone[k]].type,
                 spans |-> {alone[k]}]]
<1>6. DocLevelEntities(clusters, mentions) = ofClusters \o ofMentions
  BY DEF DocLevelEntities
<1>7. ASSUME NEW k \in DOMAIN typed
      PROVE  /\ ofClusters[k] \in DocEntity
             /\ \E i \in ofClusters[k].spans : mentions[i].type = ofClusters[k].type
  <2>. DEFINE c == typed[k]
  <2>1. c \in Cluster /\ Matched(c, mentions) # {}
    BY <1>1, <1>2
  <2>2. PICK i \in Matched(c, mentions) : mentions[i].type = ClusterType(c, mentions)
    BY <2>1, ClusterTyped
  <2>3. Matched(c, mentions) \subseteq DOMAIN mentions
    BY DEF Matched
  <2>4. ClusterType(c, mentions) \in Types /\ Matched(c, mentions) \in SUBSET Nat
    BY <1>3, <2>2, <2>3 DEF Mention
  <2>5. ofClusters[k] = [surface |-> c.canonical, type |-> ClusterType(c, mentions),
                         spans |-> Matched(c, mentions)]
    OBVIOUS
  <2>. HIDE DEF c, ofClusters
  <2>. QED
    BY <2>1, <2>2, <2>4, <2>5 DEF Cluster, DocEntity
<1>8. ASSUME NEW k \in DOMAIN alone
      PROVE  /\ ofMentions[k] \in DocEntity
             /\ \E i \in ofMentions[k].spans : mentions[i].type = ofMentions[k].type
  <2>1. alone[k] \in DOMAIN mentions /\ mentions[alone[k]] \in Mention /\ alone[k] \in Nat
    BY <1>3, <1>5
  <2>2. ofMentions[k] = [surface |-> mentions[alone[k]].text, type |-> mentions[alone[k]].type,
                         spans |-> {alone[k]}]
    OBVIOUS
  <2>. HIDE DEF alone, ofMentions
  <2>. QED
    BY <2>1, <2>2 DEF Mention, DocEntity
<1>9. ASSUME NEW i \in DOMAIN mentions
      PROVE  \/ \E k \in DOMAIN typed : i \in ofClusters[k].spans
             \/ \E k \in DOMAIN alone : i \in ofMentions[k].spans
  <2>1. CASE i \in uncovered
    <3>1. PICK k \in DOMAIN alone : alone[k] = i
      BY <1>5, <2>1
    <3>. HIDE DEF alone
    <3>. QED
      BY <3>1
  <2>2. CASE i \notin uncovered
    <3>1. PICK j \in DOMAIN clusters : i \in Matched(clusters[j], mentions)
      BY <2>2 DEF Covered, Range
    <3>2. PICK k \in DOMAIN typed : typed[k] = clusters[j]
      BY <1>2, <3>1
    <3>. HIDE DEF typed
    <3>. QED
      BY <3>1, <3>2
  <2>. QED
    BY <2>1, <2>2
<1>10. /\ ofClusters \in Seq(DocEntity) /\ DOMAIN ofClusters = DOMAIN typed
       /\ ofMentions \in Seq(DocEntity) /\ DOMAIN ofMentions = DOMAIN alone
  <2>1. /\ DOMAIN typed = 1..Len(typed) /\ Len(typed) \in Nat
        /\ DOMAIN alone = 1..Len(alone) /\ Len(alone) \in Nat
    BY <1>2, <1>5
  <2>. HIDE DEF typed, alone
  <2>2. DOMAIN ofClusters = DOMAIN typed /\ DOMAIN ofMentions = DOMAIN alone
    OBVIOUS
  <2>3. ofClusters = [k \in 1..Len(typed) |-> ofClusters[k]]
    BY <2>1
  <2>4. ofMentions = [k \in 1..Len(alone) |-> ofMentions[k]]
    BY <2>1
  <2>. HIDE DEF ofClusters, ofMentions
  <2>. QED
    BY <1>7, <1>8, <2>1, <2>2, <2>3, <2>4
<1>. HIDE DEF ofClusters, ofMentions, typed, alone
<1>. DEFINE both == ofClusters \o ofMentions
<1>11. /\ both \in Seq(DocEntity)
       /\ \A k \in DOMAIN both : \/ \E i \in DOMAIN typed : both[k] = ofClusters[i]
                                 \/ \E j \in DOMAIN alone : both[k] = ofMentions[j]
       /\ \A i \in DOMAIN typed : \E k \in DOMAIN both : both[k] = ofClusters[i]
       /\ \A j \in DOMAIN alone : \E k \in DOMAIN both : both[k] = ofMentions[j]
  <2>1. ofClusters \in Seq(DocEntity) /\ ofMentions \in Seq(DocEntity)
    BY <1>10
  <2>2. both \in Seq(DocEntity) /\ Joins(both, ofClusters, ofMentions)
    BY <2>1, Together
  <2>. HIDE DEF both
  <2>. QED
    BY <1>10, <2>2 DEF Joins
<1>. HIDE DEF both
<1>12. \A k \in DOMAIN both : \E i \in both[k].spans : mentions[i].type = both[k].type
  BY <1>7, <1>8, <1>11
<1>13. \A i \in DOMAIN mentions : \E k \in DOMAIN both : i \in both[k].spans
  BY <1>9, <1>11
<1>. QED
  BY <1>6, <1>11, <1>12, <1>13 DEF Whole, both

\* Linking keeps an entity's mentions and its type, and gives it an id of that type.
LEMMA LinksWhole ==
    ASSUME NEW entities \in Seq(DocEntity), NEW mentions, Whole(entities, mentions),
           NEW resolver \in Resolvers
    PROVE  LET links == [k \in DOMAIN entities |-> Link(entities[k], resolver)]
           IN  /\ links \in Seq(EntityLink) /\ Whole(links, mentions)
               /\ \A k \in DOMAIN links : links[k].id.type = links[k].type
<1>. DEFINE links == [k \in DOMAIN entities |-> Link(entities[k], resolver)]
<1>1. /\ DOMAIN entities = 1..Len(entities) /\ Len(entities) \in Nat
      /\ \A k \in DOMAIN entities : entities[k] \in DocEntity
  OBVIOUS
<1>2. ASSUME NEW e \in DocEntity
      PROVE  /\ Link(e, resolver) \in EntityLink
             /\ Link(e, resolver).spans = e.spans /\ Link(e, resolver).type = e.type
             /\ Link(e, resolver).id.type = e.type
  <2>1. /\ resolver \in [Types -> [Surfaces -> Ids]]
        /\ \A t \in Types, s \in Surfaces : resolver[t][s].type = t
    BY ExtractionAssumption
  <2>. QED
    BY <2>1 DEF Link, DocEntity, EntityLink
<1>3. \A k \in DOMAIN entities :
        /\ links[k] \in EntityLink
        /\ links[k].spans = entities[k].spans /\ links[k].type = entities[k].type
        /\ links[k].id.type = links[k].type
  BY <1>1, <1>2
<1>4. links = [k \in 1..Len(entities) |-> links[k]] /\ DOMAIN links = DOMAIN entities
  BY <1>1
<1>. HIDE DEF links
<1>5. links \in Seq(EntityLink)
  BY <1>1, <1>3, <1>4
<1>6. Whole(links, mentions)
  <2>1. \A i \in DOMAIN mentions : \E k \in DOMAIN links : i \in links[k].spans
    BY <1>3, <1>4 DEF Whole
  <2>2. \A k \in DOMAIN links : \E i \in links[k].spans : mentions[i].type = links[k].type
    <3>1. TAKE k \in DOMAIN links
    <3>2. \E i \in entities[k].spans : mentions[i].type = entities[k].type
      BY <1>4 DEF Whole
    <3>. QED
      BY <1>3, <1>4, <3>2
  <2>. QED
    BY <2>1, <2>2 DEF Whole
<1>. QED
  BY <1>3, <1>4, <1>5, <1>6 DEF links

\* the ids a record's links make known to the graph
Known(links) == {links[k].id : k \in NotDates(links)}

\* Every known id becomes a node of its own type, and none is a date.
LEMMA NodesTyped ==
    ASSUME NEW links \in Seq(EntityLink), \A k \in DOMAIN links : links[k].id.type = links[k].type
    PROVE  /\ DOMAIN CanonicalEntities(links) = Known(links) /\ Known(links) \subseteq Ids
           /\ \A i \in Known(links) : /\ CanonicalEntities(links)[i] \in Node
                                      /\ CanonicalEntities(links)[i].type = i.type
                                      /\ CanonicalEntities(links)[i].type # Date
<1>1. DOMAIN links \subseteq Nat /\ \A k \in DOMAIN links : links[k] \in EntityLink
  OBVIOUS
<1>2. Known(links) \subseteq Ids
  BY <1>1 DEF Known, NotDates, EntityLink
<1>3. ASSUME NEW i \in Known(links)
      PROVE  /\ CanonicalEntities(links)[i] \in Node
             /\ CanonicalEntities(links)[i].type = i.type
             /\ CanonicalEntities(links)[i].type # Date
  <2>. DEFINE named == {n \in NotDates(links) : links[n].id = i}
              k == First(named)
  <2>1. named \subseteq Nat /\ named # {}
    BY <1>1 DEF Known, NotDates
  <2>2. k \in named
    <3>. HIDE DEF named
    <3>. QED
      BY <2>1, FirstIsFirst
  <2>3. k \in DOMAIN links /\ links[k].type # Date /\ links[k].id = i
    BY <2>2 DEF NotDates
  <2>4. CanonicalEntities(links)[i] = [name |-> links[k].surface, type |-> links[k].type]
    BY DEF CanonicalEntities, Known
  <2>. HIDE DEF k
  <2>. QED
    BY <1>1, <2>3, <2>4 DEF EntityLink, Node
<1>. QED
  BY <1>2, <1>3 DEF CanonicalEntities, Known

\* Every triple that is kept joins known ids and cites the span of its sentence.
LEMMA TriplesGrounded ==
    ASSUME NEW answer, NEW known, NEW sentences, NEW t \in Triples(answer, known, sentences)
    PROVE  {t.subject, t.object} \subseteq known /\ sentences[t.sentence] = t.span
BY DEF Triples, Triple, IsGrounded

(***************************************************************************)
(* The inductive invariant: what a run knows at each of its stages.        *)
(***************************************************************************)

Segmented == {Segments[t] : t \in Texts}

\* a record the run can go on from: whole, and no id of another type
Sound(r) ==
    /\ r.links \in Seq(EntityLink)
    /\ r.vectors = Len(r.sentences)
    /\ Whole(r.links, r.mentions)
    /\ \A k \in DOMAIN r.links : r.links[k].id.type = r.links[k].type

StateTyped ==
    /\ loaded \in Models \cup {NoModel}
    /\ runs \in Nat
    /\ DOMAIN records = Docs
    /\ nodes \in [Ids -> Node \cup {NoNode}]

\* what a job carries from stage to stage
JobOnCourse ==
    \/ job = Idle
    \/ job \in [pc : {"ner"}, doc : Docs, text : Texts]
    \/ job \in [pc : {"coref"}, doc : Docs, mentions : Seq(Mention), sentences : Segmented]
    \/ /\ job \in [pc : {"link"}, doc : Docs, mentions : Seq(Mention), sentences : Segmented,
                   entities : Seq(DocEntity)]
       /\ Whole(job.entities, job.mentions)
    \/ /\ job.pc = "kg" /\ job.doc \in Docs
       /\ job = [pc |-> "kg", doc |-> job.doc, sentences |-> job.sentences,
                 canonical |-> job.canonical]
    \/ /\ job.pc \in {"nodes", "clear", "edges"} /\ job.doc \in Docs
       /\ job = [pc |-> job.pc, doc |-> job.doc, canonical |-> job.canonical,
                 triples |-> job.triples]

RecordsAreSound == \A d \in Docs : Enriched(d) => Sound(records[d])

\* from the record's checkpoint on, the job and the record are of one reading
JobIsOfRecord ==
    job.pc \in {"kg", "nodes", "clear", "edges"} =>
        LET r == records[job.doc]
        IN  /\ Sound(r) /\ r.run = runs
            /\ job.canonical = CanonicalEntities(r.links)
            /\ job.pc = "kg" => job.sentences = r.sentences
            /\ job.pc # "kg" => \A t \in job.triples :
                  {t.subject, t.object} \subseteq Known(r.links) /\ r.sentences[t.sentence] = t.span
            /\ job.pc \in {"clear", "edges"} => \A i \in Known(r.links) : nodes[i] # NoNode
            /\ job.pc = "edges" => \A e \in edges : e.doc # job.doc

\* no edge is of the run under way, until it has written its own
EdgesAreOfRuns ==
    \A e \in edges :
        /\ e.doc \in Docs /\ e.run \in Nat /\ e.run <= runs
        /\ job # Idle => e.run < runs
        /\ {e.triple.subject, e.triple.object} \subseteq Ids

FaithfulInv ==
    /\ StateTyped
    /\ JobOnCourse
    /\ RecordsAreSound
    /\ JobIsOfRecord
    /\ NodesAreNeverDates
    /\ EdgesAreOfRuns
    /\ OneReading
    /\ EdgesAreGrounded

LEMMA FaithfulInit == Init => FaithfulInv
<1>. SUFFICES ASSUME Init PROVE FaithfulInv
  OBVIOUS
<1>. USE DEF Init
<1>1. StateTyped
  BY DEF StateTyped
<1>2. JobOnCourse /\ JobIsOfRecord
  BY DEF JobOnCourse, JobIsOfRecord, Idle
<1>3. RecordsAreSound
  BY DEF RecordsAreSound, Enriched
<1>4. NodesAreNeverDates /\ EdgesAreOfRuns /\ OneReading /\ EdgesAreGrounded
  BY DEF NodesAreNeverDates, EdgesAreOfRuns, OneReading, EdgesAreGrounded
<1>. QED
  BY <1>1, <1>2, <1>3, <1>4 DEF FaithfulInv

\* What is said of the stores alone stays true while none of them is written.
LEMMA StoresStay ==
    ASSUME FaithfulInv, UNCHANGED <<records, nodes, edges, runs>>,
           (loaded \in Models \cup {NoModel})', job' # Idle => job # Idle
    PROVE  /\ StateTyped' /\ RecordsAreSound' /\ NodesAreNeverDates' /\ EdgesAreOfRuns'
           /\ OneReading' /\ EdgesAreGrounded'
<1>1. StateTyped'
  BY DEF FaithfulInv, StateTyped
<1>2. RecordsAreSound'
  BY DEF FaithfulInv, RecordsAreSound, Enriched
<1>3. NodesAreNeverDates' /\ OneReading'
  BY DEF FaithfulInv, NodesAreNeverDates, OneReading
<1>4. EdgesAreOfRuns'
  BY DEF FaithfulInv, EdgesAreOfRuns
<1>5. EdgesAreGrounded'
  BY DEF FaithfulInv, EdgesAreGrounded, Enriched
<1>. QED
  BY <1>1, <1>2, <1>3, <1>4, <1>5

LEMMA FaithfulInstall ==
    ASSUME FaithfulInv, NEW models, Install(models)
    PROVE  FaithfulInv'
<1>1. job = Idle /\ UNCHANGED <<loaded, job, records, nodes, edges, runs>>
  BY DEF Install
<1>2. JobOnCourse' /\ JobIsOfRecord'
  BY <1>1 DEF JobOnCourse, JobIsOfRecord, Idle
<1>3. (loaded \in Models \cup {NoModel})'
  BY <1>1 DEF FaithfulInv, StateTyped
<1>. QED
  BY <1>1, <1>2, <1>3, StoresStay DEF FaithfulInv

LEMMA FaithfulDrop ==
    ASSUME FaithfulInv, Drop
    PROVE  FaithfulInv'
<1>1. job' = Idle /\ UNCHANGED <<loaded, records, nodes, edges, runs>>
  BY DEF Drop
<1>2. JobOnCourse' /\ JobIsOfRecord'
  BY <1>1 DEF JobOnCourse, JobIsOfRecord, Idle
<1>3. (loaded \in Models \cup {NoModel})'
  BY <1>1 DEF FaithfulInv, StateTyped
<1>. QED
  BY <1>1, <1>2, <1>3, StoresStay DEF FaithfulInv

\* A document that is received has no record but the raw one, and starts a run of its own.
LEMMA FaithfulReceive ==
    ASSUME FaithfulInv, NEW d \in Docs, NEW text \in Texts, Receive(d, text)
    PROVE  FaithfulInv'
<1>1. /\ job = Idle /\ runs' = runs + 1 /\ job' = [pc |-> "ner", doc |-> d, text |-> text]
      /\ records' = [records EXCEPT ![d] = Raw] /\ UNCHANGED <<loaded, nodes, edges>>
  BY DEF Receive
<1>2. StateTyped'
  BY <1>1 DEF FaithfulInv, StateTyped
<1>3. JobOnCourse' /\ JobIsOfRecord'
  BY <1>1 DEF JobOnCourse, JobIsOfRecord
<1>4. \A c \in Docs : Enriched(c)' => Enriched(c) /\ records'[c] = records[c]
  BY <1>1 DEF Enriched, FaithfulInv, StateTyped
<1>5. RecordsAreSound'
  BY <1>4 DEF FaithfulInv, RecordsAreSound
<1>6. NodesAreNeverDates' /\ OneReading'
  BY <1>1 DEF FaithfulInv, NodesAreNeverDates, OneReading
<1>7. EdgesAreOfRuns'
  BY <1>1 DEF FaithfulInv, EdgesAreOfRuns, StateTyped
<1>8. EdgesAreGrounded'
  <2>1. \A e \in edges : Enriched(e.doc)' => Enriched(e.doc) /\ records'[e.doc] = records[e.doc]
    BY <1>1 DEF Enriched, FaithfulInv, StateTyped, EdgesAreOfRuns
  <2>. QED
    BY <1>1, <2>1 DEF FaithfulInv, EdgesAreGrounded
<1>. QED
  BY <1>2, <1>3, <1>5, <1>6, <1>7, <1>8 DEF FaithfulInv

LEMMA FaithfulAnalyze ==
    ASSUME FaithfulInv, Analyze
    PROVE  FaithfulInv'
<1>1. /\ job.pc = "ner" /\ loaded' = Load /\ UNCHANGED <<records, nodes, edges, runs>>
      /\ job' = IF Load = NoModel THEN Idle
                ELSE [pc |-> "coref", doc |-> job.doc,
                      mentions |-> Mentions(Load, job.text), sentences |-> Segments[job.text]]
  BY DEF Analyze
<1>2. Load \in Models \cup {NoModel}
  BY LoadTyped DEF FaithfulInv, StateTyped
<1>3. job # Idle /\ job.doc \in Docs /\ job.text \in Texts
  BY <1>1 DEF FaithfulInv, JobOnCourse, Idle
<1>4. JobOnCourse' /\ JobIsOfRecord'
  <2>1. CASE Load = NoModel
    BY <1>1, <2>1 DEF JobOnCourse, JobIsOfRecord, Idle
  <2>2. CASE Load # NoModel
    <3>1. Mentions(Load, job.text) \in Seq(Mention) /\ Segments[job.text] \in Segmented
      BY <1>2, <1>3, <2>2, MentionsTyped DEF Segmented
    <3>2. job' \in [pc : {"coref"}, doc : Docs, mentions : Seq(Mention), sentences : Segmented]
      BY <1>1, <1>3, <2>2, <3>1
    <3>. QED
      BY <3>2 DEF JobOnCourse, JobIsOfRecord
  <2>. QED
    BY <2>1, <2>2
<1>. QED
  BY <1>1, <1>2, <1>3, <1>4, StoresStay DEF FaithfulInv

LEMMA FaithfulResolve ==
    ASSUME FaithfulInv, NEW clusters \in CorefAnswers, Resolve(clusters)
    PROVE  FaithfulInv'
<1>1. /\ job.pc = "coref" /\ UNCHANGED <<loaded, records, nodes, edges, runs>>
      /\ job' = IF wired = "none" THEN Idle
                ELSE [pc |-> "link", doc |-> job.doc, mentions |-> job.mentions,
                      sentences |-> job.sentences,
                      entities |-> DocLevelEntities(clusters, job.mentions)]
  BY DEF Resolve
<1>2. /\ job # Idle /\ job.doc \in Docs /\ job.mentions \in Seq(Mention)
      /\ job.sentences \in Segmented
  BY <1>1 DEF FaithfulInv, JobOnCourse, Idle
<1>3. JobOnCourse' /\ JobIsOfRecord'
  <2>1. CASE wired = "none"
    BY <1>1, <2>1 DEF JobOnCourse, JobIsOfRecord, Idle
  <2>2. CASE wired # "none"
    <3>1. /\ DocLevelEntities(clusters, job.mentions) \in Seq(DocEntity)
          /\ Whole(DocLevelEntities(clusters, job.mentions), job.mentions)
      BY <1>2, EntitiesWhole
    <3>2. /\ job' \in [pc : {"link"}, doc : Docs, mentions : Seq(Mention), sentences : Segmented,
                       entities : Seq(DocEntity)]
          /\ job'.pc = "link"
          /\ Whole(job'.entities, job'.mentions)
      BY <1>1, <1>2, <2>2, <3>1
    <3>. QED
      BY <3>2 DEF JobOnCourse, JobIsOfRecord
  <2>. QED
    BY <2>1, <2>2
<1>4. (loaded \in Models \cup {NoModel})'
  BY <1>1 DEF FaithfulInv, StateTyped
<1>. QED
  BY <1>1, <1>2, <1>3, <1>4, StoresStay DEF FaithfulInv

\* The record's checkpoint replaces what an earlier run left, and no edge is of this run yet.
LEMMA FaithfulLinkAll ==
    ASSUME FaithfulInv, NEW resolver \in Resolvers, LinkAll(resolver)
    PROVE  FaithfulInv'
<1>. DEFINE links == [k \in DOMAIN job.entities |-> Link(job.entities[k], resolver)]
            r == [mentions |-> job.mentions, sentences |-> job.sentences, links |-> links,
                  vectors |-> Embedded(job.mentions, job.sentences), run |-> runs]
<1>1. /\ job.pc = "link" /\ UNCHANGED <<loaded, nodes, edges, runs>>
      /\ records' = [records EXCEPT ![job.doc] = r]
      /\ job' = IF wired = "graph"
                THEN [pc |-> "kg", doc |-> job.doc, sentences |-> job.sentences,
                      canonical |-> CanonicalEntities(links)]
                ELSE Idle
  BY DEF LinkAll
<1>2. /\ job # Idle /\ job.doc \in Docs /\ job.entities \in Seq(DocEntity)
      /\ Whole(job.entities, job.mentions)
  BY <1>1 DEF FaithfulInv, JobOnCourse, Idle
<1>3. /\ links \in Seq(EntityLink) /\ Whole(links, job.mentions)
      /\ \A k \in DOMAIN links : links[k].id.type = links[k].type
  <2>. HIDE DEF links
  <2>1. LET ls == [k \in DOMAIN job.entities |-> Link(job.entities[k], resolver)]
        IN  /\ ls \in Seq(EntityLink) /\ Whole(ls, job.mentions)
            /\ \A k \in DOMAIN ls : ls[k].id.type = ls[k].type
    BY <1>2, LinksWhole
  <2>. QED
    BY <2>1 DEF links
<1>4. Sound(r) /\ r.run = runs /\ r.links = links /\ r.sentences = job.sentences
  <2>. HIDE DEF links
  <2>. QED
    BY <1>3 DEF Sound, Embedded
<1>. HIDE DEF r, links
<1>5. DOMAIN records = Docs /\ runs \in Nat
  BY DEF FaithfulInv, StateTyped
<1>6. DOMAIN records' = Docs /\ records'[job.doc] = r
      /\ \A d \in Docs \ {job.doc} : records'[d] = records[d]
  BY <1>1, <1>2, <1>5
<1>7. StateTyped'
  BY <1>1, <1>6 DEF FaithfulInv, StateTyped
<1>8. JobOnCourse' /\ JobIsOfRecord'
  <2>1. CASE wired = "graph"
    <3>1. job' = [pc |-> "kg", doc |-> job.doc, sentences |-> job.sentences,
                  canonical |-> CanonicalEntities(links)]
      BY <1>1, <2>1
    <3>2. JobOnCourse'
      BY <1>2, <3>1 DEF JobOnCourse
    <3>3. JobIsOfRecord'
      BY <1>1, <1>4, <1>6, <3>1 DEF JobIsOfRecord
    <3>. QED
      BY <3>2, <3>3
  <2>2. CASE wired # "graph"
    BY <1>1, <2>2 DEF JobOnCourse, JobIsOfRecord, Idle
  <2>. QED
    BY <2>1, <2>2
<1>9. RecordsAreSound'
  BY <1>4, <1>6 DEF FaithfulInv, RecordsAreSound, Enriched
<1>10. NodesAreNeverDates' /\ OneReading'
  BY <1>1 DEF FaithfulInv, NodesAreNeverDates, OneReading
<1>11. EdgesAreOfRuns'
  BY <1>1, <1>2 DEF FaithfulInv, EdgesAreOfRuns
<1>12. EdgesAreGrounded'
  <2>1. \A e \in edges : e.doc \in Docs /\ e.run \in Nat /\ e.run # runs
    BY <1>2, <1>5 DEF FaithfulInv, EdgesAreOfRuns
  <2>2. \A e \in edges : Enriched(e.doc)' /\ records'[e.doc].run = e.run
                            => Enriched(e.doc) /\ records'[e.doc] = records[e.doc]
    BY <1>4, <1>6, <2>1 DEF Enriched
  <2>. QED
    BY <1>1, <2>2 DEF FaithfulInv, EdgesAreGrounded
<1>. QED
  BY <1>7, <1>8, <1>9, <1>10, <1>11, <1>12 DEF FaithfulInv

LEMMA FaithfulBuild ==
    ASSUME FaithfulInv, NEW answer, Build(answer)
    PROVE  FaithfulInv'
<1>. DEFINE kept == Triples(answer, DOMAIN job.canonical, job.sentences)
            r == records[job.doc]
<1>1. /\ job.pc = "kg" /\ UNCHANGED <<loaded, records, nodes, edges, runs>>
      /\ job' = [pc |-> "nodes", doc |-> job.doc, canonical |-> job.canonical, triples |-> kept]
  BY DEF Build
<1>2. job # Idle /\ job.doc \in Docs
  BY <1>1 DEF FaithfulInv, JobOnCourse, Idle
<1>3. /\ Sound(r) /\ r.run = runs /\ job.canonical = CanonicalEntities(r.links)
      /\ job.sentences = r.sentences
  BY <1>1 DEF FaithfulInv, JobIsOfRecord
<1>4. DOMAIN job.canonical = Known(r.links)
  <2>. HIDE DEF r
  <2>. QED
    BY <1>3, NodesTyped DEF Sound
<1>5. \A t \in kept : {t.subject, t.object} \subseteq Known(r.links)
                      /\ r.sentences[t.sentence] = t.span
  BY <1>3, <1>4, TriplesGrounded
<1>. HIDE DEF kept, r
<1>6. JobOnCourse'
  BY <1>1, <1>2 DEF JobOnCourse
<1>7. JobIsOfRecord'
  <2>1. records'[job'.doc] = r /\ runs' = runs
    BY <1>1 DEF r
  <2>. QED
    BY <1>1, <1>3, <1>5, <2>1 DEF JobIsOfRecord
<1>8. (loaded \in Models \cup {NoModel})'
  BY <1>1 DEF FaithfulInv, StateTyped
<1>. QED
  BY <1>1, <1>2, <1>6, <1>7, <1>8, StoresStay DEF FaithfulInv

\* What the building stages know of the job's record.
LEMMA Building ==
    ASSUME FaithfulInv, job.pc \in {"nodes", "clear", "edges"}
    PROVE  LET known == Known(records[job.doc].links)
           IN  /\ job # Idle /\ job.doc \in Docs
               /\ job = [pc |-> job.pc, doc |-> job.doc, canonical |-> job.canonical,
                         triples |-> job.triples]
               /\ Sound(records[job.doc]) /\ records[job.doc].run = runs
               /\ known \subseteq Ids
               /\ DOMAIN job.canonical = known
               /\ \A i \in known : /\ job.canonical[i] \in Node /\ job.canonical[i].type = i.type
                                   /\ job.canonical[i].type # Date
               /\ \A t \in job.triples : /\ {t.subject, t.object} \subseteq known
                                         /\ records[job.doc].sentences[t.sentence] = t.span
<1>. DEFINE r == records[job.doc]
<1>1. /\ job # Idle /\ job.doc \in Docs
      /\ job = [pc |-> job.pc, doc |-> job.doc, canonical |-> job.canonical,
                triples |-> job.triples]
  BY DEF FaithfulInv, JobOnCourse, Idle
<1>2. /\ Sound(r) /\ r.run = runs /\ job.canonical = CanonicalEntities(r.links)
      /\ \A t \in job.triples : {t.subject, t.object} \subseteq Known(r.links)
                                /\ r.sentences[t.sentence] = t.span
  BY DEF FaithfulInv, JobIsOfRecord
<1>3. r.links \in Seq(EntityLink) /\ \A k \in DOMAIN r.links : r.links[k].id.type = r.links[k].type
  BY <1>2 DEF Sound
<1>4. /\ DOMAIN CanonicalEntities(r.links) = Known(r.links) /\ Known(r.links) \subseteq Ids
      /\ \A i \in Known(r.links) : /\ CanonicalEntities(r.links)[i] \in Node
                                   /\ CanonicalEntities(r.links)[i].type = i.type
                                   /\ CanonicalEntities(r.links)[i].type # Date
  <2>. HIDE DEF r
  <2>. QED
    BY <1>3, NodesTyped
<1>. QED
  BY <1>1, <1>2, <1>4

LEMMA FaithfulUpsertNodes ==
    ASSUME FaithfulInv, UpsertNodes
    PROVE  FaithfulInv'
<1>. DEFINE known == Known(records[job.doc].links)
<1>1. /\ job.pc = "nodes" /\ job' = [job EXCEPT !.pc = "clear"]
      /\ nodes' = [i \in Ids |-> IF i \in DOMAIN job.canonical THEN job.canonical[i] ELSE nodes[i]]
      /\ UNCHANGED <<loaded, records, edges, runs>>
  BY DEF UpsertNodes
<1>2. /\ job # Idle /\ job.doc \in Docs
      /\ job = [pc |-> job.pc, doc |-> job.doc, canonical |-> job.canonical,
                triples |-> job.triples]
      /\ Sound(records[job.doc]) /\ records[job.doc].run = runs
      /\ known \subseteq Ids /\ DOMAIN job.canonical = known
      /\ \A i \in known : /\ job.canonical[i] \in Node /\ job.canonical[i].type = i.type
                          /\ job.canonical[i].type # Date
      /\ \A t \in job.triples : /\ {t.subject, t.object} \subseteq known
                                /\ records[job.doc].sentences[t.sentence] = t.span
  BY <1>1, Building
<1>3. job' = [pc |-> "clear", doc |-> job.doc, canonical |-> job.canonical,
              triples |-> job.triples]
  BY <1>1, <1>2
<1>4. /\ nodes \in [Ids -> Node \cup {NoNode}] /\ NoNode \notin Node
      /\ \A i \in Ids : nodes[i] # NoNode => nodes[i].type # Date /\ nodes[i].type = i.type
  BY ExtractionAssumption DEF FaithfulInv, StateTyped, NodesAreNeverDates
<1>. HIDE DEF known
<1>5. \A i \in Ids : /\ i \in known => nodes'[i] = job.canonical[i] /\ nodes'[i] # NoNode
                     /\ i \notin known => nodes'[i] = nodes[i]
  BY <1>1, <1>2, <1>4
<1>6. nodes' \in [Ids -> Node \cup {NoNode}]
  <2>1. \A i \in Ids : nodes'[i] \in Node \cup {NoNode}
    BY <1>2, <1>4, <1>5
  <2>. QED
    BY <1>1, <2>1
<1>7. StateTyped'
  BY <1>1, <1>6 DEF FaithfulInv, StateTyped
<1>8. JobOnCourse'
  BY <1>2, <1>3 DEF JobOnCourse
<1>9. JobIsOfRecord'
  <2>1. \A i \in known : nodes'[i] # NoNode
    BY <1>2, <1>5
  <2>2. /\ records'[job'.doc] = records[job.doc] /\ job'.pc = "clear" /\ runs' = runs
        /\ job'.canonical = job.canonical /\ job'.triples = job.triples
    BY <1>1, <1>3
  <2>3. job.canonical = CanonicalEntities(records[job.doc].links)
    BY <1>1 DEF FaithfulInv, JobIsOfRecord
  <2>. QED
    BY <1>2, <2>1, <2>2, <2>3 DEF JobIsOfRecord, known
<1>10. RecordsAreSound'
  BY <1>1 DEF FaithfulInv, RecordsAreSound, Enriched
<1>11. NodesAreNeverDates'
  BY <1>2, <1>4, <1>5 DEF NodesAreNeverDates
<1>12. EdgesAreOfRuns' /\ OneReading'
  BY <1>1, <1>2 DEF FaithfulInv, EdgesAreOfRuns, OneReading
<1>13. EdgesAreGrounded'
  <2>1. \A e \in edges : {e.triple.subject, e.triple.object} \subseteq Ids
    BY DEF FaithfulInv, EdgesAreOfRuns
  <2>2. \A i \in Ids : nodes[i] # NoNode => nodes'[i] # NoNode
    BY <1>5
  <2>. QED
    BY <1>1, <2>1, <2>2 DEF FaithfulInv, EdgesAreGrounded, Enriched
<1>. QED
  BY <1>7, <1>8, <1>9, <1>10, <1>11, <1>12, <1>13 DEF FaithfulInv

LEMMA FaithfulDeleteDocumentEdges ==
    ASSUME FaithfulInv, DeleteDocumentEdges
    PROVE  FaithfulInv'
<1>1. /\ job.pc = "clear" /\ job' = [job EXCEPT !.pc = "edges"]
      /\ edges' = {e \in edges : e.doc # job.doc}
      /\ UNCHANGED <<loaded, records, nodes, runs>>
  BY DEF DeleteDocumentEdges
<1>2. /\ job # Idle /\ job.doc \in Docs
      /\ job = [pc |-> job.pc, doc |-> job.doc, canonical |-> job.canonical,
                triples |-> job.triples]
  BY <1>1, Building
<1>3. job' = [pc |-> "edges", doc |-> job.doc, canonical |-> job.canonical,
              triples |-> job.triples]
  BY <1>1, <1>2
<1>4. edges' \subseteq edges
  BY <1>1
<1>5. StateTyped' /\ RecordsAreSound' /\ NodesAreNeverDates'
  BY <1>1 DEF FaithfulInv, StateTyped, RecordsAreSound, NodesAreNeverDates, Enriched
<1>6. JobOnCourse'
  BY <1>2, <1>3 DEF JobOnCourse
<1>7. JobIsOfRecord'
  BY <1>1, <1>3 DEF FaithfulInv, JobIsOfRecord
<1>8. EdgesAreOfRuns' /\ OneReading'
  BY <1>1, <1>2, <1>4 DEF FaithfulInv, EdgesAreOfRuns, OneReading
<1>9. EdgesAreGrounded'
  BY <1>1, <1>4 DEF FaithfulInv, EdgesAreGrounded, Enriched
<1>. QED
  BY <1>5, <1>6, <1>7, <1>8, <1>9 DEF FaithfulInv

\* The document has no edge left when its new ones are written.
LEMMA FaithfulWriteTriples ==
    ASSUME FaithfulInv, WriteTriples
    PROVE  FaithfulInv'
<1>. DEFINE r == records[job.doc]
            known == Known(r.links)
            added == {[doc |-> job.doc, run |-> runs, triple |-> t] : t \in job.triples}
<1>1. /\ job.pc = "edges" /\ job' = Idle /\ edges' = edges \cup added
      /\ UNCHANGED <<loaded, records, nodes, runs>>
  BY DEF WriteTriples
<1>2. /\ job # Idle /\ job.doc \in Docs /\ r.run = runs /\ known \subseteq Ids
      /\ \A t \in job.triples : {t.subject, t.object} \subseteq known
                                /\ r.sentences[t.sentence] = t.span
  BY <1>1, Building
<1>3. /\ \A i \in known : nodes[i] # NoNode
      /\ \A e \in edges : e.doc # job.doc
  BY <1>1 DEF FaithfulInv, JobIsOfRecord
<1>4. \A e \in added : /\ e.doc = job.doc /\ e.run = runs
                       /\ {e.triple.subject, e.triple.object} \subseteq known
                       /\ r.sentences[e.triple.sentence] = e.triple.span
  BY <1>2
<1>5. runs \in Nat
  BY DEF FaithfulInv, StateTyped
<1>6. StateTyped' /\ RecordsAreSound' /\ NodesAreNeverDates'
  BY <1>1 DEF FaithfulInv, StateTyped, RecordsAreSound, NodesAreNeverDates, Enriched
<1>7. JobOnCourse' /\ JobIsOfRecord'
  BY <1>1 DEF JobOnCourse, JobIsOfRecord, Idle
<1>. HIDE DEF added
<1>8. EdgesAreOfRuns'
  <2>. HIDE DEF r, known
  <2>. QED
    BY <1>1, <1>2, <1>4, <1>5 DEF FaithfulInv, EdgesAreOfRuns
<1>9. OneReading'
  <2>. HIDE DEF r, known
  <2>. QED
    BY <1>1, <1>3, <1>4 DEF FaithfulInv, OneReading
<1>10. EdgesAreGrounded'
  <2>1. known = {r.links[k].id : k \in {n \in DOMAIN r.links : r.links[n].type # Date}}
    BY DEF Known, NotDates
  <2>2. ASSUME NEW e \in added
        PROVE  /\ nodes[e.triple.subject] # NoNode /\ nodes[e.triple.object] # NoNode
               /\ records[e.doc] = r
               /\ {e.triple.subject, e.triple.object} \subseteq known
               /\ r.sentences[e.triple.sentence] = e.triple.span
    <3>. HIDE DEF known
    <3>. QED
      BY <1>3, <1>4
  <2>. HIDE DEF r, known
  <2>. QED
    BY <1>1, <2>1, <2>2 DEF FaithfulInv, EdgesAreGrounded, Enriched
<1>. QED
  BY <1>6, <1>7, <1>8, <1>9, <1>10 DEF FaithfulInv

LEMMA FaithfulStep == FaithfulInv /\ [Next]_vars => FaithfulInv'
<1>. SUFFICES ASSUME FaithfulInv, [Next]_vars PROVE FaithfulInv'
  OBVIOUS
<1>1. ASSUME NEW models \in SUBSET Models, Install(models) PROVE FaithfulInv'
  BY <1>1, FaithfulInstall
<1>2. ASSUME NEW d \in Docs, NEW text \in Texts, Receive(d, text) PROVE FaithfulInv'
  BY <1>2, FaithfulReceive
<1>3. CASE Analyze
  BY <1>3, FaithfulAnalyze
<1>4. ASSUME NEW clusters \in CorefAnswers, Resolve(clusters) PROVE FaithfulInv'
  BY <1>4, FaithfulResolve
<1>5. ASSUME NEW resolver \in Resolvers, LinkAll(resolver) PROVE FaithfulInv'
  BY <1>5, FaithfulLinkAll
<1>6. ASSUME NEW answer \in TripleAnswers, Build(answer) PROVE FaithfulInv'
  BY <1>6, FaithfulBuild
<1>7. CASE UpsertNodes
  BY <1>7, FaithfulUpsertNodes
<1>8. CASE DeleteDocumentEdges
  BY <1>8, FaithfulDeleteDocumentEdges
<1>9. CASE WriteTriples
  BY <1>9, FaithfulWriteTriples
<1>10. CASE Drop
  BY <1>10, FaithfulDrop
<1>11. CASE UNCHANGED vars
  <2>1. UNCHANGED <<loaded, job, records, nodes, edges, runs>>
    BY <1>11 DEF vars
  <2>2. (loaded \in Models \cup {NoModel})'
    BY <2>1 DEF FaithfulInv, StateTyped
  <2>3. JobOnCourse' /\ JobIsOfRecord'
    BY <2>1 DEF FaithfulInv, JobOnCourse, JobIsOfRecord
  <2>. QED
    BY <2>1, <2>2, <2>3, StoresStay DEF FaithfulInv
<1>. QED
  BY <1>1, <1>2, <1>3, <1>4, <1>5, <1>6, <1>7, <1>8, <1>9, <1>10, <1>11 DEF Next

LEMMA FaithfulInvImplies == FaithfulInv => ReadingIsFaithful
<1>. SUFFICES ASSUME FaithfulInv PROVE ReadingIsFaithful
  OBVIOUS
<1>1. /\ loaded \in Models \cup {NoModel} /\ nodes \in [Ids -> Node \cup {NoNode}]
      /\ \A d \in Docs : Enriched(d) => Sound(records[d])
  BY DEF FaithfulInv, StateTyped, RecordsAreSound
<1>2. RecordsAreWhole
  <2>1. \A i \in Ids : nodes[i] # NoNode => nodes[i].type \in Types
    BY <1>1 DEF Node
  <2>. QED
    BY <1>1, <2>1 DEF RecordsAreWhole, Sound
<1>3. MentionsAreLinked /\ LinksAreWitnessed
  BY <1>1 DEF MentionsAreLinked, LinksAreWitnessed, Sound, Whole
<1>. QED
  BY <1>2, <1>3 DEF FaithfulInv, ReadingIsFaithful

\* Whatever the models read, the language model answers and linking decides, and wherever runs
\* are dropped: every mention of a document's text is linked, no link, node or edge is without
\* a witness in it, and no two readings are mixed (Orchestrator.process_document, the stages).
THEOREM FaithfulReading == Spec => []ReadingIsFaithful
BY FaithfulInit, FaithfulStep, FaithfulInvImplies, PTL DEF Spec
=============================================================================
