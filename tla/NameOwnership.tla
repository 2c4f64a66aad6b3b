---------------------------- MODULE NameOwnership ----------------------------
(***************************************************************************)
(* What entity linking promises a corpus: a name of a type belongs to at   *)
(* most one canonical entity, an entity gathers names of one type only,    *)
(* and a name changes hands only when its entity is removed.               *)
(***************************************************************************)
CONSTANTS
    Slots,          \* [type, name]
    Owners,         \* canonical ids
    NoOne           \* nobody has this name

VARIABLE owner

Init == owner = [s \in Slots |-> NoOne]

OwnedBy(o) == {s \in Slots : owner[s] = o}

OneType(S) == \A s, r \in S : s.type = r.type

\* o takes names that are free or are its own
Claim(o, S) ==
    /\ \A s \in S : owner[s] \in {NoOne, o}
    /\ OneType(S \cup OwnedBy(o))
    /\ owner' = [s \in Slots |-> IF s \in S THEN o ELSE owner[s]]

\* o is removed, and all its names are free
Release(o) ==
    owner' = [s \in Slots |-> IF owner[s] = o THEN NoOne ELSE owner[s]]

Next == \E o \in Owners : Release(o) \/ \E S \in SUBSET Slots : Claim(o, S)

Spec == Init /\ [][Next]_owner
=============================================================================
