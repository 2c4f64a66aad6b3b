------------------------------ MODULE MCScopes ------------------------------
(***************************************************************************)
(* Three scopes: the default, another tenant and a namespace of it.  The   *)
(* stores share nothing, so a behaviour exercises one of them: any other   *)
(* is an interleaving of four of these.                                    *)
(***************************************************************************)
EXTENDS ScopedAdapters, TLC

VARIABLE store      \* the one this behaviour exercises

MCScope == {[tenant |-> "default", namespace |-> "none"],
            [tenant |-> "acme", namespace |-> "none"],
            [tenant |-> "acme", namespace |-> "team"]}

\* a key that reads like another scope's, and one with the reserved prefix
MCKeys == {<<"k">>, <<"team", "k">>, <<"_scopes", "acme", "root", "k">>}

MCRecords == {[mentions |-> {"ann"}, sentences |-> 2, vectors |-> <<2, 1>>],
              [mentions |-> {}, sentences |-> 3, vectors |-> <<1, 2, 2>>]}

MCProfiles == {[type |-> "PERSON", name |-> "Ann", aliases |-> {}, vector |-> 1],
               [type |-> "ORG", name |-> "Bob", aliases |-> {"ANN"}, vector |-> 2]}

MCNormalized == [n \in {"Ann", "ANN", "Bob"} |-> IF n = "Bob" THEN "bob" ELSE "ann"]

\* what the default scope already has: a document and an entity with vectors, others without
MCOldObjects == <<"k">> :> "old"
MCOldDocuments == <<"d1">> :> [links |-> {<<"ann">>}, sentences |-> 1, vectors |-> <<1>>]
               @@ <<"d2">> :> [links |-> {<<"bob">>}, sentences |-> 1, vectors |-> <<>>]
MCOldEntities == <<"ann">> :> [type |-> "PERSON", name |-> "Ann", aliases |-> {}, vector |-> 1]
              @@ <<"bob">> :> [type |-> "ORG", name |-> "Bob", aliases |-> {}, vector |-> 0]
MCOldNodes == [i \in {<<"ann">>, <<"bob">>} |->
                  [type |-> "PERSON", name |-> "Ann", aliases |-> {}]]
MCOldEdges == {[subject |-> <<"ann">>, object |-> <<"bob">>, doc |-> <<"d1">>]}

\* bounds of the graph: two of the scopes, one name, three edges at a time
MCSmall ==
    /\ \A i \in EntityIds : graph[i] # Nothing => graph[i].name = "Ann"
    /\ Cardinality(relations) <= 3

MCInit == Init /\ store \in {"objects", "documents", "entities", "graph"}

MCNext ==
    /\ UNCHANGED store
    /\ \E sc \in Scope :
          \/ store = "objects" /\ ObjectCall(sc)
          \/ store = "documents" /\ DocumentCall(sc)
          \/ store = "entities" /\ EntityCall(sc)
          \/ store = "graph" /\ sc.namespace = "none" /\ GraphCall(sc) /\ MCSmall'

MCSpec == MCInit /\ [][MCNext]_<<adapterVars, store>>
=============================================================================
