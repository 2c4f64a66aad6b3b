------------------------------ MODULE Scenario ------------------------------
(***************************************************************************)
(* kggen's scenarios: the current facts of a world arrive one `add` each,  *)
(* some are then updated and some deleted, and the events come in any      *)
(* order that keeps an update or a delete after the add it is about.  A    *)
(* store that replays them (`apply_events`) must end with the same facts   *)
(* whatever the order.                                                     *)
(***************************************************************************)
EXTENDS World

CONSTANTS
    Updates, Deletes,   \* how many of each the scenario wants
    Scripted            \* the world specs a scenario is made for (bounds the instance)

VARIABLES
    aims,       \* targets `generate_scenario` has not looked at
    changes,    \* the update and delete events
    ready,      \* events whose turn may come
    stored      \* the facts of the store, by id

scenarioVars == <<aims, changes, ready, stored>>

ScenarioInit == aims = {} /\ changes = {} /\ ready = {} /\ stored = {}

\* a fact's id: that of an update's new fact is the old one's with a suffix
Id(t) == <<t, "">>
NewId(t) == <<t, "~1">>
Item(id, t) == [id |-> id, fact |-> t]

AddOf(t) == [kind |-> "add", target |-> t, fact |-> t]
UpdateOf(t, new) == [kind |-> "update", target |-> t, fact |-> new]
DeleteOf(t) == [kind |-> "delete", target |-> t, fact |-> t]

OfChange(kind) == {e \in changes : e.kind = kind}

Adds == {AddOf(TripleOf(f)) : f \in CurrentEdges}

(***************************************************************************)
(* Making the events.                                                      *)
(***************************************************************************)
Taken == {TripleOf(f) : f \in facts} \cup {e.fact : e \in OfChange("update")}

Fewer(a, b) == IF a < b THEN a ELSE b

\* targets are drawn among what is true now between real entities
DrawTargets ==
    LET real == {TripleOf(f) : f \in {x \in CurrentEdges : x.subject \in Real /\ x.object \in Real}}
    IN  /\ stage = "world" /\ spec \in Scripted
        /\ aims' \in kSubset(Fewer(Cardinality(real), Updates + Deletes), real)
        /\ stage' = "aiming"
        /\ UNCHANGED <<spec, type, community, edges, budget, unvisited, facts, name, aliases,
                       changes, ready, stored>>

\* the objects a fact may be moved to: of a type its relation allows for its subject
Retargets(t) ==
    IF t.predicate = Vague THEN {}
    ELSE {o \in Real :
            /\ <<type[t.subject], type[o]>> \in Signatures[t.predicate]
            /\ o \notin {t.subject, t.object}
            /\ Triple(t.subject, t.predicate, o) \notin Taken}

\* a target becomes an update when the draws find a new object, else a delete, while each is
\* wanted; a draw may miss what is there
Aim(t) ==
    /\ stage = "aiming" /\ t \in aims
    /\ aims' = aims \ {t}
    /\ \/ /\ Cardinality(OfChange("update")) < Updates
          /\ \E o \in Retargets(t) :
                changes' = changes \cup {UpdateOf(t, Triple(t.subject, t.predicate, o))}
       \/ changes' = IF Cardinality(OfChange("delete")) < Deletes
                     THEN changes \cup {DeleteOf(t)} ELSE changes
    /\ UNCHANGED <<spec, stage, type, community, edges, budget, unvisited, facts, name, aliases,
                   ready, stored>>

\* Wrong on purpose: a change does not wait for its add.
AllAtOnce ==
    /\ stage = "aiming" /\ aims = {}
    /\ stage' = "arriving"
    /\ ready' = Adds \cup changes
    /\ UNCHANGED <<spec, type, community, edges, budget, unvisited, facts, name, aliases,
                   aims, changes, stored>>

\* the events that need no other may come first
Schedule ==
    /\ stage = "aiming" /\ aims = {}
    /\ stage' = "arriving"
    /\ ready' = Adds
    /\ UNCHANGED <<spec, type, community, edges, budget, unvisited, facts, name, aliases,
                   aims, changes, stored>>

(***************************************************************************)
(* Arrival.                                                                *)
(***************************************************************************)
Waiting(e) == IF e.kind = "add" THEN {c \in changes : c.target = e.target} ELSE {}

\* what an event leaves in the store
Apply(store, e) ==
    LET old == Item(Id(e.target), e.target)
    IN  CASE e.kind = "add"    -> store \cup {old}
          [] e.kind = "update" -> (store \ {old}) \cup {Item(NewId(e.target), e.fact)}
          [] e.kind = "delete" -> store \ {old}

\* any ready event is next; those that needed it become ready
Arrive(e) ==
    /\ stage = "arriving" /\ e \in ready
    /\ ready' = (ready \ {e}) \cup Waiting(e)
    /\ stored' = Apply(stored, e)
    /\ UNCHANGED <<spec, stage, type, community, edges, budget, unvisited, facts, name, aliases,
                   aims, changes>>

ScenarioNext ==
    \/ DrawTargets
    \/ \E t \in aims : Aim(t)
    \/ Schedule
    \/ \E e \in ready : Arrive(e)

\* the scenario's answer: the events replayed in their canonical order, adds, updates, deletes
Expected ==
    LET added == {Item(Id(e.fact), e.fact) : e \in Adds}
        after(kind, store) ==
            (store \ {Item(Id(e.target), e.target) : e \in OfChange(kind)})
              \cup (IF kind = "update"
                    THEN {Item(NewId(e.target), e.fact) : e \in OfChange(kind)} ELSE {})
    IN  after("delete", after("update", added))
=============================================================================
