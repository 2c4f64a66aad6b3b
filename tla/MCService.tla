------------------------------ MODULE MCService ------------------------------
(***************************************************************************)
(* Two sources and two texts that share one entity: in one Ada works for   *)
(* Acme (in some year), in the other Grace works for Acme and is a member. *)
(***************************************************************************)
EXTENDS ServiceProperties, TLC

CONSTANTS d1, d2, adaText, graceText, ada, grace, acme, y2023,
          PERSON, ORG, WORKS_FOR, MEMBER_OF

MCTypeOf == ada :> PERSON @@ grace :> PERSON @@ acme :> ORG @@ y2023 :> DATE

MCMentions == adaText :> {ada, acme, y2023} @@ graceText :> {grace, acme}

MCMentionsNoDate == adaText :> {ada, acme} @@ graceText :> {grace, acme}

MCFacts ==
    adaText :> {[s |-> ada, p |-> WORKS_FOR, o |-> acme]}
    @@ graceText :> {[s |-> grace, p |-> WORKS_FOR, o |-> acme],
                     [s |-> grace, p |-> MEMBER_OF, o |-> acme]}

Symmetry == Permutations(Docs) \cup Permutations(Erasers) \cup Permutations(Uploaders)
=============================================================================
