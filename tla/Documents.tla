----------------------------- MODULE Documents -----------------------------
(***************************************************************************)
(* kggen's template writer: every fact of the world becomes one sentence,  *)
(* and each sentence records which facts it states and at which offsets it *)
(* mentions whom, so that everything read out of the text can be scored.   *)
(* A text is a sequence of words; a space and a paragraph break between    *)
(* two sentences are symbols of their own, of different lengths.           *)
(***************************************************************************)
EXTENDS Integers, Sequences, FiniteSets, FiniteSetsExt, SequencesExt

CONSTANTS
    Name,               \* entities -> name, a sequence of words
    Aliases,            \* entities -> other names
    Decoys,             \* the distractors among the entities
    FactsOf,            \* subjects -> their facts, in order
    FirstYear, Never,
    Stop, Space, Newline,
    Frames,             \* filler sentences, <<words before the name, words after it>>
    Plain,              \* a filler sentence that names nobody
    MaxFacts,           \* most facts of a document
    Neighbours,         \* facts about connected entities a long document adds
    TargetWords,        \* words of a long document
    ParagraphAfter,     \* fewest sentences of a paragraph
    Styles              \* the writers of the instance

ASSUME DocumentsAssumption ==
    /\ MaxFacts \in Nat \ {0} /\ Neighbours \in Nat /\ TargetWords \in Nat
    /\ Frames # {}      \* some frame names the subject, or an article could not open

VARIABLES
    style,      \* which writer
    jobs,       \* documents to write
    draft,      \* the document being written
    docs        \* documents written

documentVars == <<style, jobs, draft, docs>>

Entities == DOMAIN Name

\* a set in its order
InOrder(S, Before(_, _)) ==
    [i \in 1..Cardinality(S) |->
        CHOOSE x \in S : Cardinality({y \in S \ {x} : Before(y, x)}) = i - 1]

Surfaces(e) == {Name[e]} \cup Aliases[e]

Mention(e, surface, start) ==
    [entity |-> e, surface |-> surface, start |-> start, end |-> start + Len(surface)]

Sentence(text, start, facts, mentions) ==
    [text |-> text, start |-> start, end |-> start + Len(text), facts |-> facts,
     mentions |-> mentions]

(***************************************************************************)
(* One sentence.                                                           *)
(***************************************************************************)

\* the year a fact ended, unless the year it started has to be said
When(f) ==
    IF f.from > FirstYear THEN <<f.from>> ELSE IF f.to # Never THEN <<f.to>> ELSE <<>>

\* a fact stated under these two names, from this offset on
State(f, s, o, offset) ==
    Sentence(s \o <<f.predicate>> \o o \o When(f) \o <<Stop>>, offset, <<f>>,
             {Mention(f.subject, s, offset), Mention(f.object, o, offset + Len(s) + 1)})

Wordings(f) == Surfaces(f.subject) \X Surfaces(f.object)

Filler(e, frame, surface) ==
    Sentence(frame[1] \o surface \o frame[2] \o <<Stop>>, 0, <<>>,
             {Mention(e, surface, Len(frame[1]))})

\* a sentence worded at offset 0, moved to its place
Shifted(s, delta) ==
    [s EXCEPT !.start = @ + delta, !.end = @ + delta,
              !.mentions = {[m EXCEPT !.start = @ + delta, !.end = @ + delta] : m \in @}]

(***************************************************************************)
(* The documents to write.                                                 *)
(***************************************************************************)
Job(subject, facts) == [subject |-> subject, facts |-> facts]

\* a subject's facts, MaxFacts at a time
Chunks(subject) ==
    LET facts == FactsOf[subject]
    IN  [i \in 1 .. (Len(facts) + MaxFacts - 1) \div MaxFacts |->
            Job(subject, SubSeq(facts, (i - 1) * MaxFacts + 1,
                                IF i * MaxFacts < Len(facts) THEN i * MaxFacts ELSE Len(facts)))]

\* subjects in a fixed order
AllJobs == FlattenSeq([i \in 1..Cardinality(DOMAIN FactsOf) |->
                          Chunks(SetToSeq(DOMAIN FactsOf)[i])])

NoDraft == [written |-> <<>>, seps |-> <<>>, facts |-> {}, padding |-> <<>>, run |-> 0]

\* a document is drawn by a generator of its own: of the long ones the instance writes one
DocumentsInit ==
    /\ style \in Styles
    /\ IF style = "long" THEN jobs \in {<<job>> : job \in ToSet(AllJobs)} ELSE jobs = AllJobs
    /\ draft = NoDraft
    /\ docs = <<>>

\* the text of sentences that are each followed by a separator
Joined(sentences, seps) ==
    FlattenSeq([i \in DOMAIN sentences |-> sentences[i].text \o seps[i]])

Document(job, sentences, text) ==
    [subject |-> job.subject, sentences |-> sentences, text |-> text,
     decoy |-> job.subject \in Decoys]

\* single spaces, none after the last sentence
Spaces(n) == [i \in 1..n |-> IF i < n THEN <<Space>> ELSE <<>>]

Finish(job, sentences, seps) ==
    /\ docs' = Append(docs, Document(job, sentences, Joined(sentences, seps)))
    /\ jobs' = Tail(jobs)
    /\ draft' = NoDraft

(***************************************************************************)
(* Short documents: the facts, one after the other.                        *)
(***************************************************************************)
Writing(name) == style = name /\ jobs # <<>>

\* Wrong on purpose: the space that joins sentences is not counted.
NoGap == IF draft.written = <<>> THEN 0 ELSE Last(draft.written).end

\* where the next sentence starts: a single space joins sentences
NextOffset == IF draft.written = <<>> THEN 0 ELSE Last(draft.written).end + 1

WriteFact ==
    /\ Writing("short")
    /\ Len(draft.written) < Len(Head(jobs).facts)
    /\ LET f == Head(jobs).facts[Len(draft.written) + 1]
       IN  \E w \in Wordings(f) :
             draft' = [draft EXCEPT !.written = Append(@, State(f, w[1], w[2], NextOffset))]
    /\ UNCHANGED <<style, jobs, docs>>

FinishShort ==
    /\ Writing("short")
    /\ Len(draft.written) = Len(Head(jobs).facts)
    /\ Finish(Head(jobs), draft.written, Spaces(Len(draft.written)))
    /\ UNCHANGED style

(***************************************************************************)
(* Long documents: facts of the subject and of its neighbours, spread      *)
(* through filler.                                                         *)
(***************************************************************************)

\* what entities its facts lead to say of themselves
Neighbouring(job) ==
    UNION {{g \in ToSet(FactsOf[f.object]) : g.subject # job.subject} :
             f \in {x \in ToSet(job.facts) : x.object \in DOMAIN FactsOf}}

Context(job) ==
    IF job.subject \in Decoys THEN {{}}
    ELSE LET pool == Neighbouring(job)
         IN  kSubset(IF Cardinality(pool) < Neighbours THEN Cardinality(pool) ELSE Neighbours,
                     pool)

WordsOf(sentences) == MapThenSumSet(LAMBDA s : Len(s.text), sentences)

Padded == MapThenSumSet(LAMBDA i : Len(draft.padding[i].text), DOMAIN draft.padding)

\* every fact is worded first, and an opening that names the subject is drawn
OpenArticle ==
    /\ Writing("long") /\ draft = NoDraft
    /\ LET job == Head(jobs)
       IN  \E context \in Context(job) :
           LET facts == ToSet(job.facts) \cup context
           IN  \E word \in [facts -> UNION {Wordings(f) : f \in facts}] :
               /\ \A f \in facts : word[f] \in Wordings(f)
               /\ \E frame \in Frames, surface \in Surfaces(job.subject) :
                    draft' = [draft EXCEPT
                        !.facts = {State(f, word[f][1], word[f][2], 0) : f \in facts},
                        !.padding = <<Filler(job.subject, frame, surface)>>]
    /\ UNCHANGED <<style, jobs, docs>>

\* filler up to the length asked for, before anything is placed
Pad ==
    /\ Writing("long") /\ draft.padding # <<>> /\ draft.written = <<>>
    /\ WordsOf(draft.facts) + Padded < TargetWords
    /\ \E s \in {Sentence(Plain \o <<Stop>>, 0, <<>>, {})}
                  \cup {Filler(Head(jobs).subject, frame, surface) :
                          frame \in Frames, surface \in Surfaces(Head(jobs).subject)} :
            draft' = [draft EXCEPT !.padding = Append(@, s)]
    /\ UNCHANGED <<style, jobs, docs>>

Offset ==
    IF draft.written = <<>> THEN 0 ELSE Last(draft.written).end + Len(Last(draft.seps))

\* a long enough paragraph may end here
Separators == {<<Space>>} \cup (IF draft.run + 1 >= ParagraphAfter THEN {<<Newline, Newline>>}
                               ELSE {})

PlaceNext(s) ==
    \E sep \in Separators :
        draft' = [draft EXCEPT !.written = Append(@, Shifted(s, Offset)),
                               !.seps = Append(@, sep),
                               !.run = IF sep = <<Space>> THEN @ + 1 ELSE 0,
                               !.facts = @ \ {s},
                               !.padding = IF s.facts = <<>> THEN Tail(@) ELSE @]

\* filler in its order, facts in any order and anywhere but first
Place ==
    /\ Writing("long")
    /\ draft.written # <<>> \/ (draft.padding # <<>>
                                /\ WordsOf(draft.facts) + Padded >= TargetWords)
    /\ \/ draft.padding # <<>> /\ PlaceNext(Head(draft.padding))
       \/ draft.written # <<>> /\ \E s \in draft.facts : PlaceNext(s)
    /\ UNCHANGED <<style, jobs, docs>>

FinishLong ==
    /\ Writing("long")
    /\ draft.written # <<>> /\ draft.facts = {} /\ draft.padding = <<>>
    /\ Finish(Head(jobs), draft.written,
              [draft.seps EXCEPT ![Len(draft.seps)] = <<>>])
    /\ UNCHANGED style

WriteFromTemplates == WriteFact \/ FinishShort \/ OpenArticle \/ Pad \/ Place \/ FinishLong
=============================================================================
