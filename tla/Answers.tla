------------------------------ MODULE Answers ------------------------------
(***************************************************************************)
(* kgbench's answer scorers: a system answers typed questions in text,     *)
(* sentence by sentence, or with structure it knows, and each kind of      *)
(* question has its own rule for what is right.                            *)
(*                                                                         *)
(* A sentence is a list of pieces (what commas and "and" separate), each   *)
(* the names it gives, with its past marker, its refusal, its first number *)
(* and how it meets the sentences next to it: a name may have a full stop  *)
(* ("M. Voss"), and then it is cut in two by whoever reads sentences.      *)
(***************************************************************************)
EXTENDS Integers, Sequences, FiniteSets, FiniteSetsExt, SequencesExt

CONSTANTS
    QuestionSet,        \* the questions of the report
    Phrases,            \* question -> the sentences a system may say (bounds the instance)
    Structures,         \* question -> the structured answers it may give
    Unsaid,             \* a field the answer leaves to the text
    MaxSentences        \* sentences of an answer (bounds the instance)

Kinds == {"entity", "set", "number", "path", "open_ended", "abstain", "false_premise"}

NoText == [text |-> <<>>, entities |-> Unsaid, number |-> Unsaid, refused |-> Unsaid,
           path |-> Unsaid]

\* An open-ended question has something to cover: it is asked of entities with three facts or
\* more (open_ended_questions). What a system knows apart from text has no sentences. A sentence
\* without a piece is a separator on a line of its own: any other one has its full stop.
ASSUME AnswersAssumption ==
    /\ IsFiniteSet(QuestionSet)
    /\ \A q \in QuestionSet :
        /\ q.kind \in Kinds
        /\ q.kind = "set" => q.names \in Seq(ToSet(q.names))
        /\ q.kind = "open_ended" => q.required # {}
        /\ \A sentence \in Phrases[q] :
              /\ sentence.items \in Seq(ToSet(sentence.items))
              /\ sentence.past \in BOOLEAN /\ sentence.declines \in BOOLEAN
              /\ sentence.items = <<>> => sentence.apart /\ sentence.line
        /\ \A structure \in Structures[q] :
              DOMAIN structure = DOMAIN NoText /\ structure.text = <<>>

VARIABLE answers        \* question -> what the system said

\* a question the system was never given counts as one with no answer
AnswersInit == answers = [q \in QuestionSet |-> NoText]

Say(q, sentence) ==
    /\ Len(answers[q].text) < MaxSentences
    /\ answers' = [answers EXCEPT ![q].text = Append(@, sentence)]

Fill(q, structure) ==
    /\ answers[q] = NoText
    /\ answers' = [answers EXCEPT ![q] = structure]

Respond ==
    \E q \in QuestionSet :
        \/ \E sentence \in Phrases[q] : Say(q, sentence)
        \/ \E structure \in Structures[q] : Fill(q, structure)

AnswersSpec == AnswersInit /\ [][Respond]_answers

(***************************************************************************)
(* Reading an answer.                                                      *)
(***************************************************************************)
NamedIn(sentence) == UNION ToSet(sentence.items)

\* a line break sets two sentences apart, and a comma or an "and" that the second begins with
SetApart(s, t) == s.line \/ t.apart

\* names that begin in one sentence and end in the next
Across(s, t) == IF SetApart(s, t) THEN {} ELSE s.opens \cap t.closes

\* The items of the whole text: the end of a sentence separates nothing.
Items(answer) ==
    LET text == answer.text
        upTo[k \in 0 .. Len(text)] ==
            IF k = 0 THEN <<>>
            ELSE IF upTo[k - 1] = <<>> \/ SetApart(text[k - 1], text[k])
            THEN upTo[k - 1] \o text[k].items
            ELSE Front(upTo[k - 1])
                 \o <<Last(upTo[k - 1]) \cup Across(text[k - 1], text[k]) \cup Head(text[k].items)>>
                 \o Tail(text[k].items)
    IN  upTo[Len(text)]

\* names are looked for in the whole text
NamedBy(answer) ==
    UNION {NamedIn(answer.text[i]) : i \in DOMAIN answer.text}
        \cup UNION {Across(answer.text[i - 1], answer.text[i]) : i \in 2 .. Len(answer.text)}

Refused(answer) ==
    IF answer.refused # Unsaid THEN answer.refused
    ELSE \E i \in DOMAIN answer.text : answer.text[i].declines

\* the first number of the text
NumberIn(answer) ==
    LET with == {i \in DOMAIN answer.text : answer.text[i].number # Unsaid}
    IN  IF answer.number # Unsaid THEN answer.number
        ELSE IF with = {} THEN Unsaid ELSE answer.text[Min(with)].number

\* Wrong on purpose: a sentence about the past makes a claim too.
ClaimedEver(q, answer) ==
    {n \in q.stale : \E i \in DOMAIN answer.text : n \in NamedIn(answer.text[i])}

\* stale names that some sentence gives without a past marker
StaleClaimed(q, answer) ==
    {n \in q.stale : \E i \in DOMAIN answer.text :
                        n \in NamedIn(answer.text[i]) /\ ~answer.text[i].past}

(***************************************************************************)
(* One scorer per kind: whether it is right, and a score as a fraction.    *)
(***************************************************************************)
Graded(ok, num, den) == [ok |-> ok, num |-> num, den |-> den]

Whole(ok) == Graded(ok, IF ok THEN 1 ELSE 0, 1)

GradeEntity(q, answer) ==
    IF answer.entities # Unsaid
    THEN LET hit == answer.entities \cap q.answers # {}
         IN  Graded(hit /\ Cardinality(answer.entities) = 1, IF hit THEN 1 ELSE 0, 1)
    ELSE Whole(/\ UNION ToSet(q.names) \cap NamedBy(answer) # {}
               /\ StaleClaimed(q, answer) = {})

\* F1 of a precision and a recall given as fractions
F1(p, r) ==
    IF p[1] = 0 \/ r[1] = 0 \/ p[2] = 0 \/ r[2] = 0 THEN <<0, 1>>
    ELSE <<2 * p[1] * r[1], p[1] * r[2] + r[1] * p[2]>>

ListedItems(answer) == Items(answer)

GradeSet(q, answer) ==
    LET precision ==
            IF answer.entities # Unsaid
            THEN <<Cardinality(answer.entities \cap q.answers), Cardinality(answer.entities)>>
            ELSE <<Cardinality({i \in DOMAIN ListedItems(answer) :
                                  ListedItems(answer)[i] \cap UNION ToSet(q.names) # {}}),
                   Len(ListedItems(answer))>>
        recall ==
            IF answer.entities # Unsaid
            THEN <<Cardinality(answer.entities \cap q.answers), Cardinality(q.answers)>>
            ELSE <<Cardinality({i \in DOMAIN q.names : q.names[i] \cap NamedBy(answer) # {}}),
                   Len(q.names)>>
        f1 == F1(precision, recall)
    IN  Graded(f1[1] = f1[2], f1[1], f1[2])

GradeNumber(q, answer) ==
    Whole(NumberIn(answer) # Unsaid /\ NumberIn(answer) = q.number)

\* the best overlap with a gold chain
GradePath(q, answer) ==
    IF answer.path \in {Unsaid, {}} THEN Whole(FALSE)
    ELSE LET share(c) == Cardinality(answer.path \cap c)
             best == CHOOSE c \in q.paths : \A x \in q.paths :
                        share(c) * Cardinality(x) >= share(x) * Cardinality(c)
         IN  Graded(answer.path \in q.paths, share(best), Cardinality(best))

\* sentences that name both ends of a fact
Joining(answer, f) ==
    {i \in DOMAIN answer.text :
        NamedIn(answer.text[i]) \cap f.subject # {} /\ NamedIn(answer.text[i]) \cap f.object # {}}

Covered(q, answer) == {f \in q.required : Joining(answer, f) # {}}

Forbidden(q, answer) ==
    {f \in q.forbidden : \E i \in Joining(answer, f) : ~answer.text[i].past}

Weight(facts) == MapThenSumSet(LAMBDA f : f.weight, facts)

GradeOpenEnded(q, answer) ==
    Graded(Covered(q, answer) = q.required /\ Forbidden(q, answer) = {},
           Weight(Covered(q, answer)), Weight(q.required))

Answerable(q) == q.kind \notin {"abstain", "false_premise"}

Grade(q, answer) ==
    CASE q.kind \in {"abstain", "false_premise"} -> Whole(Refused(answer))
      [] q.kind = "number"                       -> GradeNumber(q, answer)
      [] q.kind = "set"                          -> GradeSet(q, answer)
      [] q.kind = "path"                         -> GradePath(q, answer)
      [] q.kind = "open_ended"                   -> GradeOpenEnded(q, answer)
      [] q.kind = "entity"                       -> GradeEntity(q, answer)

(***************************************************************************)
(* The report.                                                             *)
(***************************************************************************)
Right(questions) == {q \in questions : Grade(q, answers[q]).ok}

Can == {q \in QuestionSet : Answerable(q)}
Cannot == QuestionSet \ Can

\* answerable questions the system declined
Declined == {q \in Can : Refused(answers[q])}

Report ==
    [answerable |-> <<Cardinality(Right(Can)), Cardinality(Can)>>,
     unanswerable |-> <<Cardinality(Right(Cannot)), Cardinality(Cannot)>>,
     falseRefusals |-> <<Cardinality(Declined), Cardinality(Can)>>]
=============================================================================
