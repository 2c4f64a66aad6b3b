------------------------------ MODULE Judging ------------------------------
(***************************************************************************)
(* kgbench's questions to a model, and what keeps them honest.  Documents  *)
(* are checked against their facts, next to altered documents that a good  *)
(* checker must fault; open-ended answers are judged, next to cases whose  *)
(* label is known; a reader answers from a passage.  All of them ask       *)
(* through a pool of threads and one cache of replies that could be read,  *)
(* and are replayed from it later.                                         *)
(***************************************************************************)
EXTENDS LlmWriter

CONSTANTS
    Symmetric,          \* relations whose reverse says the same
    Pools,              \* required facts of the open-ended questions, in order
    Batches(_),         \* required facts -> batches of rows to ask; a row is prompts in order
    Endpoint(_),        \* prompt -> what the model may reply
    None                \* no verdict, nothing reported

\* What a document's facts may be.
Verdicts == {"STATED", "WRONG", "MISSING"}

\* A batch is finite and every row asks something; a reply about facts reads as verdicts in order.
ASSUME JudgingAssumption ==
    \A facts \in Pools : \A batch \in Batches(facts) :
        /\ batch \in Seq(ToSet(batch))
        /\ \A row \in ToSet(batch) :
            /\ row \in Seq(ToSet(row)) \ {<<>>}
            /\ \A prompt \in ToSet(row) : prompt.kind = "check" =>
                  /\ prompt.n \in Nat
                  /\ \A answer \in Endpoint(prompt) :
                        answer.extra /\ DOMAIN answer.verdicts = 1..prompt.n =>
                            answer.verdicts \in [1..prompt.n -> Verdicts]

VARIABLES
    pool,       \* the required facts that cases are made from
    chat        \* the batch, its threads, the cache, the run, and what runs reported

judgingVars == <<pool, chat>>

(***************************************************************************)
(* Documents checked against their facts.                                  *)
(***************************************************************************)

\* what a document states, in order of first appearance
FactsIn(doc) ==
    FoldLeft(LAMBDA seen, s : seen \o SelectSeq(s.facts, LAMBDA f : f \notin ToSet(seen)),
             <<>>, doc.sentences)

\* a statement gives the names, not the aliases
Statement(f, s, o) ==
    [subject |-> Name[s], predicate |-> f.predicate, object |-> Name[o],
     from |-> f.from, to |-> f.to]

Statements(doc) ==
    [k \in DOMAIN FactsIn(doc) |-> Statement(FactsIn(doc)[k], FactsIn(doc)[k].subject,
                                             FactsIn(doc)[k].object)]

StatedAlone(doc, f) == {i \in DOMAIN doc.sentences : doc.sentences[i].facts = <<f>>}

\* the first fact with a sentence of its own is no longer stated, if others are
WithoutFact(doc) ==
    LET order == FactsIn(doc)
        removable == {k \in DOMAIN order : StatedAlone(doc, order[k]) # {}}
    IN  IF Len(order) = 1 \/ removable = {} THEN {}
        ELSE {[sentences |-> RemoveAt(doc.sentences, Min(StatedAlone(doc, order[Min(removable)]))),
               facts |-> Statements(doc), index |-> Min(removable)]}

\* the first fact is listed the wrong way round
ReversedFact(doc) ==
    LET f == FactsIn(doc)[1]
    IN  IF f.predicate \in Symmetric THEN {}
        ELSE {[sentences |-> doc.sentences, index |-> 1,
               facts |-> [Statements(doc) EXCEPT ![1] = Statement(f, f.object, f.subject)]]}

WithFacts(documents) == SelectSeq(documents, LAMBDA d : FactsIn(d) # <<>>)

\* the code's own look at sentences that state one fact: is the subject named, and first?
WordOrder(documents) ==
    LET alone == {x \in UNION {{d} \X DOMAIN documents[d].sentences : d \in DOMAIN documents} :
                    Len(documents[x[1]].sentences[x[2]].facts) = 1}
        starts(x, e) == {m.start : m \in {n \in documents[x[1]].sentences[x[2]].mentions : n.entity = e}}
        fact(x) == documents[x[1]].sentences[x[2]].facts[1]
        subject(x) == starts(x, fact(x).subject)
        object(x) == starts(x, fact(x).object)
    IN  [sentences |-> Cardinality(alone),
         objectFirst |-> Cardinality({x \in alone : /\ subject(x) # {} /\ object(x) # {}
                                                    /\ Min(object(x)) < Min(subject(x))}),
         subjectNotNamed |-> Cardinality({x \in alone : subject(x) = {}})]

(***************************************************************************)
(* Passages for a reader.                                                  *)
(***************************************************************************)
Texts(documents, facts) ==
    {s.text : s \in {x \in UNION {ToSet(documents[d].sentences) : d \in DOMAIN documents} :
                       ToSet(x.facts) \cap facts # {}}}

Expressed(documents, texts) ==
    UNION {ToSet(s.facts) : s \in {x \in UNION {ToSet(documents[d].sentences) : d \in DOMAIN documents} :
                                     x.text \in texts}}

Wanted(path) == [last |-> {path[Len(path)]}, chain |-> ToSet(path)]

\* per input the passage, and whether the whole path is in it
Passages(path, documents) ==
    [input \in {"last", "chain"} |->
        LET texts == Texts(documents, Wanted(path)[input])
        IN  [texts |-> texts, whole |-> ToSet(path) \subseteq Expressed(documents, texts)]]

\* the documents that hold any of the facts
ContextFor(path, documents) ==
    SelectSeq(documents, LAMBDA d : ToSet(path) \cap ToSet(FactsIn(d)) # {})

(***************************************************************************)
(* Cases with known labels for the judge of open-ended answers.            *)
(***************************************************************************)
Said(f) == Name[f.subject] \o <<f.predicate>> \o Name[f.object]

\* leftmost occurrences first, none overlapping
Replaced(text, old, new) ==
    LET taken == {o.at : o \in Occurrences(text, <<old>>)}
        covered(k) == \E i \in taken : i + 1 < k /\ k <= i + Len(old)
    IN  FlattenSeq([k \in DOMAIN text |->
            IF k - 1 \in taken THEN new ELSE IF covered(k) THEN <<>> ELSE <<text[k]>>])

NamesAny(sentence, e) == \E n \in Surfaces(e) : Spans(sentence, n) # {}

\* the offline matcher: some sentence names both
Covers(answer, f) ==
    \E i \in DOMAIN answer : NamesAny(answer[i], f.subject) /\ NamesAny(answer[i], f.object)

Claim(s, p, o) == [subject |-> s, predicate |-> p, object |-> o]

Case(f, kind, answer, label, claims) ==
    [fact |-> f, kind |-> kind, answer |-> answer, label |-> label, claims |-> claims]

\* the six answers about a fact, with what each claims (history)
CasesOf(f, other) ==
    LET s == Name[f.subject]
        o == Name[f.object]
        claim == Claim(s, f.predicate, o)
    IN  {Case(f, "stated", <<Said(f)>>, TRUE, {claim}),
         Case(f, "pronoun", <<s, SubSeq(Said(f), Len(s) + 1, Len(Said(f)))>>, TRUE, {claim}),
         Case(f, "negated", <<Said(f)>>, FALSE, {}),
         Case(f, "co_mention", <<s \o <<Space>> \o o>>, FALSE, {}),
         Case(f, "wrong_object", <<Replaced(Said(f), o, Name[other.object])>>, FALSE,
              {Claim(Replaced(s, o, Name[other.object]), f.predicate, Name[other.object])}),
         Case(f, "absent", <<Said(other)>>, FALSE,
              {Claim(Name[other.subject], other.predicate, Name[other.object])})}

\* a control that the names satisfy would be mislabelled
Keep(c) == c.kind \in {"wrong_object", "absent"} => ~Covers(c.answer, c.fact)

Cases(facts) ==
    UNION {{c \in CasesOf(facts[i], facts[(i % Len(facts)) + 1]) : Keep(c)} : i \in DOMAIN facts}

(***************************************************************************)
(* Rows of prompts.  A row is one thread's, which asks one after the other. *)
(***************************************************************************)
Asks(kind, about, n) == [kind |-> kind, about |-> about, n |-> n]

CheckRow(text, facts) == <<Asks("check", <<text, facts>>, Len(facts))>>
JudgeRow(case) == <<Asks("judge", case, 1)>>
ReaderRow(question, last, chain) ==
    <<Asks("read", <<last, question>>, 1), Asks("read", <<chain, question>>, 1)>>

\* only the first rating is given the context
CritiqueRow(question, context) ==
    <<Asks("rate", <<"groundedness", question, context>>, 1),
      Asks("rate", <<"relevance", question>>, 1), Asks("rate", <<"standalone", question>>, 1)>>

(***************************************************************************)
(* Reading a reply.                                                        *)
(***************************************************************************)

\* every listed fact has a verdict and the last line is there
Parsed(prompt, answer) ==
    IF answer.extra /\ DOMAIN answer.verdicts = 1..prompt.n THEN answer.verdicts ELSE None

Read(prompt, answer) ==
    CASE prompt.kind = "check" -> Parsed(prompt, answer)
      [] prompt.kind = "judge" -> IF answer \in {"YES", "NO"} THEN answer ELSE None
      [] prompt.kind = "rate"  -> IF answer \in 1..5 THEN answer ELSE None
      [] prompt.kind = "read"  -> IF answer # "" THEN answer ELSE None

(***************************************************************************)
(* Asking: cached, else a call; what can be read is kept, if nothing is.   *)
(***************************************************************************)
Fresh == [stage |-> "queued", got |-> <<>>, answer |-> None]

JudgingInit ==
    /\ pool \in Pools
    /\ \E batch \in Batches(pool) :
         chat = [rows |-> batch, threads |-> [r \in DOMAIN batch |-> Fresh], kept |-> <<>>,
                 live |-> TRUE, attempt |-> 1, reports |-> <<>>]

Prompt(r) == chat.rows[r][Len(chat.threads[r].got) + 1]

\* another thread is writing the file this one would read
BeingKept(r) ==
    \E x \in DOMAIN chat.rows \ {r} : chat.threads[x].stage = "keeping" /\ Prompt(x) = Prompt(r)

\* rows are taken up in order
AskModel(r) ==
    /\ chat.threads[r].stage \in {"queued", "between"}
    /\ chat.threads[r].stage = "queued" =>
          /\ \A i \in 1 .. r - 1 : chat.threads[i].stage # "queued"
          /\ Cardinality({i \in DOMAIN chat.rows :
                chat.threads[i].stage \in {"between", "asked", "keeping"}}) < Workers
    /\ \/ /\ Prompt(r) \in DOMAIN chat.kept
          /\ chat' = [chat EXCEPT !.threads[r].stage = "asked",
                                  !.threads[r].answer = chat.kept[Prompt(r)]]
       \/ /\ Prompt(r) \notin DOMAIN chat.kept /\ chat.live
          /\ \E answer \in Endpoint(Prompt(r)) :
               chat' = [chat EXCEPT !.threads[r].stage = "asked", !.threads[r].answer = answer]
       \* no endpoint or one that raises, or a file that is not whole
       \/ /\ Prompt(r) \notin DOMAIN chat.kept \/ BeingKept(r)
          /\ chat' = [chat EXCEPT !.threads[r].stage = "failed"]
    /\ UNCHANGED pool

Outcome(r) == Read(Prompt(r), chat.threads[r].answer)

After(threads, r) ==
    LET got == Append(threads[r].got, Outcome(r))
    IN  [threads EXCEPT ![r] = [stage |-> IF Len(got) < Len(chat.rows[r]) THEN "between" ELSE "done",
                                got |-> got, answer |-> None]]

\* Wrong on purpose: whatever came back is kept.
KeepAnything(r) ==
    /\ chat.threads[r].stage = "asked"
    /\ chat' = IF Prompt(r) \notin DOMAIN chat.kept
               THEN [chat EXCEPT !.threads[r].stage = "keeping"]
               ELSE [chat EXCEPT !.threads = After(@, r)]
    /\ UNCHANGED pool

\* A reply that can be read is kept, if there is none: which reads the file again.
Look(r) ==
    /\ chat.threads[r].stage = "asked"
    /\ \/ /\ Outcome(r) # None /\ Prompt(r) \notin DOMAIN chat.kept
          /\ chat' = [chat EXCEPT !.threads[r].stage = "keeping"]
       \/ /\ Outcome(r) = None \/ Prompt(r) \in DOMAIN chat.kept
          /\ chat' = [chat EXCEPT !.threads = After(@, r)]
       \/ /\ Outcome(r) # None /\ BeingKept(r)
          /\ chat' = [chat EXCEPT !.threads[r].stage = "failed"]
    /\ UNCHANGED pool

Store(r) ==
    /\ chat.threads[r].stage = "keeping"
    /\ chat' = [chat EXCEPT !.kept = [p \in DOMAIN @ \cup {Prompt(r)} |->
                                        IF p = Prompt(r) THEN chat.threads[r].answer ELSE @[p]],
                            !.threads = After(@, r)]
    /\ UNCHANGED pool

\* results are taken in order, and the first failure cancels what has not started
CancelRows ==
    /\ \E r \in DOMAIN chat.rows :
          /\ chat.threads[r].stage = "failed"
          /\ \A i \in 1 .. r - 1 : chat.threads[i].stage = "done"
    /\ \E r \in DOMAIN chat.rows : chat.threads[r].stage = "queued"
    /\ chat' = [chat EXCEPT !.threads =
                  [r \in DOMAIN @ |-> IF @[r].stage = "queued" THEN [@[r] EXCEPT !.stage = "cancelled"]
                                      ELSE @[r]]]
    /\ UNCHANGED pool

Over == \A r \in DOMAIN chat.rows : chat.threads[r].stage \in {"done", "failed", "cancelled"}

Finished == Over /\ \A r \in DOMAIN chat.rows : chat.threads[r].stage = "done"

Got == [r \in DOMAIN chat.rows |-> chat.threads[r].got]

\* the next run, with the endpoint or from the cache alone
AskAgain ==
    /\ chat.rows # <<>> /\ Over /\ chat.attempt < MaxRuns
    /\ \E live \in BOOLEAN :
         chat' = [chat EXCEPT !.threads = [r \in DOMAIN @ |-> Fresh], !.live = live,
                              !.attempt = @ + 1,
                              !.reports = IF Finished THEN Append(@, Got) ELSE @]
    /\ UNCHANGED pool

Judge ==
    \/ \E r \in DOMAIN chat.rows : AskModel(r) \/ Look(r) \/ Store(r)
    \/ CancelRows \/ AskAgain

JudgingSpec == JudgingInit /\ [][Judge]_judgingVars

(***************************************************************************)
(* What is reported.                                                       *)
(***************************************************************************)

\* verdicts of the documents that were read, and how many were not
Tally ==
    LET checks == {r \in DOMAIN chat.rows : chat.rows[r][1].kind = "check"}
        read == {r \in checks : Got[r][1] # None}
    IN  [unparsed |-> Cardinality(checks \ read),
         verdicts |-> [v \in Verdicts |->
            SumFunction([r \in read |-> Cardinality({k \in DOMAIN Got[r][1] : Got[r][1][k] = v})])],
         facts |-> SumFunction([r \in read |-> chat.rows[r][1].n])]

Judged == {r \in DOMAIN chat.rows : chat.rows[r][1].kind = "judge"}
CaseOf(r) == chat.rows[r][1].about
Matched(r) == Covers(CaseOf(r).answer, CaseOf(r).fact)

\* the judge's verdict, or the matcher's when it has none
Verdict(r) == IF Got[r][1] = None THEN Matched(r) ELSE Got[r][1] = "YES"

\* how often each label was predicted
Rates(Predicts(_)) ==
    [outcome \in BOOLEAN \X BOOLEAN |->
        Cardinality({r \in Judged : <<CaseOf(r).label, Predicts(r)>> = outcome})]

JudgeReport ==
    [n |-> Cardinality(Judged),
     abstained |-> Cardinality({r \in Judged : Got[r][1] = None}),
     matcher |-> Rates(Matched), judge |-> Rates(Verdict)]
=============================================================================
