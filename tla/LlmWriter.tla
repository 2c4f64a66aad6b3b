----------------------------- MODULE LlmWriter -----------------------------
(***************************************************************************)
(* kggen's other writer asks a chat model for each document, several at    *)
(* once, and trusts nothing it says: an answer becomes a document, and is  *)
(* kept in the cache, only when it states every fact with the names given. *)
(* One answer that does not fails the run; the next run starts from the    *)
(* cache, which is keyed by the prompt: documents about namesakes may      *)
(* share one.  Whom a sentence mentions is found in its text, never asked. *)
(***************************************************************************)
EXTENDS Documents

CONSTANTS
    Workers,            \* documents asked for at once
    Replies,            \* what the endpoint may answer: sentences with the facts they state
    NoReply,            \* nothing cached, or a call that fails
    MaxRuns             \* runs of the writer (bounds the instance)

VARIABLES
    orders,     \* job -> its facts, each with the names to use
    cache,      \* prompt -> the reply cached for it
    thread,     \* job -> what became of it in this run
    reply,      \* job -> the reply it is written from
    runs,       \* runs so far
    paid        \* job -> the runs in which the endpoint gave it a valid reply (history)

llmVars == <<orders, cache, thread, reply, runs, paid>>

Jobs == 1..Len(AllJobs)

Order(f, s, o) == [fact |-> f, subject |-> s, object |-> o]

\* the names to use are drawn when the job is made
Ordered(job) ==
    {o \in [1..Len(job.facts) -> UNION {{Order(f, w[1], w[2]) : w \in Wordings(f)} :
                                          f \in ToSet(job.facts)}] :
        \A i \in 1..Len(job.facts) : o[i].fact = job.facts[i]}

\* What the prompt says of a fact, which is what an answer is checked against: the names to use,
\* and each year only if it has to be said.
Line(o) ==
    [subject |-> o.subject, predicate |-> o.fact.predicate, object |-> o.object,
     since |-> IF o.fact.from > FirstYear THEN o.fact.from ELSE Never, ended |-> o.fact.to]

Lines(order) == [i \in DOMAIN order |-> Line(order[i])]

PromptOf(j) == Lines(orders[j])

LlmInit ==
    /\ orders \in {f \in [Jobs -> UNION {Ordered(AllJobs[j]) : j \in Jobs}] :
                      \A j \in Jobs : f[j] \in Ordered(AllJobs[j])}
    /\ cache = [p \in {PromptOf(j) : j \in Jobs} |-> NoReply]
    /\ reply = [j \in Jobs |-> NoReply]
    /\ thread = [j \in Jobs |-> "queued"]
    /\ runs = 1
    /\ paid = [j \in Jobs |-> <<>>]

(***************************************************************************)
(* Finding names in a text.                                                *)
(***************************************************************************)

\* where a name is, in whole words
Spans(text, name) ==
    {i \in 0 .. Len(text) - Len(name) : SubSeq(text, i + 1, i + Len(name)) = name}

Clear(i, a, j, b) == i + Len(a) <= j \/ j + Len(b) <= i

\* occurrences of the names, longest first, none overlapping another
Occurrences(text, names) ==
    FoldLeft(LAMBDA found, n :
                found \cup {[name |-> n, at |-> i] :
                    i \in {x \in Spans(text, n) :
                             \A f \in found : Clear(x, n, f.at, f.name)}},
             {}, SortSeq(names, LAMBDA a, b : Len(a) > Len(b)))

\* the first occurrence of one name with a clear occurrence of the other
FoundSpans(text, s, o) ==
    {p \in Spans(text, s) \X Spans(text, o) : Clear(p[1], s, p[2], o)}

FindSpans(text, s, o) ==
    CHOOSE p \in FoundSpans(text, s, o) :
        \A q \in FoundSpans(text, s, o) : p[1] < q[1] \/ (p[1] = q[1] /\ p[2] <= q[2])

YearsIn(text, line) == {line.since, line.ended} \ {Never} \subseteq ToSet(text)

(***************************************************************************)
(* What an answer must be.                                                 *)
(***************************************************************************)
\* the names of a prompt, or of the order it was made of
Listed(lines) == FlattenSeq([i \in DOMAIN lines |-> <<lines[i].subject, lines[i].object>>])

AllNames == UNION {Surfaces(e) : e \in Entities}

\* plain: one sentence a fact, in order, with both names clear of each other
ValidPlain(answer, lines) ==
    /\ [i \in DOMAIN answer |-> answer[i].facts] = [i \in DOMAIN lines |-> <<i>>]
    /\ \A i \in DOMAIN lines :
        /\ FoundSpans(answer[i].text, lines[i].subject, lines[i].object) # {}
        /\ YearsIn(answer[i].text, lines[i])

\* the text with the listed names blanked out
Bare(text, names) ==
    [k \in DOMAIN text |->
        IF \E f \in Occurrences(text, names) : f.at < k /\ k <= f.at + Len(f.name)
        THEN Space ELSE text[k]]

Labels(answer) == FlattenSeq([i \in DOMAIN answer |-> answer[i].facts])

\* The sentences so far with one blank between two, which is the blank inside a name: a name may
\* end in one sentence and begin in the one before.
UpTo(answer, i) == FlattenSeq([k \in 1..i |-> answer[k].text])

\* rich: each fact in one sentence, its object named in it, its subject there or before, its
\* years said, and no name that is not listed
ValidRich(answer, lines) ==
    /\ SortSeq(Labels(answer), <) = [i \in DOMAIN lines |-> i]
    /\ \A i \in DOMAIN answer :
        /\ answer[i].text # <<>>
        /\ \A n \in AllNames \ ToSet(Listed(lines)) : Spans(Bare(answer[i].text, Listed(lines)), n) = {}
        /\ \A k \in ToSet(answer[i].facts) :
            /\ Spans(answer[i].text, lines[k].object) # {}
            /\ Spans(UpTo(answer, i), lines[k].subject) # {}
            /\ YearsIn(answer[i].text, lines[k])

Valid(answer, lines) ==
    /\ answer # NoReply
    /\ IF style = "plain" THEN ValidPlain(answer, lines) ELSE ValidRich(answer, lines)

(***************************************************************************)
(* From an answer to a document.                                           *)
(***************************************************************************)

\* a name given to two entities is the last one's
Owner(order, name) ==
    LET i == CHOOSE k \in DOMAIN order :
                /\ name \in {order[k].subject, order[k].object}
                /\ \A x \in DOMAIN order :
                     x > k => name \notin {order[x].subject, order[x].object}
    IN  IF name = order[i].object THEN order[i].fact.object ELSE order[i].fact.subject

MentionsIn(text, offset, order) ==
    IF style = "rich"
    THEN {Mention(Owner(order, f.name), f.name, offset + f.at) :
            f \in Occurrences(text, Listed(order))}
    ELSE LET p == FindSpans(text, order[1].subject, order[1].object)
         IN  {Mention(order[1].fact.subject, order[1].subject, offset + p[1]),
              Mention(order[1].fact.object, order[1].object, offset + p[2])}

Rendered(answer, order) ==
    LET start(i) == MapThenSumSet(LAMBDA k : Len(answer[k].text) + 1, 1 .. i - 1)
    IN  [i \in DOMAIN answer |->
            Sentence(answer[i].text, start(i),
                     [k \in DOMAIN answer[i].facts |-> order[answer[i].facts[k]].fact],
                     MentionsIn(answer[i].text, start(i),
                                IF style = "rich" THEN order ELSE <<order[i]>>))]

(***************************************************************************)
(* A run: a pool of threads, one job each at a time.                       *)
(***************************************************************************)
Asking == {j \in Jobs : thread[j] \in {"looking", "calling", "storing"}}
Queued == {j \in Jobs : thread[j] = "queued"}

ByModel == style \in {"plain", "rich"} /\ jobs # <<>>

Goes(j, stage) == thread' = [thread EXCEPT ![j] = stage]

\* jobs are taken up in order
Take(j) ==
    /\ ByModel /\ j \in Queued /\ Cardinality(Asking) < Workers
    /\ \A i \in Queued : j <= i
    /\ Goes(j, "looking")
    /\ UNCHANGED <<orders, cache, reply, runs, paid>>

\* an answer that is not valid fails the thread; one that is is stored, also when it came from
\* the cache
Accept(j, answer) ==
    IF Valid(answer, PromptOf(j))
    THEN Goes(j, "storing") /\ reply' = [reply EXCEPT ![j] = answer]
    ELSE Goes(j, "rejected") /\ UNCHANGED reply

\* The cached reply, if there is one.  A file that another thread is writing may not be whole,
\* which raises.
LookUp(j) ==
    /\ ByModel /\ thread[j] = "looking"
    /\ \/ /\ cache[PromptOf(j)] # NoReply
          /\ Accept(j, cache[PromptOf(j)])
       \/ /\ cache[PromptOf(j)] = NoReply
          /\ Goes(j, "calling") /\ UNCHANGED reply
       \/ /\ \E i \in Jobs : thread[i] = "storing" /\ PromptOf(i) = PromptOf(j)
          /\ Goes(j, "rejected") /\ UNCHANGED reply
    /\ UNCHANGED <<orders, cache, runs, paid>>

\* the endpoint answers, or fails
Answer(j) ==
    /\ ByModel /\ thread[j] = "calling"
    /\ \E answer \in Replies \cup {NoReply} :
        /\ Accept(j, answer)
        /\ paid' = IF Valid(answer, PromptOf(j)) THEN [paid EXCEPT ![j] = Append(@, runs)] ELSE paid
    /\ UNCHANGED <<orders, cache, runs>>

\* a valid reply is kept, whatever the other threads do
KeepReply(j) ==
    /\ ByModel /\ thread[j] = "storing"
    /\ Goes(j, "written")
    /\ cache' = [cache EXCEPT ![PromptOf(j)] = reply[j]]
    /\ UNCHANGED <<orders, reply, runs, paid>>

\* the main thread takes results in order: the first failure cancels what has not started
Cancel ==
    /\ ByModel /\ Queued # {}
    /\ \E j \in Jobs : /\ thread[j] = "rejected"
                       /\ \A i \in 1 .. j - 1 : thread[i] = "written"
    /\ thread' = [j \in Jobs |-> IF j \in Queued THEN "cancelled" ELSE thread[j]]
    /\ UNCHANGED <<orders, cache, reply, runs, paid>>

RunIsOver == ByModel /\ Queued = {} /\ Asking = {}

\* every job was written: the documents
Deliver ==
    /\ RunIsOver /\ \A j \in Jobs : thread[j] = "written"
    /\ docs' = [j \in Jobs |->
                  LET sentences == Rendered(reply[j], orders[j])
                  IN  Document(AllJobs[j], sentences, Joined(sentences, Spaces(Len(sentences))))]
    /\ jobs' = <<>>
    /\ UNCHANGED <<style, draft>> /\ UNCHANGED llmVars

\* the run raised, and someone runs it again
Again ==
    /\ RunIsOver /\ \E j \in Jobs : thread[j] # "written"
    /\ runs < MaxRuns
    /\ runs' = runs + 1
    /\ thread' = [j \in Jobs |-> "queued"]
    /\ reply' = [j \in Jobs |-> NoReply]
    /\ UNCHANGED <<orders, cache, paid>>

WriteByModel ==
    \/ \E j \in Jobs : Take(j) /\ UNCHANGED documentVars
    \/ \E j \in Jobs : (LookUp(j) \/ Answer(j) \/ KeepReply(j)) /\ UNCHANGED documentVars
    \/ Cancel /\ UNCHANGED documentVars
    \/ Deliver
    \/ Again /\ UNCHANGED documentVars

LlmSpec == DocumentsInit /\ LlmInit /\ [][WriteByModel]_<<documentVars, llmVars>>
=============================================================================
