------------------------------ MODULE LlmCache ------------------------------
(***************************************************************************)
(* LiteLLMClient: provider calls behind a cache of one file per key.  The  *)
(* consumer thread (coreference, KG-build) asks `structured`, the request  *)
(* threads (answer synthesis) and the bench's pools ask `complete`; they   *)
(* share the directory and take no lock.                                   *)
(*                                                                         *)
(* A file's content is a sequence of blocks.  Path.write_text truncates    *)
(* and then writes from its own file position, so two writers of one key   *)
(* overwrite each other block by block, and whoever dies in between leaves *)
(* what it had written.                                                    *)
(***************************************************************************)
EXTENDS Integers, Sequences

CONSTANTS
    Callers,        \* threads
    Keys,           \* cache keys: digests of model, prompt and parameters
    StructuredKeys, \* the keys of prompts that carry a schema
    Responses,      \* what a provider may answer
    Valid,          \* the answers that validate against their schema
    Blocks,         \* Responses -> how many blocks the text has
    Newlines,       \* Responses -> the same text with every "\r\n" and "\r" a "\n"
    MaxRetries,     \* extra attempts of `structured`
    Absent,         \* no file
    Hole,           \* the bytes a write past the end leaves in front of it
    MaxCalls, MaxFaults     \* bounds of a finite instance

ASSUME CacheAssumption ==
    /\ StructuredKeys \subseteq Keys
    /\ Valid \subseteq Responses
    /\ Blocks \in [Responses -> Nat]
    /\ Newlines \in [Responses -> Responses]
    /\ \A r \in Responses :
        Newlines[Newlines[r]] = Newlines[r] /\ Blocks[Newlines[r]] = Blocks[r]
    \* JSON takes either line end for white space
    /\ \A r \in Valid : Newlines[r] \in Valid
    /\ MaxRetries \in Nat
    /\ Hole \notin Responses
    /\ Absent \notin Seq(Responses \cup {Hole})
    /\ MaxCalls \in Nat /\ MaxFaults \in Nat

Content == Seq(Responses \cup {Hole})

\* the whole text of r
Text(r) == [i \in 1..Blocks[r] |-> r]

\* Path.read_text opens the file in text mode, which makes every line end a "\n"; write_text
\* writes a text's line ends as they are
ReadText(content) ==
    [i \in DOMAIN content |-> IF content[i] = Hole THEN Hole ELSE Newlines[content[i]]]

\* a text validates when it is one valid response, whole
Validates(c) == \E r \in Valid : c = Text(r)

VARIABLES
    file,           \* Keys -> content, or Absent
    caller,         \* what each thread is doing
    returned,       \* history: what was returned for each key
    spent           \* what was used of each bound

vars == <<file, caller, returned, spent>>

Idle == [pc |-> "idle"]

Call == [pc : {"calling"}, key : Keys, tries : 0..MaxRetries]
Write == [pc : {"open"}, key : Keys, text : Responses]
            \cup [pc : {"writing"}, key : Keys, text : Responses, next : Nat \ {0}]

TypeOK ==
    /\ file \in [Keys -> Content \cup {Absent}]
    /\ caller \in [Callers -> {Idle} \cup Call \cup Write]
    /\ returned \in [Keys -> SUBSET Content]
    /\ spent \in [calls : Nat, faults : Nat]

Init ==
    /\ file = [k \in Keys |-> Absent]
    /\ caller = [c \in Callers |-> Idle]
    /\ returned = [k \in Keys |-> {}]
    /\ spent = [calls |-> 0, faults |-> 0]

Goto(c, state) == caller' = [caller EXCEPT ![c] = state]

Begin(c) ==
    /\ caller[c] = Idle
    /\ spent.calls < MaxCalls
    /\ spent' = [spent EXCEPT !.calls = @ + 1]

Returns(k, content) == returned' = [returned EXCEPT ![k] = @ \cup {content}]

\* `complete` returns whatever the file holds, as it is read
Hit(c, k) ==
    /\ Begin(c)
    /\ k \notin StructuredKeys
    /\ file[k] # Absent
    /\ Returns(k, ReadText(file[k]))
    /\ UNCHANGED <<file, caller>>

\* Wrong on purpose: the stored text is trusted.
TrustHit(c, k) ==
    /\ Begin(c)
    /\ k \in StructuredKeys
    /\ file[k] # Absent
    /\ Returns(k, ReadText(file[k]))
    /\ UNCHANGED <<file, caller>>

\* `structured` validates what the file holds, and raises when it does not
\* validate; it does not ask the provider
StructuredHit(c, k) ==
    /\ Begin(c)
    /\ k \in StructuredKeys
    /\ file[k] # Absent
    /\ LET text == ReadText(file[k])
       IN  IF Validates(text) THEN Returns(k, text) ELSE UNCHANGED returned
    /\ UNCHANGED <<file, caller>>

\* Wrong on purpose: the provider is asked whatever the cache holds.
MissAlways(c, k) ==
    /\ Begin(c)
    /\ Goto(c, [pc |-> "calling", key |-> k, tries |-> 0])
    /\ UNCHANGED <<file, returned>>

Miss(c, k) ==
    /\ Begin(c)
    /\ file[k] = Absent
    /\ Goto(c, [pc |-> "calling", key |-> k, tries |-> 0])
    /\ UNCHANGED <<file, returned>>

Accepts(k, r) == k \in StructuredKeys => r \in Valid

\* Wrong on purpose: an answer is cached before it is validated.
AnsweredUnchecked(c) ==
    /\ caller[c].pc = "calling"
    /\ \E r \in Responses :
        Goto(c, [pc |-> "open", key |-> caller[c].key, text |-> r])
    /\ UNCHANGED <<file, returned, spent>>

\* What whoever asked the provider returns: the text itself, or the instance parsed from it,
\* which stands here for all texts that differ in their line ends.
Outcome(k, r) == IF k \in StructuredKeys THEN ReadText(Text(r)) ELSE Text(r)

\* Wrong on purpose: an answer is returned and not cached.
AnsweredUncached(c) ==
    /\ caller[c].pc = "calling"
    /\ \E r \in Responses :
        /\ Accepts(caller[c].key, r)
        /\ Returns(caller[c].key, Outcome(caller[c].key, r))
    /\ Goto(c, Idle)
    /\ UNCHANGED <<file, spent>>

\* the provider answers something the caller keeps
Answered(c) ==
    /\ caller[c].pc = "calling"
    /\ \E r \in Responses :
        /\ Accepts(caller[c].key, r)
        /\ Goto(c, [pc |-> "open", key |-> caller[c].key, text |-> r])
    /\ UNCHANGED <<file, returned, spent>>

\* Wrong on purpose: no attempt is counted.
MalformedForever(c) ==
    /\ caller[c].pc = "calling"
    /\ caller[c].key \in StructuredKeys
    /\ Responses # Valid
    /\ Goto(c, [caller[c] EXCEPT !.tries = 1 - @])
    /\ UNCHANGED <<file, returned, spent>>

\* a malformed answer to `structured`: ask again, or raise when the budget is spent
Malformed(c) ==
    /\ caller[c].pc = "calling"
    /\ caller[c].key \in StructuredKeys
    /\ Responses # Valid
    /\ Goto(c, IF caller[c].tries < MaxRetries
                 THEN [caller[c] EXCEPT !.tries = @ + 1]
                 ELSE Idle)
    /\ UNCHANGED <<file, returned, spent>>

\* write_text opens the file for writing, which truncates it
Open(c) ==
    /\ caller[c].pc = "open"
    /\ file' = [file EXCEPT ![caller[c].key] = <<>>]
    /\ Goto(c, [pc |-> "writing", key |-> caller[c].key, text |-> caller[c].text, next |-> 1])
    /\ UNCHANGED <<returned, spent>>

\* block i of a content becomes x; what the write skips reads as a hole
Put(content, i, x) ==
    [j \in 1 .. (IF i > Len(content) THEN i ELSE Len(content)) |->
        CASE j = i -> x
          [] j # i /\ j <= Len(content) -> content[j]
          [] OTHER -> Hole]

WriteBlock(c) ==
    /\ caller[c].pc = "writing"
    /\ caller[c].next <= Blocks[caller[c].text]
    /\ LET k == caller[c].key
       IN  file' = [file EXCEPT ![k] = Put(file[k], caller[c].next, caller[c].text)]
    /\ caller' = [caller EXCEPT ![c].next = @ + 1]
    /\ UNCHANGED <<returned, spent>>

Return(c) ==
    /\ caller[c].pc = "writing"
    /\ caller[c].next > Blocks[caller[c].text]
    /\ Returns(caller[c].key, Outcome(caller[c].key, caller[c].text))
    /\ Goto(c, Idle)
    /\ UNCHANGED <<file, spent>>

Fault ==
    /\ spent.faults < MaxFaults
    /\ spent' = [spent EXCEPT !.faults = @ + 1]
    /\ UNCHANGED <<file, returned>>

\* the provider raises, which nothing retries, or the disk does
Raise(c) ==
    /\ Fault
    /\ caller[c] # Idle
    /\ Goto(c, Idle)

\* the process dies
Crash ==
    /\ Fault
    /\ caller' = [c \in Callers |-> Idle]

Proceed(c) ==
    Answered(c) \/ Malformed(c) \/ Open(c) \/ WriteBlock(c) \/ Return(c)

Next ==
    \/ \E c \in Callers, k \in Keys : Hit(c, k) \/ StructuredHit(c, k) \/ Miss(c, k)
    \/ \E c \in Callers : Proceed(c) \/ Raise(c)
    \/ Crash

Spec == Init /\ [][Next]_vars

\* a thread goes on with the call it is in
Fairness == \A c \in Callers : WF_vars(Proceed(c))

FairSpec == Spec /\ Fairness

(***************************************************************************)
(* The environment the tests run in: no two threads ask one key at once,   *)
(* and nothing dies while a file is being written.                         *)
(***************************************************************************)
Busy(k) == \E c \in Callers : caller[c] # Idle /\ caller[c].key = k

Writing(c) == caller[c].pc = "writing"

SerialNext ==
    \/ \E c \in Callers, k \in Keys :
        /\ ~Busy(k)
        /\ Hit(c, k) \/ StructuredHit(c, k) \/ Miss(c, k)
    \/ \E c \in Callers : Proceed(c)
    \/ \E c \in Callers : ~Writing(c) /\ Raise(c)
    \/ (\A c \in Callers : ~Writing(c)) /\ Crash

SerialSpec == Init /\ [][SerialNext]_vars

(***************************************************************************)
(* What the response cache promises, under every interleaving and crash    *)
(* (Spec) and under one caller per key (SerialSpec).                       *)
(***************************************************************************)

\* Whatever threads and crashes make of its file, `structured` never returns a text that
\* does not validate: a hit is validated again.
OnlyValidIsReturned ==
    \A k \in StructuredKeys : \A x \in returned[k] : Validates(x)

\* Once anyone got an answer for a key, no later call asks the provider for it: repeated
\* runs cost nothing, also after crashes.
PaidOnce ==
    [][\A c \in Callers, k \in Keys :
        (caller[c] = Idle /\ caller'[c] # Idle /\ caller'[c].key = k) => returned[k] = {}]_vars

\* A file that nobody is writing holds one whole answer, valid if the prompt had a schema.
FilesAreWhole ==
    \A k \in Keys : ~Busy(k) =>
        \/ file[k] = Absent
        \/ \E r \in Responses : Accepts(k, r) /\ file[k] = Text(r)

\* Everyone who asks a key gets the same answer, whatever the provider would say today: the
\* same instance of a schema, and of a plain prompt the same text up to its line ends, which
\* the one who paid gets as the provider sent them and later callers as read_text reads them.
Repeatable ==
    \A k \in Keys : \A x, y \in returned[k] :
        IF k \in StructuredKeys THEN x = y ELSE ReadText(x) = ReadText(y)

\* Once nobody is in a call for a key that has a file, its answer is settled, whatever the
\* threads that missed together and those that died made of it: no later call asks the
\* provider or changes the file, and all of them get one and the same text, or raise.
AnswersSettle ==
    [][\A k \in Keys : ~Busy(k) /\ file[k] # Absent =>
        /\ ~Busy(k)' /\ file'[k] = file[k]
        /\ returned'[k] \subseteq returned[k] \cup {ReadText(file[k])}]_vars

\* No call goes on for ever, however often the provider answers something malformed.
CallsEnd == \A c \in Callers : caller[c] # Idle ~> caller[c] = Idle
=============================================================================
