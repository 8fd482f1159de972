---------------------------- MODULE MCPrompting ----------------------------
(***************************************************************************)
(* What holds of the AI layer's pure functions, over small and over        *)
(* realistic inputs, and what does not though a comment says so.           *)
(***************************************************************************)
EXTENDS Prompting
LOCAL INSTANCE Naturals
LOCAL INSTANCE Sequences
LOCAL INSTANCE FiniteSets
LOCAL INSTANCE FiniteSetsExt
LOCAL INSTANCE Functions

(*************************** Mail as prompt text **************************)

Body(text, html, snippet) == [bodyText |-> text, htmlText |-> html, snippet |-> snippet]
Lengths == {0, 500, 11999, 12000, 12001, 15000, 1000000}
Bodies == {Body({n}, {}, {}) : n \in Lengths}
Threads == UNION {[1 .. k -> Bodies] : k \in 0 .. 4} \cup
           {[i \in 1 .. 6 |-> IF i = 6 THEN last ELSE rest] : last, rest \in Bodies}

\* A prompt holds the newest messages without a gap, never more of them than fit,
\* and one more would not have fitted.
ASSUME ThreadsKeepTheirEnd ==
    \A thread \in Threads :
        LET kept == threadForPrompt(thread)
            first == Len(thread) - Len(kept) + 1
            Cost(from) == SumFunction([i \in from .. Len(thread) |-> promptBody(thread[i])])
        IN  /\ kept = SubSeq(thread, first, Len(thread))
            /\ thread # <<>> => kept # <<>>
            /\ kept # <<>> => Cost(first) <= MAX_THREAD_CHARS
            /\ first > 1 => Cost(first - 1) > MAX_THREAD_CHARS

\* Cutting a text that is a little too long makes it longer.
ASSUME CutsMayLengthen ==
    \E n \in Lengths : truncateForPrompt(n, MAX_BODY_CHARS) > n

\* A body of no text, such as one image leaves, hides the snippet that is the last
\* resort for a message without a body; and a long mail in HTML alone, stored
\* before its text was, is not worth a summary.
ASSUME EmptyTextHidesSnippet == promptBody(Body({0}, {}, {90})) = 0
ASSUME HtmlIsNotCounted ==
    /\ promptBody(Body({}, {9000}, {90})) = 9000
    /\ ~needsSummary(<<Body({}, {9000}, {90})>>)
    /\ needsSummary(<<Body({9000}, {}, {})>>)

Tokens == {"<", ">", "/", " ", "name", "word"}
Contents == UNION {[1 .. n -> Tokens] : n \in 0 .. 6}

\* No tag of this layer is left in a text, what was none stays as it was, and
\* a text that went through once goes through again unchanged.
ASSUME NoTagIsLeft ==
    \A content \in Contents :
        LET safe == neutralizeDelimiters(content) IN
        /\ \A i \in DOMAIN safe : TagEnd(safe, i) = {}
        /\ (\A i \in DOMAIN content : TagEnd(content, i) = {}) => safe = content
        /\ \A i \in DOMAIN safe : content[i] \notin {"<", ">"} => safe[i] = content[i]

(***************************** The call ***********************************)

Providers == {"anthropic", "gemini"}
Features == DOMAIN FEATURE_TIERS
Used(input, output, read, write) ==
    [input |-> input, output |-> output, read |-> read, write |-> write]

\* Every feature has a model with a price and a ceiling, on either provider; what
\* Gemini may use leaves the whole ceiling to the answer and three times that to
\* the reasoning; and a dearer tier is never the cheaper one for the same work.
ASSUME EveryFeatureIsRouted ==
    \A f \in Features, p \in Providers :
        /\ modelFor(f, p) \in DOMAIN PRICING
        /\ outputBudgetFor(MAX_OUTPUT_TOKENS[f]) - MAX_OUTPUT_TOKENS[f]
               >= 3 * MAX_OUTPUT_TOKENS[f]
        /\ \A g \in Features, k \in DOMAIN PRICING["haiku"] :
               (FEATURE_TIERS[f] = "fast" /\ FEATURE_TIERS[g] = "deep") =>
                   PRICING[modelFor(f, p)][k] <= PRICING[modelFor(g, p)][k]

\* A call with an answer of one token is not recorded as free on a model that has
\* a price; a prompt that comes out of the cache alone may be.
ASSUME AnswersAreNotFree ==
    \A f \in Features, i, r, w \in {0, 1, 7, 1000} : \A o \in {1, 12, 512} :
        0 \notin costUsd(modelFor(f, "anthropic"), Used(i, o, r, w))
ASSUME ACachedReadMayBe == 0 \in costUsd("haiku", Used(0, 0, 4, 0))

\* What the ledger adds up differs from the sum by half a millionth a call at most.
ASSUME LedgerIsClose ==
    \A m \in {"haiku", "sonnet", "opus"}, a, b \in {1, 3, 7, 13} :
        \A x \in costUsd(m, Used(a, a, b, b)), y \in costUsd(m, Used(b, a, a, b)) :
            \A z \in costUsd(m, Used(a + b, 2 * a, a + b, 2 * b)) :
                x + y \in {z - 1, z, z + 1}

Call(name, args) == [kind |-> "call", name |-> name, args |-> args]
Prose == [kind |-> "text", name |-> "", args |-> ""]
Answers ==
    {[parts |-> parts, model |-> m, stopped |-> s] :
        parts \in {<<>>, <<Prose>>, <<Call("other", "good")>>, <<Call("tool", "bad")>>,
                   <<Prose, Call("tool", "good")>>,
                   <<Call("tool", "bad"), Call("tool", "good")>>},
        m \in {{}, {"haiku"}}, s \in {"end", "max_tokens", "MAX_TOKENS"}}
Ordered == [tool |-> "tool", model |-> "sonnet"]
Outcomes ==
    {callStructured(on, cap, answer, {"good"}) : on, cap \in BOOLEAN,
        answer \in {{}} \cup {{anthropicTransport(Ordered, a)} : a \in Answers}
                       \cup {{geminiTransport(Ordered, a)} : a \in Answers}}

\* Nothing is used that was not paid for, and nothing paid for that was not asked;
\* an answer may be paid for and not be usable.
ASSUME PaidBeforeJudged ==
    /\ \A o \in Outcomes : /\ o.data # {} => o.billed # {}
                           /\ o.billed # {} => o.asked
                           /\ o.data \subseteq {"good"}
    /\ \E o \in Outcomes : o.billed # {} /\ o.data = {}

(*********************** A schema for Gemini ******************************)

Node(keys, type, enum, properties, required, items) ==
    [keys |-> keys, type |-> type, enum |-> enum, properties |-> properties,
     required |-> required, items |-> items]
Typed(type) == Node({}, type, {}, {}, {}, {})
Leaves == {Typed({"string"}), Typed({"string", "null"}), Typed({}), Typed({"null"}),
           Typed({"string", "integer"}), Node({"maximum"}, {"integer"}, {}, {}, {}, {}),
           Node({"anyOf"}, {"string"}, {}, {}, {}, {}),
           Node({}, {"string"}, {{"a", "b"}}, {}, {}, {}),
           Node({}, {"integer"}, {{"a"}}, {}, {}, {}),
           Node({}, {"string", "null"}, {{"a", "null"}}, {}, {}, {})}
Object(type, fields, required) == Node({}, type, {}, {fields}, {required}, {})
Flat == {Object(t, [x |-> a, y |-> b], r) :
            t \in {{"object"}, {}}, a, b \in Leaves, r \in {{}, {"x"}, {"x", "y"}}}
Schemas == Flat \cup {Node({}, {"array"}, {}, {}, {}, i) : i \in {{}} \cup {{n} : n \in Leaves}}
           \cup {Object({"object"}, [z |-> f], {"z"}) : f \in Flat}

RECURSIVE SameFields(_, _)
SameFields(node, out) ==
    /\ node.type # {} => out.type \in node.type
    /\ out.nullable <=> "null" \in node.type
    /\ out.required = node.required
    /\ out.enum = node.enum
    /\ UNION {DOMAIN p : p \in node.properties} = UNION {DOMAIN p : p \in out.properties}
    /\ \A p \in out.properties : \A f \in DOMAIN p : SameFields(The(node.properties)[f], p[f])

RECURSIVE TypelessAreLeaves(_)
TypelessAreLeaves(node) ==
    /\ node.type = {} => node.properties = {}
    /\ \A p \in node.properties : \A f \in DOMAIN p : TypelessAreLeaves(p[f])

\* A declaration has the fields of the schema at every depth, with the same ones
\* required and the same choices, or there is none, provided that what has no type
\* has no fields.
ASSUME DeclarationsKeepFields ==
    \A schema \in Schemas : TypelessAreLeaves(schema) =>
        \A s \in toGeminiSchema(schema) : SameFields(schema, s)

\* Without that proviso fields are lost without a word.
ASSUME TypelessRecordsLoseTheirs ==
    \E schema \in Schemas : \E s \in toGeminiSchema(schema) : ~SameFields(schema, s)

(*************************** A writing style ******************************)

Lines == UNION {[1 .. n -> {"own", "quote", "signature"}] : n \in 0 .. 5}
ASSUME OwnWordsOnly ==
    \A lines \in Lines :
        LET own == stripQuotedText(lines)
        IN  /\ Range(own) \subseteq {"own"}
            /\ own # lines => lines[Len(own) + 1] # "own"

ASSUME SentencesAverage ==
    /\ averageSentenceLength(<<1, 1>>) = 0
    /\ averageSentenceLength(<<1, 4, 7>>) = 6
    /\ \A a, b \in 2 .. 9 : averageSentenceLength(<<a, b>>) \in Min({a, b}) .. Max({a, b})

Written(every, n) == [i \in 1 .. n |-> IF i % every = 0 THEN 60 ELSE 10]
Profiles == {{}} \cup {{[sampleCount |-> s, updatedAt |-> t]} : s \in {2, 3, 30}, t \in {0, 40}}

\* A profile that is used was made of enough samples, a fresh one is asked for
\* again only by force, and a build never loses one.
ASSUME ProfilesAreFounded ==
    \A p \in Profiles, n \in {0, 2, 3, 40, 200}, every \in {1, 2, 60}, force, ok \in BOOLEAN :
        LET built == buildWritingStyle(p, Written(every, n), 45, force, ok) IN
        /\ \A e \in built.style : e \notin p => e.sampleCount \in STYLE_MIN_SAMPLES .. STYLE_SAMPLE_SIZE
        /\ built.style = {} => p = {}
        /\ built.skipped # "" => built.style = p
        /\ (force \/ loadWritingStyle(p) = {}) => built.skipped # "fresh"

\* An old profile stays in use when there is too little mail for a new one.
ASSUME OldProfilesStay ==
    \E p \in Profiles : LET built == buildWritingStyle(p, <<>>, 45, FALSE, TRUE)
                        IN  built.skipped = "too-few-samples" /\ loadWritingStyle(built.style) # {}

(************************ A new message's history *************************)

Exchanged(from, to, at, draft) == [from |-> from, to |-> to, sentAt |-> at, isDraft |-> draft]
Addresses == {"ann", "joann", "me"}
Containing == {<<a, a>> : a \in Addresses} \cup {<<"joann", "ann">>}
Exchanges == {{Exchanged(f, t, 1, FALSE), Exchanged(g, u, 2, d)} :
                 f, g \in Addresses, t, u \in {{"ann"}, {"joann"}, {"me", "joann"}},
                 d \in BOOLEAN}

\* The history is in order and is the newest of what there is: nothing the
\* recipient wrote, or was written, is left out for something older.
ASSUME HistoryIsTheNewest ==
    /\ \A mail \in Exchanges :
           LET found == findCorrespondence(mail, "ann", Containing)
           IN  /\ \A i, j \in DOMAIN found : i < j => found[i].sentAt < found[j].sentAt
               /\ \A m \in mail : (m.from = "ann" \/ "ann" \in m.to) /\ ~m.isDraft
                                      => m \in Range(found)
    /\ LET many == {Exchanged("ann", {"me"}, t, FALSE) : t \in 1 .. 12}
           found == findCorrespondence(many, "ann", Containing)
       IN  [i \in DOMAIN found |-> found[i].sentAt] = [i \in 1 .. 8 |-> i + 4]

\* Mail to an address that ends with the recipient's comes with it.
ASSUME OthersSlipIn ==
    \E mail \in Exchanges : \E m \in Range(findCorrespondence(mail, "ann", Containing)) :
        m.from # "ann" /\ "ann" \notin m.to

(***************************** A translation ******************************)

Tag(text, case) == [text |-> text, case |-> case]
Tags == {Tag(t, c) : t \in {"fr", "pt-br"}, c \in {"lower", "mixed"}}
Read(hash, body) == [contentHash |-> hash, body |-> body]

\* The second reader of a text pays nothing, however the language is spelt; after
\* the body changed the old translation is not shown and the new one replaces it.
ASSUME TranslationsFollowTheText ==
    \A tag, again \in Tags : tag.text = again.text =>
        LET first == translateMessage(Read("h1", 9), tag, {}, TRUE)
            second == translateMessage(Read("h1", 9), again, first.stored, TRUE)
            corrected == translateMessage(Read("h2", 9), again, second.stored, TRUE)
            failed == translateMessage(Read("h2", 9), again, second.stored, FALSE)
        IN  /\ first.asked /\ ~second.asked /\ second.answer = first.answer
            /\ corrected.asked /\ corrected.stored = corrected.answer
            /\ \A r \in corrected.stored : r.contentHash = "h2"
            /\ failed.answer = {}

\* The control shows what it was given when the language is in lower case, and
\* never shows it, paid for or not, when a default is not.
ASSUME MixedCaseIsNeverShown ==
    \A tag \in Tags :
        LET got == translateMessage(Read("h1", 9), tag, {}, TRUE).answer
        IN  TranslateControl(got, tag) # {} <=> tag.case = "lower"

ASSUME LanguagesAreChosen ==
    \A asked, default \in {{}} \cup {{t} : t \in Tags} :
        LET lang == resolveTargetLang(asked, default)
        IN  /\ lang = {} <=> asked = {} /\ default = {}
            /\ \A t \in lang : t.case = "lower"
=============================================================================
