----------------------------- MODULE Prompting -----------------------------
(***************************************************************************)
(* What the AI layer sends and what it makes of the answer (services/ai):  *)
(* how mail is cut to size and fenced, which model answers and what the    *)
(* call costs, the reduction of a tool's schema for Gemini, the samples of *)
(* a writing style, the history a new message is composed from, and the    *)
(* stored translation.                                                     *)
(*                                                                         *)
(* Pure operators.  A text is its length where only that counts, and else  *)
(* the sequence of its tokens or lines.  An optional value is the set of   *)
(* its values, empty or with one member; a call that throws is empty too.  *)
(***************************************************************************)
LOCAL INSTANCE Naturals
LOCAL INSTANCE Sequences
LOCAL INSTANCE FiniteSets
LOCAL INSTANCE FiniteSetsExt
LOCAL INSTANCE SequencesExt
LOCAL INSTANCE Functions

Otherwise(value, default) == IF value = {} THEN default ELSE value
The(value) == CHOOSE x \in value : TRUE

(*************************** Mail as prompt text **************************)

MAX_BODY_CHARS == 12000
MAX_THREAD_CHARS == 40000
SUMMARY_MIN_MESSAGES == 3
SUMMARY_MIN_BODY_CHARS == 1500

\* The length of the line that says how many characters are missing.
Marker(missing) == 34 + Cardinality({k \in 0 .. 6 : 10^k <= missing})

truncateForPrompt(length, max) ==
    IF length <= max THEN length ELSE max + Marker(length - max)

\* The first text that exists counts, though it be empty.
promptBody(m) ==
    truncateForPrompt(
        The(Otherwise(m.bodyText, Otherwise(m.htmlText, Otherwise(m.snippet, {0})))),
        MAX_BODY_CHARS)

\* Text that is in the HTML part alone does not count here.
needsSummary(messages) ==
    \/ Len(messages) >= SUMMARY_MIN_MESSAGES
    \/ \E i \in DOMAIN messages :
          The(Otherwise(messages[i].bodyText, Otherwise(messages[i].snippet, {0})))
              > SUMMARY_MIN_BODY_CHARS

\* From the newest back, for as long as the next one fits; the newest whatever
\* its length.
threadForPrompt(messages) ==
    LET n == Len(messages)
        cost == [i \in 1 .. n |-> promptBody(messages[i])]
        Fits(i) == i = n \/ SumFunctionOnSet(cost, i .. n) <= MAX_THREAD_CHARS
    IN  IF n = 0 THEN <<>>
        ELSE SubSeq(messages, Min({i \in 1 .. n : Fits(i)}), n)

\* The tokens of a body: the brackets, a slash, a space, a name this layer uses
\* in its own tags, and any other word.  Where a tag begins at i, its ">":
TagEnd(s, i) ==
    LET Skip(j) == Min({k \in j .. Len(s) + 1 : k > Len(s) \/ s[k] # " "})
        after == Skip(i + 1)
        name == IF after <= Len(s) /\ s[after] = "/" THEN Skip(after + 1) ELSE after
        ends == {k \in name + 1 .. Len(s) : s[k] = ">"}
    IN  IF s[i] = "<" /\ name <= Len(s) /\ s[name] = "name" /\ ends # {}
        THEN {Min(ends)} ELSE {}

\* The brackets of such a tag, and those inside it, become entities.
neutralizeDelimiters(s) ==
    LET tagged == UNION {UNION {i .. k : k \in TagEnd(s, i)} : i \in DOMAIN s}
    IN  [p \in DOMAIN s |-> IF p \notin tagged THEN s[p]
                            ELSE CASE s[p] = "<" -> "&lt;" [] s[p] = ">" -> "&gt;"
                                   [] OTHER -> s[p]]

(***************************** The call ***********************************)

FEATURE_TIERS ==
    [classify |-> "fast", summarize |-> "standard", reply |-> "standard",
     compose |-> "standard", style |-> "standard", translate |-> "standard",
     threat |-> "standard", threatDeep |-> "deep"]
PROVIDER_MODELS ==
    [anthropic |-> [fast |-> "haiku", standard |-> "sonnet", deep |-> "opus"],
     gemini |-> [fast |-> "3.1-lite", standard |-> "3.5-lite", deep |-> "3.5-flash"]]
modelFor(feature, provider) == PROVIDER_MODELS[provider][FEATURE_TIERS[feature]]

MAX_OUTPUT_TOKENS ==
    [classify |-> 512, summarize |-> 2048, reply |-> 3072, compose |-> 1536,
     style |-> 1024, translate |-> 8192, threat |-> 768, threatDeep |-> 768]

\* What Gemini is allowed, whose reasoning is counted with its answer.
outputBudgetFor(maxOutputTokens) == Max({4096, 4 * maxOutputTokens})

\* Cents per million tokens: of input, output, reads and writes of the cache.
Priced(input, output, read, write) ==
    [input |-> input, output |-> output, read |-> read, write |-> write]
PRICING ==
    [model \in {"haiku", "sonnet", "opus"} \cup Range(PROVIDER_MODELS.gemini) |->
        CASE model = "haiku" -> Priced(100, 500, 10, 125)
          [] model = "sonnet" -> Priced(300, 1500, 30, 375)
          [] model = "opus" -> Priced(1500, 7500, 150, 1875)
          [] OTHER -> Priced(0, 0, 0, 0)]

\* Millionths of a dollar, to the nearest; floating point may take a half either
\* way.  A model without a price is recorded at none.
costUsd(model, tokens) ==
    LET p == PRICING[model]
        total == tokens.input * p.input + tokens.output * p.output
                 + tokens.read * p.read + tokens.write * p.write
        Near(c) == 2 * total <= 200 * c + 100 /\ 200 * c <= 2 * total + 100
    IN  IF model \notin DOMAIN PRICING THEN {0}
        ELSE {c \in {total \div 100, total \div 100 + 1} : Near(c)}

\* What each wire format reports of an answer: the arguments of the first call of
\* the tool that was asked for, never anything of the text beside it.
FirstCall(parts, tool) ==
    LET calls == SelectSeq(parts, LAMBDA part : part.kind = "call" /\ part.name = tool)
    IN  IF calls = <<>> THEN {} ELSE {Head(calls).args}
anthropicTransport(request, response) ==
    [toolInput |-> FirstCall(response.parts, request.tool),
     model |-> The(Otherwise(response.model, {request.model})),
     truncated |-> response.stopped = "max_tokens"]
geminiTransport(request, response) ==
    [toolInput |-> FirstCall(response.parts, request.tool),
     model |-> request.model,
     truncated |-> response.stopped = "MAX_TOKENS"]

\* In this order: refused without a call, failed in it, billed, then judged.
\* `answer` is empty when every attempt failed.
callStructured(aiEnabled, underCap, answer, Valid) ==
    LET usable(a) == ~a.truncated /\ a.toolInput # {} /\ a.toolInput \subseteq Valid
    IN  [asked |-> aiEnabled /\ underCap,
         billed |-> {a.model : a \in {x \in answer : aiEnabled /\ underCap}},
         data |-> UNION {a.toolInput : a \in {x \in answer : /\ aiEnabled /\ underCap
                                                             /\ usable(x)}}]

(*********************** A schema for Gemini ******************************)

GEMINI_TYPES == {"string", "number", "integer", "boolean", "array", "object"}
\* Of those that change which fields there are, the ones that can be met.
STRUCTURAL_KEYS == {"anyOf", "oneOf", "allOf", "$ref", "const"}

\* A node without a type is taken for a string.
typeOf(node) ==
    LET types == node.type \ {"null"}
    IN  IF node.type = {} THEN {"string"}
        ELSE {t \in types \cap GEMINI_TYPES : Cardinality(types) = 1}

RECURSIVE convert(_)
convert(node) ==
    LET fields == UNION {DOMAIN p : p \in node.properties}
        child == [f \in fields |-> convert(The(node.properties)[f])]
        item == UNION {convert(i) : i \in node.items}
        Expressible(type) ==
            /\ node.keys \cap STRUCTURAL_KEYS = {}
            /\ node.enum # {} => type = "string" /\ "null" \notin The(node.enum)
            /\ type = "object" => \A f \in fields : child[f] # {}
            /\ type = "array" => item # {}
    IN  {[type |-> type,
          nullable |-> "null" \in node.type,
          enum |-> node.enum,
          properties |-> IF type = "object" /\ node.properties # {}
                         THEN {[f \in fields |-> The(child[f])]} ELSE {},
          required |-> IF type = "object" THEN node.required ELSE {},
          items |-> IF type = "array" THEN item ELSE {}]
            : type \in {t \in typeOf(node) : Expressible(t)}}

toGeminiSchema(jsonSchema) == {s \in convert(jsonSchema) : s.type = "object"}

(*************************** A writing style ******************************)

STYLE_SAMPLE_SIZE == 30
STYLE_SCAN_SIZE == 150
STYLE_MIN_SAMPLES == 3
MIN_SAMPLE_CHARS == 40
STYLE_MAX_AGE == 30

\* The lines before the first that quotes or signs.
stripQuotedText(lines) ==
    LET own == {i \in DOMAIN lines : \A j \in 1 .. i : lines[j] \notin {"quote", "signature"}}
    IN  SubSeq(lines, 1, Cardinality(own))

\* Over the words of every sentence; what has one word is none.
averageSentenceLength(counts) ==
    LET sentences == {i \in DOMAIN counts : counts[i] >= 2}
        n == Cardinality(sentences)
    IN  IF n = 0 THEN 0 ELSE (2 * SumFunctionOnSet(counts, sentences) + n) \div (2 * n)

\* Sent rows, newest first, each the length of what the writer wrote in it.
toSamples(rows) ==
    LET scanned == SubSeq(rows, 1, Min({Len(rows), STYLE_SCAN_SIZE}))
        long == SelectSeq(scanned, LAMBDA own : own >= MIN_SAMPLE_CHARS)
    IN  SubSeq(long, 1, Min({Len(long), STYLE_SAMPLE_SIZE}))

\* The profile afterwards, and why no call was made.  A call that failed leaves
\* what is there.
buildWritingStyle(existing, rows, today, force, answered) ==
    LET fresh == ~force /\ \E e \in existing : /\ e.sampleCount >= STYLE_MIN_SAMPLES
                                               /\ today - e.updatedAt < STYLE_MAX_AGE
        samples == Len(toSamples(rows))
        built == [sampleCount |-> samples, updatedAt |-> today]
    IN  CASE fresh -> [style |-> existing, skipped |-> "fresh"]
          [] ~fresh /\ samples < STYLE_MIN_SAMPLES ->
                 [style |-> existing, skipped |-> "too-few-samples"]
          [] OTHER -> [style |-> IF answered THEN {built} ELSE existing, skipped |-> ""]

loadWritingStyle(existing) == {e \in existing : e.sampleCount >= STYLE_MIN_SAMPLES}

(************************ A new message's history *************************)

COMPOSE_CONTEXT_MESSAGES == 8

\* What the recipient wrote, and what went to an address that holds theirs: the
\* pairs of `Holds` are an address and a text it contains.  No two messages were
\* sent at once.
findCorrespondence(messages, recipient, Holds) ==
    LET with == {m \in messages :
                    /\ ~m.isDraft
                    /\ m.from = recipient \/ \E a \in m.to : <<a, recipient>> \in Holds}
        Later(m) == {x \in with : x.sentAt > m.sentAt}
        kept == {m \in with : Cardinality(Later(m)) < COMPOSE_CONTEXT_MESSAGES}
    IN  [i \in 1 .. Cardinality(kept) |->
            CHOOSE m \in kept : Cardinality(Later(m)) = Cardinality(kept) - i]

(***************************** A translation ******************************)

\* A tag is what it says and the case it is written in.
normalizeLang(tag) == [tag EXCEPT !.case = "lower"]

\* What was asked for, the default of the user's settings, or a refusal.
resolveTargetLang(requested, default) ==
    {normalizeLang(tag) : tag \in Otherwise(requested, default)}

\* `stored` is the row of the message and the language, if any.
translateMessage(message, tag, stored, answered) ==
    LET current == {r \in stored : r.contentHash = message.contentHash}
        ask == current = {} /\ message.body # 0
        row == [targetLang |-> normalizeLang(tag), contentHash |-> message.contentHash]
    IN  [asked |-> ask,
         stored |-> IF ask /\ answered THEN {row} ELSE stored,
         answer |-> IF ask /\ answered THEN {row} ELSE current]

\* The control shows an answer in the language that is selected.
TranslateControl(translation, lang) == {t \in translation : t.targetLang = lang}
=============================================================================
