------------------------------ MODULE Evidence ------------------------------
(* Where the findings of a message come from (apps/api/src/services/security: *)
(* urls, headers, contacts): what is one party, which domain imitates which,   *)
(* what the links say, whom the mailbox knows.  A host is a sequence of       *)
(* labels, a label a sequence of characters.                                  *)
EXTENDS Verdict, Integers, FiniteSets
LOCAL INSTANCE SequencesExt

None == <<>>              \* null: no such domain

(* -------------------------------- parties -------------------------------- *)

Digit == [d \in {"0", "1", "2", "5", "9"} |->
            CASE d = "0" -> 0 [] d = "1" -> 1 [] d = "2" -> 2 [] d = "5" -> 5 [] d = "9" -> 9]

\* A part of a dotted quad: at most three digits, at most 255.
Octet(label) ==
  /\ Len(label) \in 1..3 /\ \A i \in DOMAIN label : label[i] \in DOMAIN Digit
  /\ FoldLeft(LAMBDA n, d : 10 * n + Digit[d], 0, label) <= 255

Bracketed(host) ==
  LET all == FlattenSeq(host)
  IN  all # <<>> /\ all[1] = "[" /\ all[Len(all)] = "]"

IsRawIpHost(host) ==
  Bracketed(host) \/ (Len(host) = 4 /\ \A i \in 1..4 : Octet(host[i]))

IsPunycodeHost(host) == \E i \in DOMAIN host : IsPrefix(<<"x", "n", "-", "-">>, host[i])

\* The suffixes that two labels make: a sample of the list.
MultiLabelSuffixes == {<<<<"c", "o">>, <<"u", "k">>>>, <<<<"c", "o", "m">>, <<"a", "u">>>>}

LastOf(s, n) == SubSeq(s, Len(s) - n + 1, Len(s))

\* The part of a host that a person can buy: two hosts are one party when it is one.
RegistrableDomain(host) ==
  IF host = None THEN None
  ELSE IF IsRawIpHost(host) THEN host
  ELSE LET labels == SelectSeq(host, LAMBDA l : l # <<>>)
           take == IF Len(labels) > 2 /\ LastOf(labels, 2) \in MultiLabelSuffixes
                   THEN 3 ELSE 2
       IN  IF labels = <<>> THEN None
           ELSE IF Len(labels) <= take THEN labels ELSE LastOf(labels, take)

(* ------------------------------- lookalikes ------------------------------ *)

\* Characters that read as another: a sample of the table, one for one.
Confusables ==
  [c \in {"0", "1", "5", "cyrillic a", "greek o"} |->
     CASE c = "0" -> "o" [] c = "1" -> "l" [] c = "5" -> "s"
       [] c = "cyrillic a" -> "a" [] c = "greek o" -> "o"]

\* A host as one word, its labels joined by dots.
Spelled(host) ==
  FlattenSeq([i \in DOMAIN host |-> IF i = 1 THEN host[1] ELSE <<".">> \o host[i]])

Unhyphenated(word) == SelectSeq(word, LAMBDA c : c # "-")

\* The shape a hurried reader sees.
NormalizeHomoglyphs(word) ==
  Unhyphenated([i \in DOMAIN word |->
                  IF word[i] \in DOMAIN Confusables THEN Confusables[word[i]] ELSE word[i]])

Least(S) == CHOOSE n \in S : \A m \in S : n <= m

\* One row of the table of distances, from the row above it: the distances from
\* a prefix of one word, which ends with the letter c, to every prefix of b.
NextRow(previous, i, c, b) ==
  FoldLeft(LAMBDA row, j :
             Append(row, Least({previous[j + 1] + 1, row[j] + 1,
                                previous[j] + (IF c = b[j] THEN 0 ELSE 1)})),
           <<i>>, [j \in DOMAIN b |-> j])

\* The distance of two words, or max + 1 as soon as it is known to be above max.
Levenshtein(a, b, max) ==
  IF a = b THEN 0
  ELSE IF Len(a) - Len(b) > max \/ Len(b) - Len(a) > max THEN max + 1
  ELSE LET Step(state, i) ==
             IF state.far THEN state
             ELSE LET row == NextRow(state.row, i, a[i], b)
                  IN  [row |-> row, far |-> Least(Range(row)) > max]
           end == FoldLeft(Step, [row |-> [j \in 1..Len(b) + 1 |-> j - 1], far |-> FALSE],
                           [i \in DOMAIN a |-> i])
       IN  IF end.far THEN max + 1 ELSE end.row[Len(b) + 1]

MIN_COMPARABLE_LENGTH == 5
MaxLookalikeDistance(length) == IF length >= 12 THEN 2 ELSE 1
Longer(m, n) == IF m >= n THEN m ELSE n

\* What a word is to the candidate: its twin at distance 0, near it, or neither.
Distance(word, candidate) ==
  LET a == NormalizeHomoglyphs(word)
      b == NormalizeHomoglyphs(candidate)
  IN  Levenshtein(a, b, MaxLookalikeDistance(Longer(Len(a), Len(b))))

Within(word, candidate) ==
  Distance(word, candidate)
    <= MaxLookalikeDistance(Longer(Len(NormalizeHomoglyphs(word)),
                                   Len(NormalizeHomoglyphs(candidate))))

\* The known domains a domain may imitate, by their place in the order they are
\* tried in: the first twin ends the search, else the first of the nearest wins.
Resembled(word, known) ==
  {i \in DOMAIN known :
     Len(known[i]) >= MIN_COMPARABLE_LENGTH /\ Within(word, known[i])}

\* A domain the user corresponds with imitates nobody.
Imitates(word, known) ==
  /\ Len(word) >= MIN_COMPARABLE_LENGTH /\ word \notin Range(known)
  /\ Resembled(word, known) # {}

\* Whom a domain that imitates one is taken for, and how.
LookalikeOf(word, known) ==
  LET first == CHOOSE i \in Resembled(word, known) :
                 \A j \in Resembled(word, known) :
                   \/ Distance(word, known[i]) < Distance(word, known[j])
                   \/ Distance(word, known[i]) = Distance(word, known[j]) /\ i <= j
      far == Distance(word, known[first])
  IN  [resembles |-> known[first], distance |-> far,
       viaHomoglyphs |-> far = 0 \/ NormalizeHomoglyphs(word) # Unhyphenated(word)]

(* --------------------------------- links --------------------------------- *)

\* A link's host and the host its text claims, None when it is not an http link
\* or claims nothing.  Every finding is kept once for a host.
UrlSignals(links, known) ==
  LET hosts == {l.host : l \in links} \ {None}
      named == {h \in hosts : ~IsRawIpHost(h)}
      Party(h) == Spelled(RegistrableDomain(h))
  IN  [rawIpHosts |-> Cardinality({h \in hosts : IsRawIpHost(h)}),
       punycodeHosts |-> Cardinality({h \in hosts : IsPunycodeHost(h)}),
       lookalikeHosts |->
         Cardinality({d \in {Party(h) : h \in named} : Imitates(d, known)}),
       displayMismatches |->
         Cardinality({l \in links :
                        /\ l.host # None /\ l.claimed # None
                        /\ RegistrableDomain(l.claimed) # None
                        /\ RegistrableDomain(l.host) # None
                        /\ RegistrableDomain(l.claimed) # RegistrableDomain(l.host)})]

(* -------------------------------- headers -------------------------------- *)

\* What is stored of the headers; anything unreadable reads as nothing found.
ParseStored(auth) ==
  LET Read(v) == IF v \in AuthVerdict THEN v ELSE NoResult
  IN  [spf |-> Read(auth.spf), dkim |-> Read(auth.dkim), dmarc |-> Read(auth.dmarc),
       returnPath |-> auth.returnPath,
       displayNameMismatch |-> auth.displayNameMismatch = "true"]

\* The parties of a message compared; an unknown one is neither aligned nor not.
HeaderSignals(auth, from, replyTo) ==
  LET stored == ParseStored(auth)
      fromDomain == RegistrableDomain(from)
      replyToDomain == RegistrableDomain(replyTo)
      returnPathDomain == RegistrableDomain(stored.returnPath)
  IN  [spf |-> stored.spf, dkim |-> stored.dkim, dmarc |-> stored.dmarc,
       displayNameMismatch |-> stored.displayNameMismatch,
       replyToDiffers |->
         /\ replyToDomain # None /\ fromDomain # None /\ replyToDomain # fromDomain,
       returnPathAligned |->
         IF returnPathDomain = None \/ fromDomain = None THEN "unknown"
         ELSE IF returnPathDomain = fromDomain THEN "yes" ELSE "no"]

(* -------------------------------- contacts ------------------------------- *)

INBOUND_FAMILIARITY_THRESHOLD == 3

SumOf(rows) == FoldLeft(LAMBDA n, r : n + r.n, 0, rows)

Counted(rows, domain, outbound) ==
  SumOf(SelectSeq(rows, LAMBDA r :
    RegistrableDomain(r.domain) = domain /\ r.outbound = outbound))

Parties(rows) == {RegistrableDomain(rows[i].domain) : i \in DOMAIN rows} \ {None}

Familiar(rows, d) ==
  \/ Counted(rows, d, TRUE) > 0
  \/ Counted(rows, d, FALSE) >= INBOUND_FAMILIARITY_THRESHOLD

Standing(rows, d) == 3 * Counted(rows, d, TRUE) + Counted(rows, d, FALSE)

FirstRow(rows, d) == Least({i \in DOMAIN rows : RegistrableDomain(rows[i].domain) = d})

\* The domains the user corresponds with, the best known first, at most max.
FoldDomains(rows, max) ==
  LET Before(a, b) ==
        \/ Standing(rows, a) > Standing(rows, b)
        \/ Standing(rows, a) = Standing(rows, b) /\ FirstRow(rows, a) <= FirstRow(rows, b)
      sorted == SetToSortSeq({d \in Parties(rows) : Familiar(rows, d)}, Before)
      kept == IF Len(sorted) > max THEN max ELSE Len(sorted)
  IN  [i \in 1..kept |-> Spelled(sorted[i])]

MAX_KNOWN_DOMAINS == 500
KNOWN_DOMAINS_TTL == 15   \* minutes

\* One row for each domain written to, for each domain of the user's own, and for
\* each domain heard from, with how often it occurs in the mailbox as it is stored.
QueryDomains(mailbox, own) ==
  LET sent == {m \in mailbox : m.isOutbound}
      heard == mailbox \ sent
      Row(d, n, outbound) == [domain |-> d, n |-> n, outbound |-> outbound]
      To(d) == UNION {{<<m, i>> : i \in {k \in DOMAIN m.to : m.to[k] = d}} : m \in sent}
  IN  SetToSeq({Row(d, Cardinality(To(d)), TRUE) : d \in UNION {Range(m.to) : m \in sent}})
        \o SetToSeq({Row(d, 1, TRUE) : d \in own})
        \o SetToSeq({Row(d, Cardinality({m \in heard : m.from = d}), FALSE) :
                       d \in {m.from : m \in heard} \ {None}})

\* A set computed lately is reused, a query that fails is an empty set for this
\* message and is not remembered.  rows is <<>> of a failed query.
KnownDomains(cache, now, failed, rows) ==
  IF cache.expiresAt > now THEN [domains |-> cache.domains, cache |-> cache]
  ELSE IF failed THEN [domains |-> <<>>, cache |-> cache]
  ELSE LET domains == FoldDomains(rows, MAX_KNOWN_DOMAINS)
       IN  [domains |-> domains,
            cache |-> [domains |-> domains, expiresAt |-> now + KNOWN_DOMAINS_TTL]]

\* How many messages of this sender the mailbox has from before this one.
MessagesSeenFrom(mailbox, message) ==
  Cardinality({m \in mailbox : /\ m.from = message.from /\ ~m.isOutbound
                               /\ m.sentAt < message.sentAt})

(* ------------------------------- collection ------------------------------ *)

\* The findings of a message: what it says of itself and its links, against whom
\* the mailbox knows and how many messages it has seen of this sender before.
CollectSignals(message, known, seen) ==
  LET header == HeaderSignals(message.auth, message.from, message.replyTo)
      fromDomain == RegistrableDomain(message.from)
      word == Spelled(fromDomain)
  IN  [header |-> header,
       sender |-> [imitates |-> IF ~Imitates(word, known) THEN "nobody"
                                ELSE IF LookalikeOf(word, known).distance = 0
                                THEN "alphabet" ELSE "near",
                   punycodeSender |-> IsPunycodeHost(message.from),
                   firstTimeSender |-> seen = 0],
       urls |-> UrlSignals(message.links, known),
       attachments |-> message.attachments]
=============================================================================
