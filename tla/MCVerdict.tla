----------------------------- MODULE MCVerdict -----------------------------
(* Evidence and Verdict against reference definitions, over every small input. *)
EXTENDS Evidence
LOCAL INSTANCE SequencesExt

Words(alphabet, n) == UNION {[1..k -> alphabet] : k \in 0..n}

(* ------------------------------ edit distance ---------------------------- *)

\* The words that one insertion, deletion or substitution makes of w.
OneEdit(w, alphabet) ==
  {InsertAt(w, i, c) : i \in 1..Len(w) + 1, c \in alphabet}
    \cup {RemoveAt(w, i) : i \in DOMAIN w}
    \cup {[w EXCEPT ![i] = c] : i \in DOMAIN w, c \in alphabet}

Ball(w, k, alphabet) ==
  FoldLeft(LAMBDA ball, i : ball \cup UNION {OneEdit(v, alphabet) : v \in ball},
           {w}, [i \in 1..k |-> i])

\* The bounded distance is the number of edits, up to the bound, and above it only
\* says so: with max + 1, or with the distance itself when the last row tells it.
ASSUME LevenshteinCountsEdits ==
  \A a \in Words({"p", "l"}, 3), max \in 0..2 :
    LET Near == [k \in 0..max |-> Ball(a, k, {"p", "l"})]
    IN  \A b \in Words({"p", "l"}, 4) :
          IF b \in Near[max]
          THEN Levenshtein(a, b, max) = Least({k \in 0..max : b \in Near[k]})
          ELSE Levenshtein(a, b, max) > max

(* ------------------------------- lookalikes ------------------------------ *)

Letters == {"l", "1", "o", "0", "-"}

\* Folding loses hyphens and nothing else, and folding twice changes nothing.
ASSUME FoldKeepsLength ==
  \A w \in Words(Letters, 4) :
    /\ Len(NormalizeHomoglyphs(w)) = Len(Unhyphenated(w))
    /\ NormalizeHomoglyphs(NormalizeHomoglyphs(w)) = NormalizeHomoglyphs(w)

Shop == <<"s", "h", "o", "l", ".", "c", "o">>
Swap == <<"s", "h", "o", "p", ".", "c", "o">>
Spellings == {[Shop EXCEPT ![1] = a, ![3] = b, ![4] = c] :
                a \in {"s", "5"}, b \in {"o", "0", "u"}, c \in {"l", "1", "p"}}

\* A correspondent imitates nobody; a twin of one is found as the twin it is,
\* wherever the nearer miss of another stands in the list.
ASSUME TwinsAreFound ==
  \A w \in Spellings, known \in {<<Shop>>, <<Swap, Shop>>, <<Shop, Swap>>} :
    /\ w \in Range(known) => ~Imitates(w, known)
    /\ w \notin Range(known) /\ NormalizeHomoglyphs(w) = Shop =>
         /\ Imitates(w, known)
         /\ LookalikeOf(w, known) =
              [resembles |-> Shop, distance |-> 0, viaHomoglyphs |-> TRUE]
    /\ Imitates(w, known) /\ LookalikeOf(w, known).distance > 0 =>
         \A k \in Range(known) : NormalizeHomoglyphs(k) # NormalizeHomoglyphs(w)

(* -------------------------------- parties -------------------------------- *)

Labels == {<<"c", "o">>, <<"u", "k">>, <<"p", "a", "y">>, <<"1">>, <<"9", "9", "9">>}
Hosts == Words(Labels, 4)

\* A party is its own party, and so is every host under it.
ASSUME OneParty ==
  \A h \in Hosts :
    /\ RegistrableDomain(RegistrableDomain(h)) = RegistrableDomain(h)
    /\ IsSuffix(RegistrableDomain(h), h)
    /\ Len(h) > 2 /\ ~IsRawIpHost(h) /\ ~IsRawIpHost(<<<<"p", "a", "y">>>> \o h) =>
         RegistrableDomain(<<<<"p", "a", "y">>>> \o h) = RegistrableDomain(h)

(* -------------------------------- contacts ------------------------------- *)

Friend == <<<<"p", "a", "y">>, <<"c", "o">>>>
Elsewhere == <<<<"o", "l", "d">>, <<"c", "o">>>>
Heard(d, n, out) == [domain |-> d, n |-> n, outbound |-> out]
Rows == Words({Heard(<<<<"w">>>> \o Friend, 2, FALSE), Heard(Friend, 1, FALSE),
               Heard(Friend, 1, TRUE), Heard(Elsewhere, 3, FALSE), Heard(None, 9, TRUE)}, 3)

\* Whom the user wrote to is known, at any number of messages; who only writes is
\* known from the third on; the ceiling drops the least known and never a stranger
\* of them.
ASSUME KnownAreCorrespondents ==
  \A rows \in Rows, max \in 1..2 :
    LET known == FoldDomains(rows, max)
        all == FoldDomains(rows, 9)
    IN  /\ Len(known) <= max /\ IsPrefix(known, all)
        /\ \A d \in {Friend, Elsewhere} :
             Spelled(d) \in Range(all) <=>
               \/ Counted(rows, d, TRUE) >= 1
               \/ Counted(rows, d, FALSE) >= 3
        /\ \A i \in 1..Len(all) - 1 :
             \E d, e \in {Friend, Elsewhere} :
               /\ Spelled(d) = all[i] /\ Spelled(e) = all[i + 1]
               /\ Standing(rows, d) >= Standing(rows, e)

Stranger == <<<<"p", "a", "y">>, <<"c", "0">>>>
Post(from, to, at) ==
  [from |-> from, to |-> to, isOutbound |-> from = Elsewhere, sentAt |-> at]
Mailboxes ==
  SUBSET {Post(Elsewhere, <<Friend, Friend>>, 1), Post(Stranger, <<Elsewhere>>, 2),
          Post(Stranger, <<Elsewhere>>, 3), Post(Stranger, <<Elsewhere>>, 4)}

\* The mailbox's own domain is always known; a domain that only writes is known
\* once three of its messages are stored, whatever it imitates.
ASSUME KnownFromMailbox ==
  \A mailbox \in Mailboxes :
    LET known == Range(FoldDomains(QueryDomains(mailbox, {Elsewhere}), 9))
    IN  /\ Spelled(Elsewhere) \in known
        /\ Spelled(Friend) \in known <=> \E m \in mailbox : m.isOutbound
        /\ Spelled(Stranger) \in known <=>
             Cardinality({m \in mailbox : ~m.isOutbound}) = 3

\* What was seen before a message does not depend on what is stored after it.
ASSUME LaterMailIsNotSeen ==
  \A mailbox \in Mailboxes : \A m \in mailbox :
    MessagesSeenFrom(mailbox, m) =
      MessagesSeenFrom({n \in mailbox : n.sentAt < m.sentAt}, m)

\* A failed query is empty for one message only; a fresh set is not asked for again.
ASSUME FailureIsNotRemembered ==
  \A until \in 0..2, now \in 0..2, failed \in BOOLEAN :
    LET cold == [domains |-> <<Shop>>, expiresAt |-> until]
        got == KnownDomains(cold, now, failed, <<Heard(Friend, 1, TRUE)>>)
        again == KnownDomains(got.cache, now, FALSE, <<>>)
    IN  /\ until > now => got.domains = <<Shop>> /\ again.domains = <<Shop>>
        /\ until <= now /\ failed => got.domains = <<>> /\ again.domains = <<>>
        /\ until <= now /\ ~failed =>
             got.domains = <<Spelled(Friend)>> /\ again.domains = got.domains

(* --------------------------------- verdict ------------------------------- *)

Clean ==
  [header |-> [spf |-> "pass", dkim |-> "pass", dmarc |-> "pass",
               displayNameMismatch |-> FALSE, replyToDiffers |-> FALSE,
               returnPathAligned |-> "yes"],
   sender |-> [imitates |-> "nobody", punycodeSender |-> FALSE, firstTimeSender |-> FALSE],
   urls |-> [rawIpHosts |-> 0, punycodeHosts |-> 0, lookalikeHosts |-> 0,
             displayMismatches |-> 0],
   attachments |-> [executable |-> 0, macro |-> 0, archive |-> 0]]

\* Every way a clean message is made worse by one finding.
Lone ==
  UNION {{[Clean EXCEPT !.header.dmarc = v], [Clean EXCEPT !.header.spf = v],
          [Clean EXCEPT !.header.dkim = v]} : v \in Auth}
    \cup {[Clean EXCEPT !.header.displayNameMismatch = TRUE],
          [Clean EXCEPT !.header.replyToDiffers = TRUE],
          [Clean EXCEPT !.header.returnPathAligned = "no"],
          [Clean EXCEPT !.header.returnPathAligned = "unknown"],
          [Clean EXCEPT !.sender.imitates = "near"],
          [Clean EXCEPT !.sender.imitates = "alphabet"],
          [Clean EXCEPT !.sender.punycodeSender = TRUE],
          [Clean EXCEPT !.sender.firstTimeSender = TRUE]}
    \cup {[Clean EXCEPT !.urls[k] = 1] : k \in DOMAIN Clean.urls}
    \cup {[Clean EXCEPT !.attachments[k] = 1] : k \in DOMAIN Clean.attachments}

\* A finding that is not damning does not carry a verdict by itself, but for one:
\* a link that reads as another host weighs the whole threshold.
ASSUME OneWeakFindingIsNotEnough ==
  \A s \in Lone :
    Rules(s).floor = "SUSPICIOUS" <=>
      Damning(s) \/ s = [Clean EXCEPT !.urls.displayMismatches = 1]

\* No result for anything and no return path is one point short of suspicion, and
\* a first message from its sender makes it up.
ASSUME SilenceIsNotSuspicion ==
  LET silent == [Clean EXCEPT !.header.spf = NoResult, !.header.dkim = NoResult,
                              !.header.dmarc = NoResult,
                              !.header.returnPathAligned = "unknown"]
  IN  /\ Rules(silent).floor = "SAFE"
      /\ Rules([silent EXCEPT !.sender.firstTimeSender = TRUE]).floor = "SUSPICIOUS"

\* The list and the banner agree: the level rolled up to the thread is the level
\* of the message the banner is about, which is the newest of that level.
ASSUME BannerAgreesWithList ==
  \A thread \in Words(ThreatLevel, 4) :
    LET at == Subject(thread)
    IN  IF at = 0 THEN Rollup(Range(thread)) = "UNKNOWN"
        ELSE /\ thread[at] = Rollup(Range(thread))
             /\ \A i \in at + 1..Len(thread) : thread[i] # thread[at]

(* ----------------------------- from end to end --------------------------- *)

Mails ==
  {[auth |-> [spf |-> "pass", dkim |-> "pass", dmarc |-> dmarc,
              returnPath |-> path, displayNameMismatch |-> "false"],
    from |-> from, replyTo |-> reply,
    links |-> {[host |-> from, claimed |-> reply]},
    attachments |-> Clean.attachments] :
      dmarc \in {"pass", "fail", "unheard of"},
      path \in {None, <<<<"b">>>> \o Friend}, reply \in {None, Friend},
      from \in {None, Friend, <<<<"p", "a", "y">>, <<"c", "0">>>>}}

\* Whatever is stored, the findings are findings; and a mailbox whose contacts
\* cannot be read loses evidence and gains none.
ASSUME NoSignalIsMilder ==
  \A mail \in Mails, seen \in 0..1 :
    LET with == CollectSignals(mail, <<Spelled(Friend)>>, seen)
        without == CollectSignals(mail, <<>>, seen)
    IN  /\ with \in Signals /\ without \in Signals
        /\ Rules(without).score <= Rules(with).score
        /\ Severity[Rules(without).floor] <= Severity[Rules(with).floor]
=============================================================================
