------------------------------- MODULE Inbox -------------------------------
(***************************************************************************)
(* How mail becomes a row and a row a page: the mapping of a provider's    *)
(* message (providers/gmail/map.ts), the fields of a thread                *)
(* (services/sync.ts), and the list a reader pages through                 *)
(* (services/threads.ts, ThreadList.tsx).                                  *)
(*                                                                         *)
(* Pure operators: a message is a record, a MIME tree the sequence of its  *)
(* parts in the order of the walk, a body the sequence of its words,       *)
(* blanks, line ends and tags.  An optional value is the set of its        *)
(* values, empty or with one member.                                       *)
(***************************************************************************)
EXTENDS Naturals, Sequences, FiniteSets

Null == {}
\* `value ?? otherwise`, the first of a sequence if any, and what a sequence
\* holds at some of its places.
Or(value, otherwise) == IF value = Null THEN otherwise ELSE value
FirstOf(s) == IF s = <<>> THEN Null ELSE {Head(s)}
Kept(s, places) ==
    LET order == SelectSeq([i \in DOMAIN s |-> i], LAMBDA i : i \in places)
    IN  [k \in DOMAIN order |-> s[order[k]]]

(***************************** A message **********************************)

\* The value of a header, by its lower-cased name: the topmost one.
headerOf(headers, name) ==
    {h.value : h \in FirstOf(SelectSeq(headers, LAMBDA h : h.name = name))}

VERDICTS == {"pass", "fail", "softfail", "neutral", "none", "temperror", "permerror"}

\* The value of an Authentication-Results header maps the methods it mentions
\* to the words it gives them.
verdictFor(header, method) ==
    {word \in {header[x] : x \in DOMAIN header \cap {method}} : word \in VERDICTS}

\* A name that holds an address (`name.email`) other than the sender's own.
hasDisplayNameMismatch(from) ==
    \E embedded \in from.named : embedded # from.email

parseAuthResults(headers, from) ==
    LET header == Or(headerOf(headers, "authentication-results"),
                     headerOf(headers, "arc-authentication-results"))
        said(method) == UNION {verdictFor(h, method) : h \in header}
    IN  [spf |-> said("spf"), dkim |-> said("dkim"), dmarc |-> said("dmarc"),
         displayNameMismatch |-> hasDisplayNameMismatch(from)]

\* A part with a name is an attachment, and so is one the provider stores apart
\* unless it is text.
IsAttachment(part) ==
    part.filename # "" \/ (part.stored /\ part.type \notin {"text/plain", "text/html"})

BodyOf(parts, type) ==
    {p.data : p \in FirstOf(SelectSeq(parts, LAMBDA p : /\ ~IsAttachment(p)
                                                        /\ p.type = type
                                                        /\ p.data # <<>>))}

walkParts(parts) ==
    [text |-> BodyOf(parts, "text/plain"), html |-> BodyOf(parts, "text/html"),
     attachments |-> SelectSeq(parts, IsAttachment)]

\* A body is a sequence of words, blanks and line ends; one in HTML has tags
\* too.  Every mark-up is a blank or a line end, and blanks are run together.
htmlToText(html) ==
    LET read == [i \in DOMAIN html |->
                    CASE html[i] \in {"script", "tag", "nbsp"} -> "blank"
                      [] html[i] \in {"br", "close"} -> "lf"
                      [] OTHER -> html[i]]
    IN  Kept(read, {i \in DOMAIN read : ~(/\ i > 1
                                         /\ read[i] = "blank" /\ read[i - 1] = "blank")})

\* One kind of line end, no blanks before it, at most one empty line, no margin.
normalizeForHash(body) ==
    LET lines == [i \in DOMAIN body |-> IF body[i] = "crlf" THEN "lf" ELSE body[i]]
        Trailing(i) == \E j \in i + 1 .. Len(lines) + 1 :
                          /\ \A k \in i .. j - 1 : lines[k] = "blank"
                          /\ j <= Len(lines) => lines[j] = "lf"
        stripped == Kept(lines, {i \in DOMAIN lines : ~Trailing(i)})
        Third(i) == i > 2 /\ \A k \in i - 2 .. i : stripped[k] = "lf"
        collapsed == Kept(stripped, {i \in DOMAIN stripped : ~Third(i)})
        words == {i \in DOMAIN collapsed : collapsed[i] \notin {"blank", "lf"}}
    IN  Kept(collapsed, {i \in DOMAIN collapsed :
                            \E v, w \in words : v <= i /\ i <= w})

\* What is hashed: the body, or the fallback when there is no body at all.
computeContentHash(bodyText, fallback) ==
    {normalizeForHash(b) : b \in Or(bodyText, {fallback})}

\* The time the provider received it beats the sender's, and the clock is the
\* last resort.
sentAtOf(message, now) ==
    CHOOSE t \in Or({d \in message.internalDate : d > 0},
                    Or(message.dateHeader, {now})) : TRUE

mapMessage(message, mailbox, now) ==
    LET walked == walkParts(message.parts)
        bodyText == Or(walked.text, {htmlToText(h) : h \in walked.html})
    IN  [id |-> message.id,
         from |-> message.from,
         bodyText |-> bodyText,
         sentAt |-> sentAtOf(message, now),
         isRead |-> "UNREAD" \notin message.labels,
         isOutbound |-> "SENT" \in message.labels \/ message.from.email = mailbox,
         isDraft |-> "DRAFT" \in message.labels,
         hasAttachments |-> \E i \in DOMAIN walked.attachments :
                                ~walked.attachments[i].isInline,
         authResults |-> parseAuthResults(message.headers, message.from),
         contentHash |-> computeContentHash(bodyText, <<message.id>>),
         labels |-> message.labels]

\* The messages of a thread that have an id, by date; equal dates keep the
\* provider's order.
mapThread(messages) ==
    LET real == SelectSeq(messages, LAMBDA m : m.id # "")
        Place(i) == Cardinality({j \in DOMAIN real :
                                    \/ real[j].sentAt < real[i].sentAt
                                    \/ real[j].sentAt = real[i].sentAt /\ j <= i})
    IN  [k \in 1 .. Len(real) |-> real[CHOOSE i \in DOMAIN real : Place(i) = k]]

\* Everyone on a thread, once each and in order of appearance: the first name
\* learnt is kept and a sender's role outranks the others'.
threadParticipants(addresses) ==
    LET first(i) == \A j \in 1 .. i - 1 : addresses[j].email # addresses[i].email
        of(email) == SelectSeq(addresses, LAMBDA a : a.email = email)
        role(email) == LET all == of(email)
                       IN  IF \E i \in DOMAIN all : all[i].role = "from"
                           THEN "from" ELSE all[1].role
        name(email) == LET named == FirstOf(SelectSeq(of(email), LAMBDA a : a.name # Null))
                       IN  UNION {a.name : a \in named}
        once == SelectSeq([i \in DOMAIN addresses |-> i], first)
    IN  [k \in DOMAIN once |->
            LET email == addresses[once[k]].email
            IN  [email |-> email, role |-> role(email), name |-> name(email)]]

(*************************** A thread's row *******************************)

LabelsOf(messages) == UNION {messages[i].labels : i \in DOMAIN messages}

\* The fields every sync of a thread writes anew, from what it fetched.
threadFields(messages) ==
    LET labels == LabelsOf(messages) IN
    [messageCount |-> Len(messages),
     firstMessageAt |-> messages[1].sentAt,
     lastMessageAt |-> messages[Len(messages)].sentAt,
     isRead |-> \A i \in DOMAIN messages : messages[i].isRead,
     isStarred |-> "STARRED" \in labels,
     isArchived |-> labels \cap {"INBOX", "TRASH"} = {},
     isTrashed |-> "TRASH" \in labels]

\* The tag of an attachment, by its last extension alone.
riskFlagFor(extension) ==
    CASE extension \in {"exe", "js", "lnk", "dmg"} -> {"executable"}
      [] extension \in {"docm", "xlsm"} -> {"macro"}
      [] extension \in {"zip", "iso"} -> {"archive"}
      [] OTHER -> Null

(***************************** The list ***********************************)

\* Scored threads first, the highest leading; then the newest; then the id.
Precedes(a, b) ==
    LET tie == \/ a.lastMessageAt > b.lastMessageAt
               \/ a.lastMessageAt = b.lastMessageAt /\ a.id > b.id
    IN  \/ a.score # Null /\ b.score = Null
        \/ a.score = b.score /\ tie
        \/ \E x \in a.score, y \in b.score : x > y

CursorOf(row) ==
    [score |-> row.score, lastMessageAt |-> row.lastMessageAt, id |-> row.id]

\* What is taken from the browser for a cursor: by the kinds of its fields.
decodeCursor(cursor) ==
    IF /\ cursor.parses
       /\ cursor.score \in {Null, {"integer"}}
       /\ cursor.lastMessageAt = "date"
       /\ cursor.id \notin {"", "bad"}
    THEN "ok" ELSE "BadRequest"

\* The filter of the next page, as it is written: one for a cursor without a
\* score and another, of three alternatives, for one with.
afterCursor(cursor, row) ==
    LET tieBreak == \/ row.lastMessageAt < cursor.lastMessageAt
                    \/ row.lastMessageAt = cursor.lastMessageAt /\ row.id < cursor.id
    IN  IF cursor.score = Null THEN row.score = Null /\ tieBreak
        ELSE \/ \E x \in row.score, y \in cursor.score : x < y
             \/ row.score = cursor.score /\ tieBreak
             \/ row.score = Null

\* The newest message of someone else names the row and its attachments.
RowSender(messages) ==
    LET inbound == {i \in DOMAIN messages : ~messages[i].isOutbound}
        newest == {i \in inbound : \A j \in inbound :
                                        messages[j].sentAt <= messages[i].sentAt}
    IN  {messages[i].from : i \in newest}

\* The rows a request asks for; `cursor` is the set of at most one cursor.
Wanted(rows, category, cursor) ==
    {r \in rows : /\ category \in {"ALL", r.category}
                  /\ ~r.isTrashed
                  /\ \A c \in cursor : afterCursor(c, r)}

\* A page, the first rows in order, and where the next one starts, if there is
\* one: the query takes a row more than the page to know.
listThreads(rows, category, cursor, limit) ==
    LET wanted == Wanted(rows, category, cursor)
        total == Cardinality(wanted)
        Before(r) == {q \in wanted : Precedes(q, r)}
        page == [k \in 1 .. IF total < limit THEN total ELSE limit |->
                    CHOOSE r \in wanted : Cardinality(Before(r)) = k - 1]
    IN  [items |-> page,
         nextCursor |-> IF total > limit THEN {CursorOf(page[limit])} ELSE Null]

\* What a reader who pages to the end sees: `rows[k]` are the rows when page k
\* is asked for, and the last ones stay.
ReadOn(list, rows, category, limit) ==
    LET answer == listThreads(rows, category, list.cursor, limit)
    IN  IF list.ended THEN list
        ELSE [shown |-> list.shown \o answer.items, cursor |-> answer.nextCursor,
              ended |-> answer.nextCursor = Null]

ThreadList(rows, category, limit) ==
    LET read[k \in Nat] ==
            IF k = 0 THEN [shown |-> <<>>, cursor |-> Null, ended |-> FALSE]
            ELSE ReadOn(read[k - 1], rows[IF k > Len(rows) THEN Len(rows) ELSE k],
                        category, limit)
    IN  read[Len(rows) + Cardinality(rows[Len(rows)])].shown

\* The participants a stored column yields: what is not a list, or has no
\* address, is left out, and an empty name is none.
parseParticipants(value) ==
    IF ~value.isList THEN <<>>
    ELSE LET usable == SelectSeq(value.entries, LAMBDA e : e.email \notin {"", "bad"})
         IN  [i \in DOMAIN usable |->
                [email |-> usable[i].email,
                 name |-> IF usable[i].name \in {"", "bad"} THEN Null
                          ELSE {usable[i].name}]]
=============================================================================
