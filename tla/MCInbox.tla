------------------------------ MODULE MCInbox ------------------------------
(***************************************************************************)
(* Inbox and Markup over bounded inputs: every set of up to three or four  *)
(* threads, every element of a few attributes, every text of up to three   *)
(* characters.  Each ASSUME is evaluated by the runs whose module extends  *)
(* this one.                                                               *)
(***************************************************************************)
EXTENDS Inbox, Markup
LOCAL INSTANCE SequencesExt

(***************************** The list ***********************************)

Scores == {{}, {1}, {2}}
ThreadRow(id, score, at) ==
    [id |-> id, score |-> score, lastMessageAt |-> at, category |-> "PERSONAL",
     isTrashed |-> FALSE]
\* Every mailbox of n threads, two of which may share score and date.
Boxes(n) == {{ThreadRow(i, s[i], d[i]) : i \in 1 .. n} :
                s \in [1 .. n -> Scores], d \in [1 .. n -> {1, 2}]}

\* The filter written for the database is "after the cursor" in the order of
\* the list, nulls last included.
ASSUME CursorMatchesOrder ==
    \A s1, s2 \in Scores, d1, d2 \in {1, 2}, i \in 1 .. 2 :
        LET a == ThreadRow(i, s1, d1)
            b == ThreadRow(3 - i, s2, d2)
        IN  /\ afterCursor(CursorOf(a), b) <=> Precedes(a, b)
            /\ ~afterCursor(CursorOf(a), a)

\* Paging through a mailbox that stays as it is shows every thread once, in
\* the order of the list, for any page size.
ASSUME PagesCover ==
    \A box \in Boxes(3), limit \in 1 .. 3 :
        ThreadList(<<box>>, "ALL", limit) = SetToSortSeq(box, Precedes)

Ids(s) == [i \in DOMAIN s |-> s[i].id]
Seen(s, id) == Cardinality({i \in DOMAIN s : s[i].id = id})
Rescored(box, id, score) ==
    {IF r.id = id THEN [r EXCEPT !.score = score] ELSE r : r \in box}

\* The worker scores a thread between two pages.  Every other thread is still
\* shown exactly once, and in order: a cursor is a position, not a count.
ASSUME NeighboursAreUndisturbed ==
    \A box \in Boxes(3), limit \in 1 .. 2, id \in 1 .. 3, score \in Scores :
        LET after == Rescored(box, id, score)
            read == ThreadList(<<box, after>>, "ALL", limit)
        IN  \A r \in box : r.id # id => Seen(read, r.id) = 1

\* The thread itself may be shown twice or missed, until the list is read anew.
ASSUME TheMovedOneMayBeMissed ==
    \E box \in Boxes(2), id \in 1 .. 2, score \in Scores :
        Seen(ThreadList(<<box, Rescored(box, id, score)>>, "ALL", 1), id) = 0
ASSUME TheMovedOneMayRepeat ==
    \E box \in Boxes(2), id \in 1 .. 2, score \in Scores :
        Seen(ThreadList(<<box, Rescored(box, id, score)>>, "ALL", 1), id) = 2

\* A thread deleted between two pages takes no neighbour with it, even when it
\* is the one the cursor was made from.
ASSUME DeletionKeepsThePlace ==
    \A box \in Boxes(3), limit \in 1 .. 2 : \A gone \in box :
        LET read == ThreadList(<<box, box \ {gone}>>, "ALL", limit)
        IN  \A r \in box \ {gone} : Seen(read, r.id) = 1

\* A cursor that is not one is refused, and never read as "no cursor".
ASSUME BadCursorsAreRefused ==
    \A c \in [parses : BOOLEAN, score : {{}, {"integer"}, {"fraction"}, {"text"}},
              lastMessageAt : {"date", "bad"}, id : {"thread", "", "bad"}] :
        decodeCursor(c) = "ok" =>
            c \in [parses : {TRUE}, score : {{}, {"integer"}},
                   lastMessageAt : {"date"}, id : {"thread"}]

(**************************** The mapping *********************************)

Receiver == [dmarc |-> "fail", spf |-> "pass"]
Forged == [dmarc |-> "pass"]
Results(name, value) == [name |-> name, value |-> value]
Nobody == [email |-> "friend", named |-> {}]

\* A verdict comes from the topmost header alone: a copy a sender put below it
\* changes nothing, and a method nobody mentions has no verdict.
ASSUME TopmostDecides ==
    \A below \in {<<>>, <<Results("authentication-results", Forged)>>,
                  <<Results("arc-authentication-results", Forged)>>} :
        LET auth == parseAuthResults(
                        <<Results("authentication-results", Receiver)>> \o below, Nobody)
        IN  auth.dmarc = {"fail"} /\ auth.spf = {"pass"} /\ auth.dkim = {}

\* Without a header of the receiver's, the sender's own is the topmost one.
ASSUME AbsentReceiverIsReplaced ==
    parseAuthResults(<<Results("authentication-results", Forged)>>, Nobody).dmarc
        = {"pass"}

Part(type, data, filename, stored) ==
    [type |-> type, data |-> data, filename |-> filename, stored |-> stored,
     isInline |-> FALSE]
Parts == {Part(t, d, f, s) : t \in {"text/plain", "text/html", "image/png"},
                             d \in {<<>>, <<"a">>, <<"b">>}, f \in {"", "name"},
                             s \in BOOLEAN}

\* No part is both body and attachment, and a body stored apart (its data is
\* not in the message) is neither: it is nowhere.
ASSUME LongBodiesAreNowhere ==
    \A p, q \in Parts :
        LET walked == walkParts(<<p, q>>)
            shown == walked.text \cup walked.html
        IN  /\ \A d \in shown : \E r \in {p, q} : r.data = d /\ ~IsAttachment(r)
            /\ (p.stored /\ p.data = <<>> /\ p.filename = ""
                /\ p.type \in {"text/plain", "text/html"})
                   => p \notin {walked.attachments[i] : i \in DOMAIN walked.attachments}

Letter(id, parts, labels, at) ==
    [id |-> id, parts |-> parts, labels |-> labels, headers |-> <<>>,
     from |-> Nobody, internalDate |-> at, dateHeader |-> {}]
Mapped(letter) ==
    mapMessage(letter, "me", 9)

\* The hash of a message without a body is its id's, so two never share one.
\* A mail of one image has a body, of no text: all of those share one hash.
ASSUME EmptyBodiesDiffer ==
    Mapped(Letter("m1", <<>>, {}, {1})).contentHash
        # Mapped(Letter("m2", <<>>, {}, {1})).contentHash
ASSUME ImageMailsShareAHash ==
    LET image == <<Part("text/html", <<"tag">>, "", FALSE)>>
    IN  Mapped(Letter("m1", image, {}, {1})).contentHash
            = Mapped(Letter("m2", image, {}, {1})).contentHash

Bodies == UNION {[1 .. n -> {"a", "b", "blank", "lf", "crlf"}] : n \in 0 .. 4}
Words(body) == SelectSeq(body, LAMBDA x : x \in {"a", "b"})

\* Normalising again changes nothing, no word is lost, and what a second fetch
\* may change of a body (the kind of its line ends, blanks before one) changes
\* nothing of its hash.
ASSUME HashesAreStable ==
    \A body \in Bodies :
        LET hash == normalizeForHash(body) IN
        /\ normalizeForHash(hash) = hash
        /\ Words(hash) = Words(body)
        /\ \A i \in DOMAIN body : body[i] \in {"lf", "crlf"} =>
              /\ normalizeForHash([body EXCEPT ![i] = "crlf"]) = hash
              /\ normalizeForHash(SubSeq(body, 1, i - 1) \o <<"blank">>
                                     \o SubSeq(body, i, Len(body))) = hash

LabelSets == {{}, {"INBOX"}, {"TRASH"}, {"INBOX", "UNREAD"}, {"SENT"}}
Mailed == {Mapped(Letter(i, <<>>, l, t)) : i \in {"", "m1", "m2"}, l \in LabelSets,
                                           t \in {{}, {1}, {2}}}

\* A mapped thread is its messages with an id, in the order of their dates.
ASSUME ThreadsAreSorted ==
    \A a, b \in Mailed :
        LET t == mapThread(<<a, b>>)
        IN  /\ {t[i] : i \in DOMAIN t} = {m \in {a, b} : m.id # ""}
            /\ \A i, j \in DOMAIN t : i < j => t[i].sentAt <= t[j].sentAt

\* One message in the trash puts its whole thread there: the thread is gone
\* from the list though the rest of it is in the inbox.
ASSUME HalfTrashedIsUnlisted ==
    \E a, b \in Mailed :
        /\ "INBOX" \in a.labels /\ "TRASH" \notin a.labels /\ "TRASH" \in b.labels
        /\ LET f == threadFields(<<a, b>>)
               row == [id |-> 1, score |-> {}, lastMessageAt |-> f.lastMessageAt,
                       category |-> "PERSONAL", isTrashed |-> f.isTrashed]
           IN  listThreads({row}, "ALL", {}, 2).items = <<>>

Person(email, role, name) == [email |-> email, role |-> role, name |-> name]
People == {Person(e, r, n) : e \in {"ann", "bob"}, r \in {"from", "to"},
                             n \in {{}, {"Ann"}, {"A."}}}

\* Everyone once, whoever wrote is a sender, and a name once learnt is kept
\* however the messages continue.
ASSUME ParticipantsAccumulate ==
    \A a, b, c \in People :
        LET short == threadParticipants(<<a, b>>)
            long == threadParticipants(<<a, b, c>>)
        IN  /\ Cardinality({long[i].email : i \in DOMAIN long}) = Len(long)
            /\ {long[i].email : i \in DOMAIN long} = {a.email, b.email, c.email}
            /\ \A i \in DOMAIN short :
                   /\ long[i].email = short[i].email
                   /\ short[i].role = "from" => long[i].role = "from"
                   /\ short[i].name # {} => long[i].name = short[i].name

(**************************** Going out ***********************************)

Texts(n) == UNION {[1 .. k -> Char] : k \in 0 .. n}
Address(email, name) == [email |-> email, name |-> name]
Plain == Address("valid", <<>>)
Mime(name, cc, subject, parent, references) ==
    [from |-> Plain, to |-> <<Address("valid", name)>>, cc |-> cc, bcc |-> <<Plain>>,
     subject |-> subject, inReplyTo |-> parent, references |-> references]

\* Whatever a person typed or a provider stored, a header that is written ends
\* where it should: no value holds a break that is not a fold.
ASSUME HeadersEndWhereTheyShould ==
    \A text \in Texts(3) : \A place \in 1 .. 4 :
        LET headers == buildMimeMessage(
                CASE place = 1 -> Mime(text, <<>>, <<>>, <<>>, <<>>)
                  [] place = 2 -> Mime(<<>>, <<>>, text, <<>>, <<>>)
                  [] place = 3 -> Mime(<<>>, <<>>, <<>>, <<text>>, <<>>)
                  [] place = 4 -> Mime(<<>>, <<>>, <<>>, <<>>, <<text, <<"ascii">>>>))
        IN  headers # BadRequest =>
                \A i \in DOMAIN headers : \A j \in DOMAIN headers[i].values :
                    assertFoldedHeaderSafe(headers[i].values[j])

\* A subject is never a reason not to send.
ASSUME SubjectsAreRepaired ==
    \A text \in Texts(3) :
        buildMimeMessage(Mime(<<>>, <<>>, text, <<>>, <<>>)) # BadRequest

\* No recipient is dropped in silence: whoever was named, blind copies too,
\* has an address in a header, or nothing is built.
ASSUME EveryoneIsAddressed ==
    \A email \in {"valid", "list"}, n \in 0 .. 2 :
        LET cc == [i \in 1 .. n |-> Address(email, <<>>)]
            headers == buildMimeMessage(Mime(<<>>, cc, <<>>, <<>>, <<>>))
            fields == {"To", "Cc", "Bcc"}
        IN  headers # BadRequest =>
                FoldLeft(LAMBDA sum, h :
                            sum + IF h.field \in fields THEN Len(h.values) ELSE 0,
                         0, headers) = 2 + n

\* No character is split between two words, so none decodes to a wrong glyph;
\* but three bytes become four characters and 47 is no multiple of three: a
\* word of 46 or 47 bytes is 76 characters long, one more than the comment
\* (mime.ts:117) has it.
Widths == {[i \in 1 .. n |-> w] : n \in 1 .. 60, w \in 1 .. 4}
ASSUME WordsHoldWholeCharacters ==
    \A s \in Widths :
        LET words == encodeWord(s)
        IN  /\ \A i \in DOMAIN words : words[i] % s[1] = 0 /\ words[i] <= MAX_BYTES
            /\ FoldLeft(LAMBDA sum, w : sum + w, 0, words) = s[1] * Len(s)
ASSUME LongestWord ==
    /\ \A bytes \in 1 .. MAX_BYTES : WordLength(bytes) <= 76
    /\ {b \in 1 .. MAX_BYTES : WordLength(b) > 75} = {46, 47}
    /\ encodeWord([i \in 1 .. 30 |-> 2])[1] = 46

\* No line passes the width by more than the blank that opens it, unless one
\* token alone does; and a line of 79 characters exists.
TokenLists == UNION {[1 .. n -> {20, 38, 39, 90}] : n \in 0 .. 4}
ASSUME FoldedLinesAreShort ==
    \A tokens \in TokenLists :
        LET lines == foldHeaderLine(10, tokens, 78)
        IN  \A i \in DOMAIN lines : lines[i] <= 79 \/ \E j \in DOMAIN tokens : tokens[j] = 90
ASSUME ALineMayBe79Long ==
    \E tokens \in TokenLists : \E i \in DOMAIN foldHeaderLine(10, tokens, 78) :
        foldHeaderLine(10, tokens, 78)[i] = 79

(**************************** Coming in ***********************************)

Attrs == {"src", "srcset", "background", "href", "data-blocked-src"}
Elements ==
    UNION {[tag : {"a", "img", "td"}, attrs : [as -> UrlKind \ {"plain"}],
            style : {{}, {"https"}, {"dataImage", "http"}}] :
              as \in {bs \in SUBSET Attrs : Cardinality(bs) <= 2}}

\* Opening a message asks the network for nothing, and each of the two layers
\* suffices for it: the sanitizer without the frame's policy, the policy with
\* what the sanitizer let through unchanged.
ASSUME OpeningDisclosesNothing ==
    \A e \in Elements :
        LET clean == sanitizeEmailHtml(e)
            raw == [clean EXCEPT !.attrs = e.attrs, !.style = e.style]
        IN  /\ Requests([body |-> clean, imgSrc |-> ImgSrc(TRUE)]) = {}
            /\ Requests(buildEmailFrameSrcDoc(raw, FALSE)) = {}

\* The click makes live exactly what was parked, never what a sender planted.
ASSUME ClickRestoresWhatWasParked ==
    \A e \in Elements :
        LET clean == sanitizeEmailHtml(e)
            shown == buildEmailFrameSrcDoc(clean, TRUE)
            own == {a \in DOMAIN e.attrs \cap REMOTE_SOURCE_ATTRS :
                        e.attrs[a] \in Network}
        IN  /\ own \subseteq DOMAIN shown.body.attrs
            /\ shown.body.parked = [a \in {} |-> "plain"]
            /\ \A a \in DOMAIN shown.body.attrs \ DOMAIN clean.attrs : a \in own
            /\ (e.attrs = [a \in {"data-blocked-src"} |-> "https"])
                   => Requests(shown) = {}

\* A link that stays opens its own window and has no way back.
ASSUME LinksHaveNoWayBack ==
    \A e \in Elements :
        LET clean == sanitizeEmailHtml(e)
        IN  e.tag = "a" /\ "href" \in DOMAIN clean.attrs
                => clean.own = {"target", "rel"} /\ clean.attrs["href"] # "javascript"

\* The offer to load images and what loading does are not the same thing.  A
\* message whose only remote content is a background is offered nothing, one
\* whose only remote content is in a style is offered a click that changes
\* nothing, and one image with two sources counts twice.
Solo(tag, attribute) ==
    [tag |-> tag, attrs |-> [a \in {attribute} |-> "https"], style |-> {}]
ASSUME BackgroundsAreNotOffered ==
    LET clean == sanitizeEmailHtml(Solo("td", "background"))
    IN  /\ MessageBody(clean, FALSE) = "nothing"
        /\ Requests(buildEmailFrameSrcDoc(clean, TRUE)) = {"https"}
ASSUME StylesAreOfferedInVain ==
    LET clean == sanitizeEmailHtml([Solo("td", "class") EXCEPT !.style = {"https"}])
    IN  /\ MessageBody(clean, FALSE) = "load images"
        /\ Requests(buildEmailFrameSrcDoc(clean, TRUE)) = {}
ASSUME TwoSourcesCountTwice ==
    sanitizeEmailHtml([Solo("img", "src") EXCEPT
        !.attrs = [a \in {"src", "srcset"} |-> "https"]]).blockedRemoteImages = 2

\* Of the attributes a message may use, two with values that are no URLs are on
\* neither list of safe ones: the direction of a text and its language.
ASSUME AllowedButLost ==
    {a \in ALLOWED_ATTR \ (REMOTE_SOURCE_ATTRS \cup {"href"}) :
        ~Survives("td", a, "plain")} = {"dir", "lang"}
=============================================================================
