------------------------------ MODULE Markup ------------------------------
(***************************************************************************)
(* The two conversions that must not let a text become more than a text:   *)
(* a message going out as headers and encoded parts (gmail/mime.ts), and a *)
(* stranger's HTML coming in (security/sanitize.ts, then lib/emailFrame.ts *)
(* and MessageBody.tsx of the web application).                            *)
(*                                                                         *)
(* Going out, a text is a sequence of characters of six kinds, or where    *)
(* only lengths matter the sequence of its lengths.  Coming in, an element *)
(* is its tag, the kind of value each attribute has, and the kinds of URL  *)
(* its style names.  The HTML parser, DOMPurify and the browser are        *)
(* external: they are modelled as the code configures them.                *)
(***************************************************************************)
LOCAL INSTANCE Naturals
LOCAL INSTANCE Sequences
LOCAL INSTANCE FiniteSets
LOCAL INSTANCE SequencesExt

(*************************** Going out ************************************)

Breaks == {"cr", "lf"}
Char == Breaks \cup {"nul", "space", "ascii", "wide"}
isAscii(text) == \A i \in DOMAIN text : text[i] \in {"space", "ascii"}

assertHeaderSafe(value) == \A i \in DOMAIN value : value[i] \notin Breaks \cup {"nul"}

\* A fold, CR LF and white space, is collapsed before the strict rule applies.
FoldAt(value, i) ==
    /\ i \in 1 .. Len(value) - 2
    /\ value[i] = "cr" /\ value[i + 1] = "lf" /\ value[i + 2] = "space"

assertFoldedHeaderSafe(value) ==
    \A i \in DOMAIN value : /\ value[i] = "cr" => FoldAt(value, i)
                            /\ value[i] = "lf" => FoldAt(value, i - 1)
                            /\ value[i] # "nul"

Trim(text) ==
    LET solid == {i \in DOMAIN text : text[i] \notin Breaks \cup {"space"}}
    IN  IF solid = {} THEN <<>>
        ELSE SubSeq(text, CHOOSE i \in solid : \A j \in solid : i <= j,
                          CHOOSE i \in solid : \A j \in solid : i >= j)

\* An encoded word is at most 75 characters, as the comment has it, of which
\* prefix and suffix take 12; the bytes of a chunk become 4 characters for
\* every 3 begun.
MAX_BYTES == ((75 - 10 - 2) * 3) \div 4
WordLength(bytes) == 12 + 4 * ((bytes + 2) \div 3)

\* The bytes of each word, for characters of these widths in bytes.
encodeWord(widths) ==
    FoldLeft(LAMBDA words, w :
                IF words # <<>> /\ Last(words) + w <= MAX_BYTES
                THEN [words EXCEPT ![Len(words)] = @ + w]
                ELSE Append(words, w),
             <<>>, widths)

\* Base64 of a text with characters of these kinds: words, one fold apart.
Encoded(text) ==
    IF Len(text) <= 1 THEN <<"ascii">> ELSE <<"ascii", "cr", "lf", "space", "ascii">>

\* Runs of breaks become a space and NUL disappears: a subject is repaired
\* where every other header is refused.
foldSubject(subject) ==
    LET alone(i) == subject[i] \in Breaks /\ i > 1 => subject[i - 1] \notin Breaks
        kept == SelectSeq([i \in DOMAIN subject |-> i],
                          LAMBDA i : subject[i] # "nul" /\ alone(i))
        single == Trim([k \in DOMAIN kept |->
                            IF subject[kept[k]] \in Breaks THEN "space"
                            ELSE subject[kept[k]]])
    IN  IF isAscii(single) THEN single ELSE Encoded(single)

\* The lengths of the lines a header of these token lengths is folded into.
\* Only the tokens and the blanks between them are counted: the blank that
\* opens a continuation line is written afterwards.
foldHeaderLine(field, tokens, width) ==
    LET lines == FoldLeft(LAMBDA ls, t :
                            IF \/ Last(ls) + 1 + t <= width
                               \/ ls = <<field + 1>>
                            THEN [ls EXCEPT ![Len(ls)] = @ + 1 + t]
                            ELSE Append(ls, t),
                          <<field + 1>>, tokens)
    IN  [i \in DOMAIN lines |-> IF i = 1 THEN lines[1] ELSE 1 + lines[i]]

BadRequest == <<"BadRequest">>

\* An address is its shape (`email`: a valid address or something with the
\* syntax of a header in it) and a display name.
formatMimeAddress(address) ==
    LET name == Trim(address.name) IN
    IF address.email # "valid" THEN BadRequest
    ELSE IF name = <<>> THEN <<"ascii">>
    ELSE IF ~assertHeaderSafe(name) THEN BadRequest
    ELSE (IF isAscii(name) THEN name ELSE Encoded(name)) \o <<"space", "ascii">>

\* The headers of a message, or the refusal.  The parts that follow are
\* encoded: their text cannot end them.
buildMimeMessage(input) ==
    LET list(field, addresses) ==
            IF addresses = <<>> THEN <<>>
            ELSE <<[field |-> field,
                    values |-> [i \in DOMAIN addresses |->
                                    formatMimeAddress(addresses[i])]]>>
        line(field, values) ==
            IF values = <<>> THEN <<>> ELSE <<[field |-> field, values |-> values]>>
        headers == list("From", <<input.from>>) \o list("To", input.to)
                   \o list("Cc", input.cc) \o list("Bcc", input.bcc)
                   \o line("Subject", <<foldSubject(input.subject)>>)
                   \o line("In-Reply-To", input.inReplyTo)
                   \o line("References", input.references)
        refused(h) ==
            \E i \in DOMAIN h.values :
                \/ h.values[i] = BadRequest
                \/ h.field = "References" /\ ~assertHeaderSafe(h.values[i])
                \/ h.field # "Subject" /\ ~assertFoldedHeaderSafe(h.values[i])
    IN  IF input.to = <<>> \/ \E i \in DOMAIN headers : refused(headers[i])
        THEN BadRequest ELSE headers

(**************************** Coming in ***********************************)

\* What a URL is: of the network with a scheme or without one, of the message
\* itself, of another program, or a script's; "plain" is no URL at all.
Network == {"http", "https", "protocolRelative"}
UrlKind == Network \cup {"relative", "mailto", "cid", "dataImage", "dataText",
                         "javascript", "plain"}

REMOTE_SOURCE_ATTRS == {"src", "srcset", "background", "poster"}
Parked == {"data-blocked-src", "data-blocked-srcset", "data-blocked-background",
           "data-blocked-poster"}
ParkedName(attribute) ==
    CASE attribute = "src" -> "data-blocked-src"
      [] attribute = "srcset" -> "data-blocked-srcset"
      [] attribute = "background" -> "data-blocked-background"
      [] attribute = "poster" -> "data-blocked-poster"

ALLOWED_TAGS == {"a", "img", "div", "td"}
ALLOWED_ATTR == REMOTE_SOURCE_ATTRS \cup
                {"href", "style", "class", "bgcolor", "width", "align", "dir", "lang"}
ALLOWED_URI == Network \cup {"mailto", "cid", "dataImage"}
URI_SAFE_ATTR == {"bgcolor", "width", "align"}
\* The attributes DOMPurify itself holds for no URI.
DefaultSafe == {"class", "style"}

isRemoteUrl(kind) == kind \notin {"cid", "dataImage", "dataText"}

\* DOMPurify keeps an attribute that is allowed, and whose value is of an
\* allowed scheme unless the attribute is declared to hold no URI; an image's
\* own `data:` source passes as well.
Survives(tag, attribute, kind) ==
    /\ attribute \in ALLOWED_ATTR
    /\ \/ attribute \in URI_SAFE_ATTR \cup DefaultSafe
       \/ kind \in ALLOWED_URI
       \/ tag = "img" /\ attribute = "src" /\ kind = "dataText"

\* An element with the attributes `attrs` and the URLs its style names.
sanitizeEmailHtml(element) ==
    LET kept == {a \in DOMAIN element.attrs :
                    Survives(element.tag, a, element.attrs[a])}
        moved == {a \in kept \cap REMOTE_SOURCE_ATTRS : isRemoteUrl(element.attrs[a])}
        fetching == {u \in element.style : isRemoteUrl(u)}
        link == IF element.tag = "a" /\ "href" \in kept THEN {"target", "rel"} ELSE {}
    IN  [tag |-> element.tag,
         attrs |-> [a \in (kept \ moved) |-> element.attrs[a]],
         parked |-> [a \in {ParkedName(b) : b \in moved} |->
                        element.attrs[CHOOSE b \in moved : ParkedName(b) = a]],
         style |-> element.style \ fetching,
         own |-> link,
         blockedRemoteImages |-> Cardinality(moved \cap {"src", "srcset"})
                                 + IF fetching = {} THEN 0 ELSE 1]

\* The reader's click: a parked source is live again if it is of the network.
restoreBlockedImages(clean) ==
    LET live == {a \in REMOTE_SOURCE_ATTRS :
                    /\ ParkedName(a) \in DOMAIN clean.parked
                    /\ clean.parked[ParkedName(a)] \in Network}
        url(a) == IF clean.parked[ParkedName(a)] = "protocolRelative"
                  THEN "https" ELSE clean.parked[ParkedName(a)]
    IN  [clean EXCEPT !.attrs = [a \in DOMAIN clean.attrs \cup live |->
                                    IF a \in live THEN url(a) ELSE clean.attrs[a]],
                      !.parked = [a \in {} |-> "plain"]]

\* What the frame's policy lets an image be.
ImgSrc(loadRemoteImages) ==
    {"dataImage", "dataText"} \cup IF loadRemoteImages THEN {"http", "https"} ELSE {}

buildEmailFrameSrcDoc(clean, loadRemoteImages) ==
    [body |-> IF loadRemoteImages THEN restoreBlockedImages(clean) ELSE clean,
     imgSrc |-> ImgSrc(loadRemoteImages)]

\* The browser: the sources a document asks the network for.  A source without
\* a scheme has no base to resolve against, except that `//` means https.
Sources(body) ==
    body.style \cup {body.attrs[a] : a \in DOMAIN body.attrs \cap REMOTE_SOURCE_ATTRS}
Requests(document) ==
    {u \in Sources(document.body) \cap Network :
        (IF u = "protocolRelative" THEN "https" ELSE u) \in document.imgSrc}

\* What the reader is offered, or told, above the frame.
MessageBody(clean, loadRemoteImages) ==
    IF loadRemoteImages THEN "loaded"
    ELSE IF clean.blockedRemoteImages > 0 THEN "load images"
    ELSE "nothing"
=============================================================================
