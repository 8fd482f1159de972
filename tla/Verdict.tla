------------------------------- MODULE Verdict -------------------------------
(* The verdict on a message (apps/api/src/services/security): what the rules  *)
(* weigh, the level they require, how a model's reading is joined to it, and  *)
(* what a thread and its banner make of the verdicts of its messages.  A      *)
(* finding that a message may have several times is a number of times.        *)
EXTENDS Naturals, Sequences

Severity == [UNKNOWN |-> 0, SAFE |-> 1, SPAM |-> 2, SUSPICIOUS |-> 3, PHISHING |-> 4]
ThreatLevel == DOMAIN Severity

MoreSevere(a, b) == IF Severity[a] >= Severity[b] THEN a ELSE b

(* -------------------------------- evidence ------------------------------- *)

AuthVerdict == {"pass", "fail", "softfail", "neutral", "none", "temperror", "permerror"}
NoResult == "missing"      \* null: no result was recorded, which is not a pass
Auth == AuthVerdict \cup {NoResult}

Header ==
  [spf : Auth, dkim : Auth, dmarc : Auth,
   displayNameMismatch : BOOLEAN, replyToDiffers : BOOLEAN,
   returnPathAligned : {"yes", "no", "unknown"}]

\* Whom the sender's domain imitates: nobody, a correspondent's domain but for
\* the alphabet, or one that is near it.
Sender ==
  [imitates : {"nobody", "alphabet", "near"}, punycodeSender : BOOLEAN,
   firstTimeSender : BOOLEAN]

Links ==
  [rawIpHosts : Nat, punycodeHosts : Nat, lookalikeHosts : Nat, displayMismatches : Nat]

Attachments == [executable : Nat, macro : Nat, archive : Nat]

Signals == [header : Header, sender : Sender, urls : Links, attachments : Attachments]

(* --------------------------------- rules --------------------------------- *)

When(condition, weight) == IF condition THEN weight ELSE 0

DmarcWeight(h) ==
  When(h.dmarc = "fail", 45) + When(h.dmarc = NoResult, 12)
    + When(h.dmarc \in {"temperror", "permerror"}, 10)

Vouched(h) == h.dmarc = "pass"

\* SPF and DKIM count only where DMARC did not vouch: a forwarded message fails one.
SpfDkimWeight(h) ==
  IF Vouched(h) THEN 0
  ELSE When(h.spf = "fail", 25) + When(h.spf = "softfail", 10) + When(h.spf = NoResult, 6)
         + When(h.dkim = "fail", 25) + When(h.dkim \in {NoResult, "none"}, 6)

PartyWeight(h) ==
  When(h.displayNameMismatch, 35) + When(h.replyToDiffers, 20)
    + When(h.returnPathAligned = "no", 15) + When(h.returnPathAligned = "unknown", 5)

SenderWeight(s) ==
  When(s.imitates = "alphabet", 45) + When(s.imitates = "near", 35)
    + When(s.punycodeSender, 25) + When(s.firstTimeSender, 8)

LinkWeight(u) ==
  30 * u.rawIpHosts + 25 * u.punycodeHosts + 35 * u.lookalikeHosts
    + 30 * u.displayMismatches

AttachmentWeight(a) == 35 * a.executable + 30 * a.macro + 10 * a.archive

Weight(s) ==
  DmarcWeight(s.header) + SpfDkimWeight(s.header) + PartyWeight(s.header)
    + SenderWeight(s.sender) + LinkWeight(s.urls) + AttachmentWeight(s.attachments)

\* The findings with no innocent explanation: each requires suspicion by itself.
Damning(s) ==
  \/ s.header.dmarc = "fail"
  \/ s.header.displayNameMismatch
  \/ s.sender.imitates # "nobody"
  \/ s.urls.rawIpHosts > 0
  \/ s.urls.lookalikeHosts > 0
  \/ s.attachments.executable > 0
  \/ s.attachments.macro > 0

RULE_SUSPICION_THRESHOLD == 30
ESCALATE_RULE_SCORE == 45

Score(s) == IF Weight(s) > 100 THEN 100 ELSE Weight(s)

Rules(s) ==
  [score |-> Score(s),
   floor |-> IF Damning(s) \/ Score(s) >= RULE_SUSPICION_THRESHOLD
             THEN "SUSPICIOUS" ELSE "SAFE"]

\* The tier of the model that is asked.
Tier(rules) == IF rules.score >= ESCALATE_RULE_SCORE THEN "threatDeep" ELSE "threat"

(* --------------------------------- union --------------------------------- *)

ModelLevelScore == [SAFE |-> 0, SPAM |-> 40, SUSPICIOUS |-> 60, PHISHING |-> 85]
Reading == DOMAIN ModelLevelScore
Unread == "unread"        \* null: the cap, AI switched off

\* What the model's reading adds to the reasons: that the text is worse than the
\* checks say, or that they stand although it is milder.
Remark(rules, reading) ==
  IF reading = Unread \/ reading = rules.floor THEN "none"
  ELSE IF Severity[reading] > Severity[rules.floor] THEN "worse" ELSE "stands"

Union(rules, reading) ==
  IF reading = Unread THEN [level |-> rules.floor, score |-> rules.score, remark |-> "none"]
  ELSE [level |-> MoreSevere(rules.floor, reading),
        score |-> IF rules.score >= ModelLevelScore[reading]
                  THEN rules.score ELSE ModelLevelScore[reading],
        remark |-> Remark(rules, reading)]

(* -------------------------- threads and banners -------------------------- *)

\* The worst of the levels stored for a thread's messages.
Rollup(levels) ==
  CHOOSE l \in levels \cup {"UNKNOWN"} :
    \A m \in levels \cup {"UNKNOWN"} : Severity[l] >= Severity[m]

\* A message's level as the reader of a thread finds it: no row counts as unknown.
Candidates(thread) == {i \in DOMAIN thread : thread[i] # "UNKNOWN"}

\* threatAssessmentFor: the message the banner is about, the newest of the worst;
\* 0 when nothing was assessed.  A thread is the sequence of its levels.
Subject(thread) ==
  IF Candidates(thread) = {} THEN 0
  ELSE CHOOSE i \in Candidates(thread) :
         \A j \in Candidates(thread) :
           \/ Severity[thread[j]] < Severity[thread[i]]
           \/ thread[j] = thread[i] /\ j <= i

Flagged(level) == level \notin {"UNKNOWN", "SAFE"}

\* How loudly the banner speaks of a level that has reasons or none.
Loudness(level, reasons, appealed) ==
  IF ~Flagged(level) THEN IF reasons THEN "note" ELSE "nothing"
  ELSE IF appealed THEN "stood down" ELSE "alarm"
=============================================================================
