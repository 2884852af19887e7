----------------------------- MODULE SpamScore ------------------------------
(***************************************************************************)
(* How a message that arrives on :25 is judged: SPF, DKIM and DMARC        *)
(* (mail/authentication.py), the reputation lists (mail/reputation.py),    *)
(* the score (mail/spam.py) and the headers that carry the verdict to      *)
(* Dovecot (mail/headers.py).  Points are tenths, exactly as the header    *)
(* shows them.                                                             *)
(***************************************************************************)
EXTENDS Integers, SequencesExt

CONSTANTS
    AddressZones,   \* cfg.spam.dnsbl_zones
    DomainZones,    \* cfg.spam.domain_blocklist_zones
    JunkThreshold,  \* cfg.spam.junk_threshold
    SpamEnabled     \* cfg.spam.enabled

ASSUME ScoreAssumption ==
    JunkThreshold \in Nat /\ SpamEnabled \in BOOLEAN /\ AddressZones \cap DomainZones = {}

Results == {"pass", "fail", "softfail", "neutral", "none", "temperror", "permerror"}

is_inconclusive(r) == r \in {"none", "temperror", "permerror", "neutral"}

\* A domain is the sequence of its labels.
NoDomain == <<>>

\* A message, as it is and as whoever is asked about it answers; its links are the
\* domains it links to, each once, in order.
Message ==
    [spf : STRING, dkim : STRING, dmarc : STRING, global : BOOLEAN,
     sender : Seq(STRING), helo : Seq(STRING), signer : Seq(STRING), from : Seq(STRING),
     links : Seq(Seq(STRING)), manner : [AddressZones \cup DomainZones -> STRING],
     entries : SUBSET ((AddressZones \cup DomainZones) \X Seq(STRING)),
     flaws : SUBSET STRING, executables : SUBSET Nat,
     parts : SUBSET [disposition : STRING, named : BOOLEAN],
     rspamd : SUBSET (Seq(STRING) \X Int), size : Int, words : SUBSET Seq(STRING)]

-----------------------------------------------------------------------------
(* Authentication.  An answer is what the library says, or how asking it   *)
(* ends.                                                                   *)

\* Mutant: an exception is a failed check.
check_spf_mut(answer) ==
    CASE answer \in {"no address", "no domain"} -> "none"
      [] answer = "timeout" -> "temperror"
      [] answer = "error"   -> "fail"
      [] answer = "unheard" -> "neutral"
      [] OTHER -> answer

\* "unheard": a verdict outside RFC 8601.
check_spf(answer) ==
    CASE answer \in {"no address", "no domain"} -> "none"
      [] answer \in {"timeout", "error"} -> "temperror"
      [] answer = "unheard" -> "neutral"
      [] OTHER -> answer

\* An exception is taken for a malformed signature, whatever raised it: "error" is a
\* look-up that failed.
check_dkim(answer) ==
    CASE answer = "unsigned" -> "none"
      [] answer = "timeout"  -> "temperror"
      [] answer \in {"malformed", "error"} -> "permerror"
      [] answer = "valid"    -> "pass"
      [] answer = "invalid"  -> "fail"

\* _aligned: one domain is the other, or a subdomain of it.
aligned(candidate, from) ==
    candidate # NoDomain /\ (IsSuffix(candidate, from) \/ IsSuffix(from, candidate))

\* _dmarc_policy: {} when nothing is published, and when the look-up fails.
dmarc_policy(answer) == IF answer \in {"absent", "error"} THEN {} ELSE {answer}

\* A null sender is checked by the name in HELO.
SpfDomain(m) == IF m.sender # NoDomain THEN m.sender ELSE m.helo

check_dmarc(m, spf, dkim) ==
    IF m.from = NoDomain \/ dmarc_policy(m.dmarc) = {} THEN "none"
    ELSE IF \/ spf = "pass" /\ aligned(SpfDomain(m), m.from)
            \/ dkim = "pass" /\ aligned(m.signer, m.from) THEN "pass"
    ELSE IF "temperror" \in {spf, dkim} THEN "temperror"
    ELSE "fail"

-----------------------------------------------------------------------------
(* Reputation lists. *)

classify(answer) ==
    CASE answer \in {"127.0.0.1", "127.255.255.254"} -> "refused"
      [] answer = "127.0.0.2" -> "listed"
      [] OTHER -> "invalid"

\* External: how a list, or the resolver before it, answers for a name it
\* has, or has not, an entry for.  "down": no answer, or an exception.
ListAnswers(manner, entry) ==
    CASE manner = "honest"     -> IF entry THEN {"127.0.0.2"} ELSE {}
      [] manner = "refuses"    -> {"127.255.255.254"}
      [] manner = "declines"   -> {"127.0.0.1"}
      [] manner = "rewrites"   -> {"198.51.100.7"}
      [] manner = "everything" -> {"127.0.0.2"}
      [] OTHER -> {}

\* ip_query and domain_query: what has a name to ask for.
Askable(subject) == Len(subject) >= 2

MAX_LINK_DOMAINS == 10

link_domains(m) == {m.links[i] : i \in {i \in DOMAIN m.links : i <= MAX_LINK_DOMAINS}}

\* The sender's domains and the links': each once.
Subjects(m) == {d \in {m.sender, m.from} \cup link_domains(m) : Askable(d)}

Address == <<"address">>

lookups(m) ==
    (IF m.global THEN AddressZones \X {Address} ELSE {}) \cup (DomainZones \X Subjects(m))

\* check and _lookup: the listings, as <<zone, subject>>.
check(m) ==
    {l \in lookups(m) : \E a \in ListAnswers(m.manner[l[1]], l \in m.entries) : classify(a) = "listed"}

\* probe: what `lightr spam lists` says of a zone.
probe(manner) ==
    LET verdicts == {classify(a) : a \in ListAnswers(manner, TRUE)}
    IN  CASE "refused" \in verdicts -> "refused"
          [] "listed" \notin verdicts -> "no answer"
          [] ListAnswers(manner, FALSE) # {} -> "lists everything"
          [] OTHER -> "working"

-----------------------------------------------------------------------------
(* The score: a set of reasons <<what, points>>. *)

BLOCKLIST_CAP == 60

listing_points(l) == IF l[2] = Address THEN 30 ELSE 25

Least(a, b) == IF a < b THEN a ELSE b

\* _score_reputation: each listing takes its points from what is left of the
\* cap.  The order of the look-ups does not change the total.
score_reputation(listings) ==
    FoldLeft(LAMBDA score, l :
                 LET points == Least(listing_points(l), score.remaining)
                 IN  IF points <= 0 THEN score
                     ELSE [remaining |-> score.remaining - points,
                           reasons   |-> score.reasons \cup {<<l, points>>}],
             [remaining |-> BLOCKLIST_CAP, reasons |-> {}], SetToSeq(listings)).reasons

When(seen, what, points) == IF seen THEN {<<<<what>>, points>>} ELSE {}

score_authentication(spf, dkim, dmarc, policy) ==
    When(spf = "fail", "spf=fail", 30) \cup When(spf = "softfail", "spf=softfail", 10)
        \cup When(dkim = "fail", "dkim=fail", 25)
        \cup When(dmarc = "fail", "dmarc=fail", IF policy = {"reject"} THEN 50 ELSE 35)
        \cup When(spf = "none" /\ is_inconclusive(dkim) /\ is_inconclusive(dmarc),
                  "nothing to verify", 5)

\* _score_headers and _score_content: what is wrong with the message itself.
Flaws == {<<"no message-id", 5>>, <<"no date", 5>>, <<"all caps", 7>>, <<"punctuation", 5>>,
          <<"many recipients", 5>>, <<"html only", 5>>, <<"empty body", 7>>}

score_content(m) ==
    UNION {When(f[1] \in m.flaws, f[1], f[2]) : f \in Flaws}
        \cup {<<<<"executable", part>>, 20>> : part \in m.executables}

score_message(m, spf, dkim, dmarc) ==
    score_authentication(spf, dkim, dmarc, dmarc_policy(m.dmarc))
        \cup score_reputation(check(m)) \cup score_content(m)

Total(reasons) == MapThenSumSet(LAMBDA r : r[2], reasons)

\* Which parts are attachments; m.parts is empty when it is not multipart.
has_attachment(m) ==
    \E p \in m.parts : p.disposition = "attachment" \/ (p.named /\ p.disposition # "inline")

\* Mail of an authenticated user is not judged.
Unjudged(m) == [points |-> 0, spam |-> FALSE, reasons |-> {}, spf |-> "none", dkim |-> "none",
                dmarc |-> "none", attachment |-> has_attachment(m)]

\* Score.verdict: is_junk.
verdict(points) == points >= JunkThreshold

\* rspamd has the last word: m.rspamd is {} when none is configured or it does not
\* answer, and its score as a reason when it does.
analyse(m, submitted) ==
    IF submitted \/ ~SpamEnabled THEN Unjudged(m)
    ELSE LET spf     == check_spf(m.spf)
             dkim    == check_dkim(m.dkim)
             dmarc   == check_dmarc(m, spf, dkim)
             reasons == IF m.rspamd # {} THEN m.rspamd ELSE score_message(m, spf, dkim, dmarc)
         IN  [points |-> Total(reasons), spam |-> verdict(Total(reasons)), reasons |-> reasons,
              spf |-> spf, dkim |-> dkim, dmarc |-> dmarc, attachment |-> has_attachment(m)]

=============================================================================
