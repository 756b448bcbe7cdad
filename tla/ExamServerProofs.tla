-------------------------- MODULE ExamServerProofs --------------------------
(***************************************************************************)
(* The exam side of the node server.                                       *)
(*                                                                         *)
(* First the two pure parts of what it reports.  What the weights and the  *)
(* floors of riskScoring.js add up to, for every window and every helper:  *)
(* no choice of counters lets evidence that the code calls critical end    *)
(* below Critical, more evidence never scores lower, and the clamp of      *)
(* sanitiseTelemetry never changes a score.  What the verification of a    *)
(* chained log (hmacChain.js, verifyAudit.js) says and what it does not,   *)
(* for every cap, key, type and length: the log the server appends to      *)
(* always verifies, a log cut short verifies as well, and only the         *)
(* declared count of an export tells the two apart.                        *)
(*                                                                         *)
(* Then the server itself, for every number of students, sessions, nodes   *)
(* and challenges, every capacity of its tables, every telemetry a client  *)
(* may send and every order of handlers, timers and answers of the model.  *)
(***************************************************************************)
EXTENDS ExamServer, FiniteSetTheorems, SequenceTheorems, TLAPS

(* Windows, helpers and sessions as the scoring sees them.                 *)
Windows == [ typed : Nat, wpm : Nat, blurs : Nat, offMs : Nat, paste : Nat, idleMs : Nat ]

Helpers == [ connected : BOOLEAN, hostile : BOOLEAN, device : 0..100, forced : BOOLEAN ]

Sessions == [ reconnects : Nat, aged : BOOLEAN ]

LEMMA WindowTypes ==
  ASSUME NEW t \in Windows
  PROVE  /\ t.typed \in Nat /\ t.wpm \in Nat /\ t.blurs \in Nat
         /\ t.offMs \in Nat /\ t.paste \in Nat /\ t.idleMs \in Nat
BY DEF Windows

LEMMA HelperTypes ==
  ASSUME NEW h \in Helpers
  PROVE  h.device \in 0..100 /\ h.hostile \in BOOLEAN /\ h.forced \in BOOLEAN
         /\ h.connected \in BOOLEAN
BY DEF Helpers

(* The parts of the score are numbers between 0 and 100, and none of them  *)
(* is lower for a window that shows no less.                               *)
LEMMA PartsBounded ==
  ASSUME NEW t \in Windows
  PROVE  /\ PasteRisk(t) \in 0..100 /\ FocusRisk(t) \in 0..100
         /\ TypingRisk(t) \in 0..100 /\ IdleRisk(t) \in 0..100
<1> USE WindowTypes
<1>1. PasteRisk(t) \in 0..100
  BY DEF PasteRisk
<1>2. FocusRisk(t) \in 0..100
  <2> DEFINE away == IF t.offMs >= 30000 THEN 40 ELSE IF t.offMs >= 10000 THEN 20
                     ELSE IF t.offMs >= 3000 THEN 10 ELSE 0
             blur == IF t.blurs >= 4 THEN 80 ELSE IF t.blurs >= 2 THEN 50
                     ELSE IF t.blurs = 1 THEN 20 ELSE 0
  <2>1. away \in 0..40 /\ blur \in 0..80
    OBVIOUS
  <2>2. FocusRisk(t) = AtMost(100, blur + away)
    BY DEF FocusRisk
  <2> HIDE DEF away, blur
  <2> QED
    BY <2>1, <2>2 DEF AtMost
<1>3. TypingRisk(t) \in 0..100
  BY DEF TypingRisk
<1>4. IdleRisk(t) \in 0..100
  BY DEF IdleRisk
<1> QED
  BY <1>1, <1>2, <1>3, <1>4

LEMMA PartsMonotone ==
  ASSUME NEW t \in Windows, NEW u \in Windows, NoLess(t, u)
  PROVE  /\ PasteRisk(u) >= PasteRisk(t) /\ FocusRisk(u) >= FocusRisk(t)
         /\ TypingRisk(u) >= TypingRisk(t) /\ IdleRisk(u) >= IdleRisk(t)
<1> USE WindowTypes
<1>1. PasteRisk(u) >= PasteRisk(t)
  BY DEF PasteRisk, NoLess
<1>2. FocusRisk(u) >= FocusRisk(t)
  <2> DEFINE away(w) == IF w.offMs >= 30000 THEN 40 ELSE IF w.offMs >= 10000 THEN 20
                        ELSE IF w.offMs >= 3000 THEN 10 ELSE 0
             blur(w) == IF w.blurs >= 4 THEN 80 ELSE IF w.blurs >= 2 THEN 50
                        ELSE IF w.blurs = 1 THEN 20 ELSE 0
  <2>1. away(u) >= away(t) /\ blur(u) >= blur(t)
    BY DEF NoLess
  <2>2. \A w \in Windows : away(w) \in Nat /\ blur(w) \in Nat
    OBVIOUS
  <2>3. FocusRisk(t) = AtMost(100, blur(t) + away(t))
        /\ FocusRisk(u) = AtMost(100, blur(u) + away(u))
    BY DEF FocusRisk
  <2> HIDE DEF away, blur
  <2> QED
    BY <2>1, <2>2, <2>3 DEF AtMost
<1>3. TypingRisk(u) >= TypingRisk(t)
  BY DEF TypingRisk, NoLess
<1>4. IdleRisk(u) >= IdleRisk(t)
  BY DEF IdleRisk, NoLess
<1> QED
  BY <1>1, <1>2, <1>3, <1>4

(* The weighted sum is a number, and grows with the window.                *)
LEMMA WeightedMonotone ==
  ASSUME NEW h \in Helpers, NEW s \in Sessions, NEW t \in Windows, NEW u \in Windows
  PROVE  /\ Weighted(t, h, s) \in Nat
         /\ NoLess(t, u) => Weighted(u, h, s) >= Weighted(t, h, s)
<1> DEFINE hostile == IF h.hostile THEN 100 ELSE 0
           absent == IF ~h.connected /\ s.aged THEN 100 ELSE 0
           device == h.device
           again == ReconnectRisk(s)
<1>1. hostile \in Nat /\ absent \in Nat
  OBVIOUS
<1>2. device \in Nat
  BY HelperTypes
<1>3. again \in Nat
  <2>1. s.reconnects \in Nat
    BY DEF Sessions
  <2> QED
    BY <2>1 DEF ReconnectRisk
<1>4. \A w \in Windows : Weighted(w, h, s) =
        25 * PasteRisk(w) + 18 * FocusRisk(w) + 15 * TypingRisk(w) + 10 * IdleRisk(w)
          + 18 * hostile + 5 * absent + 9 * device + 5 * again
  BY DEF Weighted
<1> HIDE DEF hostile, absent, device, again
<1>5. PasteRisk(t) \in Nat /\ FocusRisk(t) \in Nat /\ TypingRisk(t) \in Nat
      /\ IdleRisk(t) \in Nat
  BY PartsBounded
<1>6. PasteRisk(u) \in Nat /\ FocusRisk(u) \in Nat /\ TypingRisk(u) \in Nat
      /\ IdleRisk(u) \in Nat
  BY PartsBounded
<1>7. Weighted(t, h, s) \in Nat
  BY <1>1, <1>2, <1>3, <1>4, <1>5
<1>8. NoLess(t, u) => Weighted(u, h, s) >= Weighted(t, h, s)
  BY <1>1, <1>2, <1>3, <1>4, <1>5, <1>6, PartsMonotone
<1> QED
  BY <1>7, <1>8

-----------------------------------------------------------------------------
(* The score is the weighted sum raised by its floors: a floor is reached  *)
(* whenever its condition holds, because what follows only raises it.      *)
Floors(t, h) ==
  { f \in {40, 75, 85} :
      \/ f = 75 /\ t.paste >= 200 /\ t.typed < 20
      \/ f = 40 /\ t.paste >= 80
      \/ f = 85 /\ h.hostile
      \/ f = 40 /\ h.device >= 40 /\ ~h.forced
      \/ f = 85 /\ h.forced }

Rounded(t, h, s) == AtMost(100, (Weighted(t, h, s) + 50) \div 100)

LEMMA RoundedMonotone ==
  ASSUME NEW h \in Helpers, NEW s \in Sessions, NEW t \in Windows, NEW u \in Windows
  PROVE  /\ Rounded(t, h, s) \in 0..100
         /\ NoLess(t, u) => Rounded(u, h, s) >= Rounded(t, h, s)
<1>1. \A x, y \in Nat : /\ (x + 50) \div 100 \in Nat
                        /\ y >= x => (y + 50) \div 100 >= (x + 50) \div 100
  BY SMT
<1> QED
  BY <1>1, WeightedMonotone DEF Rounded, AtMost

LEMMA ScoreIsFloored ==
  ASSUME NEW h \in Helpers, NEW s \in Sessions, NEW t \in Windows
  PROVE  /\ Score(t, h, s) \in 0..100
         /\ Score(t, h, s) >= Rounded(t, h, s)
         /\ \A f \in Floors(t, h) : Score(t, h, s) >= f
         /\ Score(t, h, s) \in {Rounded(t, h, s)} \cup Floors(t, h)
<1> DEFINE pastes == t.paste >= 200 /\ t.typed < 20
           devices == h.device >= 40 /\ ~h.forced
           r == Rounded(t, h, s)
           a == IF pastes THEN AtLeast(r, 75) ELSE r
           b == IF t.paste >= 80 THEN AtLeast(a, 40) ELSE a
           c == IF h.hostile THEN AtLeast(b, 85) ELSE b
           d == IF devices THEN AtLeast(c, 40) ELSE c
           e == IF h.forced THEN AtLeast(d, 85) ELSE d
           F == Floors(t, h)
<1>1. Score(t, h, s) = e
  BY DEF Score, Rounded
<1>2. r \in 0..100
  BY RoundedMonotone
<1>3. /\ F \subseteq 0..100
      /\ pastes => 75 \in F
      /\ t.paste >= 80 => 40 \in F
      /\ h.hostile => 85 \in F
      /\ devices => 40 \in F
      /\ h.forced => 85 \in F
      /\ \A f \in F : \/ f = 75 /\ pastes
                      \/ f = 40 /\ t.paste >= 80
                      \/ f = 85 /\ h.hostile
                      \/ f = 40 /\ devices
                      \/ f = 85 /\ h.forced
  BY DEF Floors
<1> HIDE DEF r, F
<1>4. a \in 0..100 /\ a >= r /\ (pastes => a >= 75) /\ a \in {r} \cup F
  BY <1>2, <1>3 DEF AtLeast
<1> HIDE DEF a
<1>5. b \in 0..100 /\ b >= a /\ (t.paste >= 80 => b >= 40) /\ b \in {r} \cup F
  BY <1>3, <1>4 DEF AtLeast
<1> HIDE DEF b
<1>6. c \in 0..100 /\ c >= b /\ (h.hostile => c >= 85) /\ c \in {r} \cup F
  BY <1>3, <1>5 DEF AtLeast
<1> HIDE DEF c
<1>7. d \in 0..100 /\ d >= c /\ (devices => d >= 40) /\ d \in {r} \cup F
  BY <1>3, <1>6 DEF AtLeast
<1> HIDE DEF d
<1>8. e \in 0..100 /\ e >= d /\ (h.forced => e >= 85) /\ e \in {r} \cup F
  BY <1>3, <1>7 DEF AtLeast
<1> HIDE DEF e
<1>9. \A f \in F : e >= f
  BY <1>2, <1>3, <1>4, <1>5, <1>6, <1>7, <1>8
<1>10. e >= r
  BY <1>2, <1>4, <1>5, <1>6, <1>7, <1>8
<1> QED
  BY <1>1, <1>8, <1>9, <1>10 DEF r, F

-----------------------------------------------------------------------------
(* Evidence decides: 200 pasted characters with hardly any typing, a       *)
(* hostile process or a device that forces it end in Critical, and a paste *)
(* of 80 characters or a device risk of 40 never in Safe, whatever the     *)
(* other counters say (riskScoring.js, the floors and the level).          *)
THEOREM EvidenceDecides ==
  ASSUME NEW t \in Windows, NEW h \in Helpers, NEW s \in Sessions
  PROVE  /\ HardCritical(t, h) => LevelOf(Score(t, h, s)) = "Critical"
         /\ AtLeastWarning(t, h) => LevelOf(Score(t, h, s)) # "Safe"
<1>1. Score(t, h, s) \in 0..100 /\ \A f \in Floors(t, h) : Score(t, h, s) >= f
  BY ScoreIsFloored
<1>2. HardCritical(t, h) => 75 \in Floors(t, h) \/ 85 \in Floors(t, h)
  BY DEF HardCritical, Floors
<1>3. AtLeastWarning(t, h) => 40 \in Floors(t, h) \/ 85 \in Floors(t, h)
  BY HelperTypes DEF AtLeastWarning, Floors
<1> QED
  BY <1>1, <1>2, <1>3 DEF LevelOf

(* More evidence never scores lower: no counter of a window can be raised, *)
(* and no typing taken away, so that the risk falls (riskScoring.js,       *)
(* scoreAcademicRisk as a whole).                                          *)
THEOREM ScoreIsMonotone ==
  ASSUME NEW t \in Windows, NEW u \in Windows, NEW h \in Helpers, NEW s \in Sessions,
         NoLess(t, u)
  PROVE  Score(u, h, s) >= Score(t, h, s)
<1>1. Floors(t, h) \subseteq Floors(u, h)
  BY WindowTypes, HelperTypes DEF Floors, NoLess
<1>2. Rounded(u, h, s) >= Rounded(t, h, s) /\ Rounded(t, h, s) \in 0..100
      /\ Rounded(u, h, s) \in 0..100
  BY RoundedMonotone
<1>3. Score(u, h, s) \in 0..100 /\ Score(u, h, s) >= Rounded(u, h, s)
      /\ \A f \in Floors(u, h) : Score(u, h, s) >= f
  BY ScoreIsFloored
<1>4. Score(t, h, s) \in {Rounded(t, h, s)} \cup Floors(t, h)
  BY ScoreIsFloored
<1> QED
  BY <1>1, <1>2, <1>3, <1>4

(* The clamp loses nothing: every threshold of the scoring lies below the  *)
(* maximum its counter is clamped to, so a window that is accepted scores  *)
(* the same before and after it (server.js, sanitiseTelemetry).            *)
THEOREM ClampKeepsScore ==
  ASSUME NEW raw \in Windows, NEW h \in Helpers, NEW s \in Sessions
  PROVE  Sanitised(raw) \in Windows /\ Score(Sanitised(raw), h, s) = Score(raw, h, s)
<1> DEFINE w == Sanitised(raw)
<1>1. /\ w.typed = AtMost(5000, raw.typed) /\ w.wpm = AtMost(1000, raw.wpm)
      /\ w.blurs = AtMost(200, raw.blurs) /\ w.offMs = AtMost(600000, raw.offMs)
      /\ w.paste = AtMost(200000, raw.paste) /\ w.idleMs = AtMost(600000, raw.idleMs)
  BY DEF Sanitised, FieldMax
<1>2. w \in Windows
  <2>1. DOMAIN FieldMax = {"typed", "wpm", "blurs", "offMs", "paste", "idleMs"}
    BY DEF FieldMax
  <2>2. w = [ typed |-> w.typed, wpm |-> w.wpm, blurs |-> w.blurs, offMs |-> w.offMs,
              paste |-> w.paste, idleMs |-> w.idleMs ]
    BY <2>1 DEF Sanitised
  <2>3. /\ w.typed \in Nat /\ w.wpm \in Nat /\ w.blurs \in Nat
        /\ w.offMs \in Nat /\ w.paste \in Nat /\ w.idleMs \in Nat
    BY <1>1, WindowTypes DEF AtMost
  <2> HIDE DEF w
  <2> QED
    BY <2>2, <2>3 DEF Windows
<1> HIDE DEF w
<1>3. PasteRisk(w) = PasteRisk(raw) /\ TypingRisk(w) = TypingRisk(raw)
      /\ IdleRisk(w) = IdleRisk(raw)
  BY <1>1, WindowTypes DEF PasteRisk, TypingRisk, IdleRisk, AtMost
<1>4. FocusRisk(w) = FocusRisk(raw)
  BY <1>1, WindowTypes DEF FocusRisk, AtMost
<1>5. Weighted(w, h, s) = Weighted(raw, h, s)
  BY <1>3, <1>4 DEF Weighted
<1>6. (w.paste >= 200 <=> raw.paste >= 200) /\ (w.typed < 20 <=> raw.typed < 20)
      /\ (w.paste >= 80 <=> raw.paste >= 80)
  BY <1>1, WindowTypes DEF AtMost
<1>7. Score(w, h, s) = Score(raw, h, s)
  BY <1>5, <1>6 DEF Score
<1> QED
  BY <1>2, <1>7 DEF w
-----------------------------------------------------------------------------
(* The chained log.  S is any set that holds its entries.                  *)
Log(entries, prev, cut) == [prevHash |-> prev, entries |-> entries, truncated |-> cut]

(* What a log keeps: it verifies, and its next entry will point at the     *)
(* signature of its last.                                                  *)
Sealed(log, key) ==
  /\ VerifyChain(log.entries, key)
  /\ log.prevHash = IF Len(log.entries) = 0 THEN Genesis
                    ELSE log.entries[Len(log.entries)].sig

(* An empty log is sealed (hmacChain.js, createChain).                     *)
THEOREM NewChainSealed == ASSUME NEW key PROVE Sealed(NewChain, key)
<1>1. NewChain.entries = <<>> /\ NewChain.prevHash = Genesis
  BY DEF NewChain
<1>2. Len(NewChain.entries) = 0
  BY <1>1
<1> QED
  BY <1>1, <1>2 DEF Sealed, VerifyChain

(* Appending keeps a log sealed, at the cap and past it too, so the chain  *)
(* the server reports on verifies at every moment (hmacChain.js,           *)
(* appendEntry).                                                           *)
THEOREM AppendKeepsSealed ==
  ASSUME NEW S, NEW entries \in Seq(S), NEW prev, NEW cut \in BOOLEAN, NEW key, NEW type,
         Entry(key, Len(entries), type, prev) \in S,
         Sealed(Log(entries, prev, cut), key)
  PROVE  Sealed(AppendEntry(Log(entries, prev, cut), key, type), key)
<1> DEFINE log == Log(entries, prev, cut)
           e == Entry(key, Len(entries), type, prev)
           n == Len(entries)
<1>1. log.entries = entries /\ log.prevHash = prev /\ log.truncated = cut
  BY DEF Log
<1>2. n \in Nat
  OBVIOUS
<1>3. /\ \A i \in 1..n : /\ entries[i].sig = Sign(key, entries[i].seq, entries[i].type,
                                                  entries[i].prev)
                         /\ entries[i].prev = IF i = 1 THEN Genesis ELSE entries[i - 1].sig
      /\ prev = IF n = 0 THEN Genesis ELSE entries[n].sig
  BY <1>1 DEF Sealed, VerifyChain
<1>4. CASE cut \/ n >= ChainCap
  <2>1. \/ AppendEntry(log, key, type) = log
        \/ AppendEntry(log, key, type) = [log EXCEPT !.truncated = TRUE]
    BY <1>1, <1>4 DEF AppendEntry
  <2>2. AppendEntry(log, key, type).entries = entries
        /\ AppendEntry(log, key, type).prevHash = prev
    BY <2>1, <1>1 DEF Log
  <2> QED
    BY <1>3, <2>2 DEF Sealed, VerifyChain
<1>5. CASE ~cut /\ ~(n >= ChainCap)
  <2> DEFINE longer == Append(entries, e)
  <2>1. AppendEntry(log, key, type) = Log(longer, e.sig, cut)
    BY <1>1, <1>5 DEF AppendEntry, Log
  <2>2. /\ longer \in Seq(S) /\ Len(longer) = n + 1
        /\ \A i \in 1..n : longer[i] = entries[i]
        /\ longer[n + 1] = e
    OBVIOUS
  <2>3. /\ e.sig = Sign(key, e.seq, e.type, e.prev) /\ e.prev = prev
    BY DEF Entry
  <2> HIDE DEF longer, e, n
  <2>4. VerifyChain(longer, key)
    <3> SUFFICES ASSUME NEW i \in 1..Len(longer)
                 PROVE  /\ longer[i].sig = Sign(key, longer[i].seq, longer[i].type,
                                                longer[i].prev)
                        /\ longer[i].prev = IF i = 1 THEN Genesis ELSE longer[i - 1].sig
      BY DEF VerifyChain
    <3>1. CASE i \in 1..n
      <4>1. longer[i] = entries[i] /\ (i # 1 => longer[i - 1] = entries[i - 1])
        BY <1>2, <2>2, <3>1
      <4> QED
        BY <1>3, <3>1, <4>1
    <3>2. CASE i = n + 1
      <4>1. longer[i] = e /\ (n # 0 => longer[i - 1] = entries[n])
        BY <1>2, <2>2, <3>2
      <4>2. i = 1 <=> n = 0
        BY <1>2, <3>2
      <4> QED
        BY <1>3, <2>3, <4>1, <4>2
    <3> QED
      BY <1>2, <2>2, <3>1, <3>2
  <2>5. Sealed(Log(longer, e.sig, cut), key)
    BY <1>2, <2>2, <2>4 DEF Sealed, Log
  <2> QED
    BY <2>1, <2>5
<1> QED
  BY <1>4, <1>5

(* A log cut short still verifies: nothing in the entries says how many    *)
(* there should be, so every prefix of a good chain is a good chain        *)
(* (hmacChain.js, verifyChain walks the entries alone).                    *)
THEOREM PrefixVerifies ==
  ASSUME NEW S, NEW entries \in Seq(S), NEW key, VerifyChain(entries, key),
         NEW n \in 0..Len(entries)
  PROVE  VerifyChain(SubSeq(entries, 1, n), key)
<1> DEFINE cut == SubSeq(entries, 1, n)
<1>1. Len(cut) = n /\ \A i \in 1..n : cut[i] = entries[i]
  OBVIOUS
<1> HIDE DEF cut
<1>2. ASSUME NEW i \in 1..Len(cut)
      PROVE  /\ cut[i].sig = Sign(key, cut[i].seq, cut[i].type, cut[i].prev)
             /\ cut[i].prev = IF i = 1 THEN Genesis ELSE cut[i - 1].sig
  <2>1. i \in 1..Len(entries) /\ cut[i] = entries[i]
        /\ (i # 1 => cut[i - 1] = entries[i - 1])
    BY <1>1
  <2> QED
    BY <2>1 DEF VerifyChain
<1>3. VerifyChain(cut, key)
  BY <1>2 DEF VerifyChain
<1> QED
  BY <1>3 DEF cut

(* The export check notices the cut exactly when the export declares a     *)
(* count: with the count of the whole log a shorter one is refused, with   *)
(* none it passes (verifyAudit.js).                                        *)
THEOREM OnlyTheCountShowsACut ==
  ASSUME NEW S, NEW entries \in Seq(S), NEW key, VerifyChain(entries, key),
         NEW n \in Nat, n < Len(entries)
  PROVE  LET cut(count) == [entries |-> SubSeq(entries, 1, n), truncated |-> FALSE,
                            count |-> count]
         IN /\ ~VerifyAuditExport(cut(Len(entries)), key)
            /\ VerifyAuditExport(cut(NoCount), key)
<1> DEFINE short == SubSeq(entries, 1, n)
<1>1. Len(entries) \in Nat /\ Len(short) = n
  OBVIOUS
<1>2. VerifyChain(short, key)
  BY <1>1, PrefixVerifies
<1> HIDE DEF short
<1>3. ~VerifyAuditExport([entries |-> short, truncated |-> FALSE,
                          count |-> Len(entries)], key)
  BY <1>1 DEF VerifyAuditExport, NoCount
<1>4. VerifyAuditExport([entries |-> short, truncated |-> FALSE, count |-> NoCount], key)
  BY <1>2 DEF VerifyAuditExport
<1> QED
  BY <1>3, <1>4 DEF short

-----------------------------------------------------------------------------
(* The inductive invariant.                                                *)

Levels == {"Safe", "Warning", "Critical"}

Verdicts == [level : Levels, score : 0..100]

IsChain(c) ==
  /\ c \in [prevHash : {c.prevHash}, entries : {c.entries}, truncated : BOOLEAN]
  /\ \E S : c.entries \in Seq(S)
  /\ Len(c.entries) <= ChainCap

IsSession(x) ==
  /\ x \in [ live : {TRUE}, last : Nat, startedAt : Nat, chain : {x.chain},
             peak : Verdicts \cup {NoVerdict}, history : SUBSET Verdicts ]
  /\ x.startedAt <= x.last
  /\ IsChain(x.chain)

Worst(x) ==
  \A v \in x.history : \/ Rank(x.peak.level) > Rank(v.level)
                       \/ x.peak.level = v.level /\ x.peak.score >= v.score

(* A chain that may have lost its end tells nothing; any other tells how   *)
(* far the exam of its session has come.                                   *)
Cut(c) == c.truncated \/ Len(c.entries) = ChainCap

Of(c, type) == {i \in 1..Len(c.entries) : c.entries[i].type = type}

Tells(c, state) ==
  \/ Cut(c)
  \/ /\ state \in {"none", "joined", "privacy_accepted"} => Of(c, "exam_started") = {}
     /\ state = "exam_started" =>
          \E i \in 1..Len(c.entries) : Of(c, "exam_started") = {i}
     /\ state # "submitted" => Of(c, "exam_submitted") = {}
     /\ state = "submitted" =>
          \E i, j \in 1..Len(c.entries) :
             i < j /\ Of(c, "exam_started") = {i} /\ Of(c, "exam_submitted") = {j}

SessionOK(s) ==
  sessions[s] = NoSession \/
    /\ IsSession(sessions[s])
    /\ sessions[s].last <= now
    /\ Worst(sessions[s])
    /\ Tells(sessions[s].chain, exams[s].state)

(* Whoever holds a token of a session that is gone holds one that expired. *)
TokenBound(s) ==
  Joined(s) => IF sessions[s].live THEN tokenExp[s] <= sessions[s].last + TokenTtl
               ELSE tokenExp[s] < now

OnlyJoinedHaveDevices(s) ==
  ~Joined(s) => dev.paired[s] = NoOne /\ dev.record[s].excludedMax = 0

RiskReaches(s) ==
  sessions[s].live /\ dev.record[s].excludedMax > 0 =>
    \/ sessions[s].peak.level = "Critical"
    \/ \E c \in calls : c.session = s /\ c.verdict.level = "Critical"

OneNode(s) ==
  node.paired[s] # NoOne /\ node.bound[s] # NoOne => node.paired[s] = node.bound[s]

(* The call of a telemetry request ends before its session can be evicted. *)
CallOK(c) ==
  /\ c.session \in Ids /\ c.verdict \in Verdicts /\ c.due \in Nat
  /\ sessions[c.session].live
  /\ now <= c.due /\ c.due <= sessions[c.session].last + CallMax

(* The tables.                                                             *)
Fields ==
  { "state", "node", "platform", "verified", "rejected", "excludedMax",
    "restrictedMax", "monitorMax", "aboveMax", "scanner", "coverage", "lastProof",
    "known" }

IsRecord(r) == r = [f \in Fields |-> r[f]]

IsDevices(d) ==
  /\ d \in [ challenges : {d.challenges}, drawn : {d.drawn},
             paired : [Ids -> Nodes \cup {NoOne}], record : {d.record},
             display : {d.display} ]
  /\ d.record = [t \in Ids |-> d.record[t]] /\ \A t \in Ids : IsRecord(d.record[t])
  /\ \A e \in d.challenges : e.expires \in Int

IsIntegrity(r) ==
  r \in [ pending : {r.pending}, paired : [Ids -> Nodes \cup {NoOne}],
          bound : [Ids -> Nodes \cup {NoOne}], seen : {r.seen}, drawn : {r.drawn} ]

ExamRecords ==
  [ student : Students,
    state : {"joined", "privacy_accepted", "exam_started", "submitted"} ]
    \cup {NoExamRecord}

TablesOK ==
  /\ clients \in Mixes
  /\ now \in 0..MaxTime
  /\ sessions = [s \in Ids |-> sessions[s]]
  /\ exams \in [Ids -> ExamRecords]
  /\ tokenExp \in [Ids -> -1..(now + TokenTtl)]
  /\ IsDevices(dev) /\ IsIntegrity(node)

Good(s) ==
  /\ SessionOK(s)
  /\ TokenBound(s)
  /\ OnlyJoinedHaveDevices(s)
  /\ RiskReaches(s)
  /\ OneNode(s)

CapsOK ==
  /\ AnonymousCounted
  /\ IsFiniteSet(Live) /\ Cardinality(Live) <= MaxSessions
  /\ Cardinality(legacy) <= MaxLegacy
  /\ IsFiniteSet(calls) /\ Cardinality(calls) <= MaxCalls

IInv ==
  /\ TablesOK
  /\ \A s \in Ids : Good(s)
  /\ \A c \in calls : CallOK(c)
  /\ CapsOK

-----------------------------------------------------------------------------
(* Chains.                                                                 *)

LEMMA NewChainIsChain ==
  IsChain(NewChain) /\ \A type : Of(NewChain, type) = {}
<1>1. NewChain.entries = <<>> /\ Len(NewChain.entries) = 0
  BY DEF NewChain
<1>2. NewChain.entries \in Seq({})
  BY <1>1
<1>3. NewChain \in [ prevHash : {NewChain.prevHash}, entries : {NewChain.entries},
                     truncated : BOOLEAN ]
  BY DEF NewChain
<1>4. 0 <= ChainCap
  BY ChainCapAssumption
<1> QED
  BY <1>1, <1>2, <1>3, <1>4 DEF IsChain, Of

(* An entry is added at the end of a chain, or the chain is cut.           *)
LEMMA AppendToChain ==
  ASSUME NEW c, IsChain(c), NEW type, NEW key
  PROVE  LET d == AppendEntry(c, key, type)
             n == Len(c.entries)
         IN /\ IsChain(d)
            /\ Cut(d) \/
                 /\ ~Cut(c)
                 /\ Len(d.entries) = n + 1
                 /\ \A t : Of(d, t) = Of(c, t) \cup (IF t = type THEN {n + 1} ELSE {})
<1> DEFINE d == AppendEntry(c, key, type)
           n == Len(c.entries)
           e == Entry(key, n, type, c.prevHash)
           cut == [c EXCEPT !.truncated = TRUE]
           longer == [c EXCEPT !.entries = Append(@, e), !.prevHash = e.sig]
<1>1. PICK S : c.entries \in Seq(S)
  BY DEF IsChain
<1>2. /\ c \in [prevHash : {c.prevHash}, entries : {c.entries}, truncated : BOOLEAN]
      /\ n \in Nat /\ n <= ChainCap /\ ChainCap \in Nat
  BY <1>1, ChainCapAssumption DEF IsChain
<1>3. d = IF c.truncated THEN c ELSE IF n >= ChainCap THEN cut ELSE longer
  BY DEF AppendEntry
<1>4. CASE c.truncated
  BY <1>3, <1>4 DEF Cut
<1>5. CASE ~c.truncated /\ n >= ChainCap
  <2>1. /\ cut.prevHash = c.prevHash /\ cut.entries = c.entries /\ cut.truncated
        /\ cut \in [prevHash : {c.prevHash}, entries : {c.entries}, truncated : BOOLEAN]
    BY <1>2
  <2> HIDE DEF cut
  <2>2. d = cut
    BY <1>3, <1>5
  <2> QED
    BY <1>1, <1>2, <2>1, <2>2 DEF IsChain, Cut
<1>6. CASE ~c.truncated /\ ~(n >= ChainCap)
  <2> DEFINE es == Append(c.entries, e)
             T == S \cup {e}
  <2>1. /\ longer.prevHash = e.sig /\ longer.entries = es
        /\ longer.truncated = c.truncated
        /\ longer \in [prevHash : {e.sig}, entries : {es}, truncated : BOOLEAN]
    BY <1>2
  <2>2. e.type = type
    BY DEF Entry
  <2> HIDE DEF e, longer
  <2>3. c.entries \in Seq(T) /\ e \in T
    BY <1>1
  <2> HIDE DEF T
  <2>4. /\ es \in Seq(T) /\ Len(es) = n + 1 /\ es[n + 1] = e
        /\ \A i \in 1..n : es[i] = c.entries[i]
    BY <2>3
  <2> HIDE DEF es, n
  <2>5. d = longer
    BY <1>3, <1>6
  <2>6. IsChain(d)
    BY <1>2, <1>6, <2>1, <2>4, <2>5 DEF IsChain
  <2>7. ~Cut(c)
    BY <1>2, <1>6 DEF Cut, n
  <2>8. ASSUME NEW t
        PROVE  Of(d, t) = Of(c, t) \cup (IF t = type THEN {n + 1} ELSE {})
    <3>1. Of(d, t) = {i \in 1..(n + 1) : es[i].type = t}
      BY <2>1, <2>4, <2>5 DEF Of
    <3>2. Of(c, t) = {i \in 1..n : c.entries[i].type = t}
      BY DEF Of, n
    <3>3. 1..(n + 1) = 1..n \cup {n + 1}
      BY <1>2
    <3> QED
      BY <2>2, <2>4, <3>1, <3>2, <3>3
  <2>9. Len(d.entries) = n + 1
    BY <2>1, <2>4, <2>5
  <2> QED
    BY <2>6, <2>7, <2>8, <2>9 DEF n
<1> QED
  BY <1>4, <1>5, <1>6

(* What the chain tells moves on with the exam: its start after the        *)
(* privacy notice, its submission after its start.  Other entries leave it *)
(* as it is.                                                               *)
LEMMA TaleGrows ==
  ASSUME NEW c, IsChain(c), NEW key, NEW type, NEW state, NEW next, Tells(c, state),
         \/ type \notin {"exam_started", "exam_submitted"} /\ next = state
         \/ type = "exam_started" /\ state = "privacy_accepted" /\ next = "exam_started"
         \/ type = "exam_submitted" /\ state = "exam_started" /\ next = "submitted"
  PROVE  Tells(AppendEntry(c, key, type), next)
<1> DEFINE d == AppendEntry(c, key, type)
           n == Len(c.entries)
<1>1. PICK S : c.entries \in Seq(S)
  BY DEF IsChain
<1>2. n \in Nat
  BY <1>1
<1>3. CASE Cut(d)
  BY <1>3 DEF Tells
<1>4. CASE ~Cut(d)
  <2>1. /\ ~Cut(c)
        /\ Len(d.entries) = n + 1
        /\ \A t : Of(d, t) = Of(c, t) \cup (IF t = type THEN {n + 1} ELSE {})
    BY <1>4, AppendToChain
  <2>2. \A t : Of(c, t) \subseteq 1..n
    BY DEF Of
  <2> HIDE DEF d, n
  <2>3. CASE type \notin {"exam_started", "exam_submitted"} /\ next = state
    <3>1. /\ Of(d, "exam_started") = Of(c, "exam_started")
          /\ Of(d, "exam_submitted") = Of(c, "exam_submitted")
      BY <2>1, <2>3
    <3>2. 1..n \subseteq 1..Len(d.entries)
      BY <1>2, <2>1
    <3> QED
      BY <2>1, <2>3, <3>1, <3>2 DEF Tells, d, n
  <2>4. CASE type = "exam_started" /\ state = "privacy_accepted" /\ next = "exam_started"
    <3>1. Of(c, "exam_started") = {} /\ Of(c, "exam_submitted") = {}
      BY <2>1, <2>4 DEF Tells
    <3>2. Of(d, "exam_started") = {n + 1} /\ Of(d, "exam_submitted") = {}
      BY <2>1, <2>4, <3>1
    <3>3. n + 1 \in 1..Len(d.entries)
      BY <1>2, <2>1
    <3> QED
      BY <2>4, <3>2, <3>3 DEF Tells, d
  <2>5. CASE type = "exam_submitted" /\ state = "exam_started" /\ next = "submitted"
    <3>1. PICK i \in 1..n : Of(c, "exam_started") = {i} /\ Of(c, "exam_submitted") = {}
      BY <2>1, <2>5 DEF Tells, n
    <3>2. Of(d, "exam_started") = {i} /\ Of(d, "exam_submitted") = {n + 1}
      BY <2>1, <2>5, <3>1
    <3>3. i < n + 1 /\ i \in 1..Len(d.entries) /\ n + 1 \in 1..Len(d.entries)
      BY <1>2, <2>1
    <3> QED
      BY <2>5, <3>2, <3>3 DEF Tells, d
  <2> QED
    BY <2>3, <2>4, <2>5
<1> QED
  BY <1>3, <1>4

-----------------------------------------------------------------------------
(* Sessions.                                                               *)

LEMMA SessionFacts ==
  ASSUME NEW x, IsSession(x)
  PROVE  /\ x.live = TRUE /\ x.last \in Nat /\ x.startedAt \in Nat
         /\ x.peak \in Verdicts \cup {NoVerdict} /\ x.history \subseteq Verdicts
         /\ IsChain(x.chain)
  BY DEF IsSession

LEMMA AuditSession ==
  ASSUME NEW x, IsSession(x), NEW type
  PROVE  /\ IsSession(Audit(x, type))
         /\ Audit(x, type).chain = AppendEntry(x.chain, AuditKey, type)
         /\ Audit(x, type).last = x.last /\ Audit(x, type).startedAt = x.startedAt
         /\ Audit(x, type).peak = x.peak /\ Audit(x, type).history = x.history
<1> DEFINE c == AppendEntry(x.chain, AuditKey, type)
           y == [x EXCEPT !.chain = c]
<1>1. Audit(x, type) = y
  BY DEF Audit
<1>2. IsChain(c)
  BY SessionFacts, AppendToChain
<1> HIDE DEF c
<1>3. /\ y \in [ live : {TRUE}, last : Nat, startedAt : Nat, chain : {c},
                 peak : Verdicts \cup {NoVerdict}, history : SUBSET Verdicts ]
      /\ y.chain = c /\ y.last = x.last /\ y.startedAt = x.startedAt
      /\ y.peak = x.peak /\ y.history = x.history
  BY DEF IsSession
<1>4. x.startedAt <= x.last
  BY DEF IsSession
<1> HIDE DEF y
<1> QED
  BY <1>1, <1>2, <1>3, <1>4 DEF IsSession, c

LEMMA PeakKeeps ==
  ASSUME NEW p \in Verdicts \cup {NoVerdict}, NEW v \in Verdicts, NEW h \in SUBSET Verdicts,
         \A u \in h : \/ Rank(p.level) > Rank(u.level)
                      \/ p.level = u.level /\ p.score >= u.score
  PROVE  LET q == Peaked(p, v)
         IN /\ q \in Verdicts \cup {NoVerdict}
            /\ \A u \in h \cup {v} : \/ Rank(q.level) > Rank(u.level)
                                     \/ q.level = u.level /\ q.score >= u.score
            /\ p.level = "Critical" \/ v.level = "Critical" => q.level = "Critical"
<1> DEFINE q == Peaked(p, v)
           worse == \/ p = NoVerdict
                    \/ Rank(v.level) > Rank(p.level)
                    \/ Rank(v.level) = Rank(p.level) /\ v.score >= p.score
<1>1. /\ p.level \in Levels /\ p.score \in Int
      /\ v.level \in Levels /\ v.score \in 0..100
      /\ \A u \in h : u.level \in Levels /\ u.score \in 0..100
  BY DEF Verdicts, NoVerdict, Levels
<1>2. \A a, b \in Levels :
         /\ Rank(a) \in 0..2 /\ (Rank(a) = Rank(b) => a = b)
         /\ (Rank(a) = 2 <=> a = "Critical") /\ (a = "Safe" => Rank(a) = 0)
  BY DEF Levels, Rank
<1>3. CASE worse
  <2>1. q = v
    BY <1>3 DEF Peaked
  <2>2. p = NoVerdict => p.level = "Safe" /\ p.score = -1
    BY DEF NoVerdict
  <2>3. \/ Rank(v.level) > Rank(p.level)
        \/ v.level = p.level /\ v.score >= p.score
    BY <1>1, <1>2, <1>3, <2>2
  <2>4. \A u \in h : \/ Rank(v.level) > Rank(u.level)
                     \/ v.level = u.level /\ v.score >= u.score
    <3> TAKE u \in h
    <3>1. u.level \in Levels /\ u.score \in 0..100
      BY <1>1
    <3>2. Rank(u.level) \in 0..2 /\ Rank(p.level) \in 0..2 /\ Rank(v.level) \in 0..2
      BY <1>1, <1>2, <3>1
    <3>3. \/ Rank(p.level) > Rank(u.level)
          \/ p.level = u.level /\ p.score >= u.score
      OBVIOUS
    <3>4. CASE p.level = u.level /\ p.score >= u.score
      <4>1. Rank(u.level) = Rank(p.level)
        BY <3>4
      <4>2. CASE v.level = p.level /\ v.score >= p.score
        <5>1. v.score >= u.score
          <6> DEFINE a == v.score
                     b == p.score
                     e == u.score
          <6>1. a \in Int /\ b \in Int /\ e \in Int /\ a >= b /\ b >= e
            BY <1>1, <3>1, <3>4, <4>2
          <6> HIDE DEF a, b, e
          <6>2. a >= e
            BY <6>1
          <6> QED
            BY <6>2 DEF a, e
        <5> QED
          BY <3>4, <4>2, <5>1
      <4>3. CASE Rank(v.level) > Rank(p.level)
        BY <4>1, <4>3
      <4> QED
        BY <2>3, <4>2, <4>3
    <3>5. CASE Rank(p.level) > Rank(u.level)
      <4>1. v.level = p.level => Rank(v.level) = Rank(p.level)
        OBVIOUS
      <4> QED
        BY <2>3, <3>2, <3>5, <4>1
    <3> QED
      BY <3>3, <3>4, <3>5
  <2>5. p.level = "Critical" => v.level = "Critical"
    BY <1>1, <1>2, <2>3
  <2>6. v.score >= v.score
    BY <1>1
  <2> QED
    BY <2>1, <2>4, <2>5, <2>6
<1>4. CASE ~worse
  <2>1. q = p
    BY <1>4 DEF Peaked
  <2>2. \/ Rank(p.level) > Rank(v.level)
        \/ p.level = v.level /\ p.score >= v.score
    BY <1>1, <1>2, <1>4
  <2>3. v.level = "Critical" => p.level = "Critical"
    BY <1>1, <1>2, <2>2
  <2> HIDE DEF worse
  <2> QED
    BY <2>1, <2>2, <2>3
<1> QED
  BY <1>3, <1>4

LEMMA PersistSession ==
  ASSUME NEW x, IsSession(x), Worst(x), NEW v \in Verdicts
  PROVE  LET y == Persist(x, v)
         IN /\ IsSession(y) /\ Worst(y)
            /\ y.chain = AppendEntry(x.chain, AuditKey, "verdict")
            /\ y.last = x.last /\ y.startedAt = x.startedAt
            /\ x.peak.level = "Critical" \/ v.level = "Critical"
                 => y.peak.level = "Critical"
<1> DEFINE p == Peaked(x.peak, v)
           h == x.history \cup {v}
           z == [x EXCEPT !.peak = p, !.history = h]
<1>1. /\ p \in Verdicts \cup {NoVerdict}
      /\ \A u \in h : \/ Rank(p.level) > Rank(u.level)
                      \/ p.level = u.level /\ p.score >= u.score
      /\ x.peak.level = "Critical" \/ v.level = "Critical" => p.level = "Critical"
  BY SessionFacts, PeakKeeps DEF Worst
<1>2. Persist(x, v) = Audit(z, "verdict")
  BY DEF Persist
<1>3. h \subseteq Verdicts
  BY SessionFacts
<1> HIDE DEF p, h
<1>4. /\ z \in [ live : {TRUE}, last : Nat, startedAt : Nat, chain : {x.chain},
                 peak : Verdicts \cup {NoVerdict}, history : SUBSET Verdicts ]
      /\ z.chain = x.chain /\ z.last = x.last /\ z.startedAt = x.startedAt
      /\ z.peak = p /\ z.history = h
  BY <1>1, <1>3 DEF IsSession
<1> HIDE DEF z
<1>5. IsSession(z)
  BY <1>4 DEF IsSession
<1> QED
  BY <1>1, <1>2, <1>4, <1>5, AuditSession DEF Worst

(* A session of the table is either nothing or live and whole.             *)
LEMMA SessionIs ==
  ASSUME IInv, NEW s \in Ids
  PROVE  /\ sessions[s].live \in BOOLEAN
         /\ ~sessions[s].live => sessions[s] = NoSession
         /\ sessions[s].live =>
              /\ IsSession(sessions[s]) /\ Worst(sessions[s])
              /\ sessions[s].last <= now /\ sessions[s].last \in Nat
              /\ Tells(sessions[s].chain, exams[s].state)
<1>1. SessionOK(s)
  BY DEF IInv, Good
<1>2. NoSession.live = FALSE
  BY DEF NoSession
<1>3. CASE sessions[s] = NoSession
  BY <1>2, <1>3
<1>4. CASE sessions[s] # NoSession
  <2>1. /\ IsSession(sessions[s]) /\ Worst(sessions[s])
        /\ sessions[s].last <= now
        /\ Tells(sessions[s].chain, exams[s].state)
    BY <1>1, <1>4 DEF SessionOK
  <2>2. sessions[s].live = TRUE /\ sessions[s].last \in Nat
    BY <2>1, SessionFacts
  <2> QED
    BY <2>1, <2>2
<1> QED
  BY <1>3, <1>4

(* A session that a handler gets is whole, touched now, and has lost       *)
(* nothing of what it had.                                                 *)
LEMMA GotSession ==
  ASSUME IInv, NEW s \in Ids
  PROVE  /\ IsSession(Got(s)) /\ Worst(Got(s)) /\ Got(s).last = now
         /\ sessions[s].live => /\ Got(s).chain = sessions[s].chain
                                /\ Got(s).peak = sessions[s].peak
         /\ ~sessions[s].live => Got(s).chain = NewChain
<1> DEFINE old == sessions[s]
           touched == [old EXCEPT !.last = now]
<1>1. now \in Nat
  BY DEF IInv, TablesOK
<1>2. CASE old.live
  <2>1. IsSession(old) /\ Worst(old) /\ old.last <= now /\ old.last \in Nat
    BY <1>2, SessionIs
  <2>2. old.startedAt \in Nat /\ old.startedAt <= old.last
    BY <2>1 DEF IsSession
  <2> HIDE DEF old
  <2>3. /\ touched \in [ live : {TRUE}, last : Nat, startedAt : Nat, chain : {old.chain},
                         peak : Verdicts \cup {NoVerdict}, history : SUBSET Verdicts ]
        /\ touched.chain = old.chain /\ touched.last = now
        /\ touched.startedAt = old.startedAt
        /\ touched.peak = old.peak /\ touched.history = old.history
    BY <1>1, <2>1 DEF IsSession
  <2>4. Got(s) = touched
    BY <1>2 DEF Got, old
  <2> HIDE DEF touched
  <2>5. old.startedAt <= now
    BY <1>1, <2>1, <2>2
  <2>6. IsChain(old.chain)
    BY <2>1 DEF IsSession
  <2>7. IsSession(touched)
    BY <2>3, <2>5, <2>6 DEF IsSession
  <2>8. Worst(touched)
    BY <2>1, <2>3 DEF Worst
  <2> QED
    BY <1>2, <2>3, <2>4, <2>7, <2>8 DEF old
<1>3. CASE ~old.live
  <2> DEFINE new == NewSession
  <2>1. /\ new \in [ live : {TRUE}, last : Nat, startedAt : Nat, chain : {NewChain},
                     peak : Verdicts \cup {NoVerdict}, history : SUBSET Verdicts ]
        /\ new.chain = NewChain /\ new.last = now /\ new.startedAt = now
        /\ new.history = {}
    BY <1>1 DEF NewSession
  <2>2. Got(s) = new
    BY <1>3 DEF Got
  <2> HIDE DEF new, old
  <2>3. new.startedAt <= new.last /\ IsChain(new.chain)
    BY <1>1, <2>1, NewChainIsChain
  <2>4. Worst(new)
    BY <2>1 DEF Worst
  <2>5. IsSession(new)
    BY <2>1, <2>3 DEF IsSession
  <2> QED
    BY <1>3, <2>1, <2>2, <2>4, <2>5 DEF old
<1> QED
  BY <1>2, <1>3

(* Whoever may act for a joined student finds the session there.           *)
LEMMA TokenMeansLive ==
  ASSUME IInv, NEW s \in Ids, Joined(s), TokenValid(s)
  PROVE  /\ sessions[s].live /\ CanGet(s)
         /\ tokenExp[s] <= now + TokenTtl
<1>1. tokenExp[s] \in Int /\ now \in Nat /\ TokenTtl \in Nat
      /\ tokenExp[s] <= now + TokenTtl
  BY ServerAssumption DEF IInv, TablesOK
<1>2. TokenBound(s)
  BY DEF IInv, Good
<1>3. sessions[s].live
  BY <1>1, <1>2 DEF TokenBound, TokenValid
<1> QED
  BY <1>1, <1>3 DEF CanGet

(* One session of the table is written: the others stay, and the table     *)
(* stays within its capacity.                                              *)
LEMMA OneSession ==
  ASSUME IInv, NEW s \in Ids, NEW x, IsSession(x), CanGet(s),
         sessions' = [sessions EXCEPT ![s] = x]
  PROVE  /\ sessions' = [t \in Ids |-> sessions'[t]]
         /\ sessions'[s] = x
         /\ \A t \in Ids \ {s} : sessions'[t] = sessions[t]
         /\ Live' = Live \cup {s}
         /\ IsFiniteSet(Live') /\ Cardinality(Live') <= MaxSessions
<1>1. sessions = [t \in Ids |-> sessions[t]]
  BY DEF IInv, TablesOK
<1>2. /\ sessions' = [t \in Ids |-> IF t = s THEN x ELSE sessions[t]]
  BY <1>1
<1>3. x.live
  BY SessionFacts
<1>4. Live' = Live \cup {s}
  BY <1>2, <1>3, SessionIs DEF Live
<1>5. IsFiniteSet(Live) /\ Cardinality(Live) <= MaxSessions
  BY DEF IInv, CapsOK
<1>6. s \in Live <=> sessions[s].live
  BY DEF Live
<1>7. Cardinality(Live) \in Nat /\ MaxSessions \in Nat
  BY <1>5, FS_CardinalityType, ServerAssumption
<1>8. /\ IsFiniteSet(Live \cup {s})
      /\ s \notin Live => Cardinality(Live \cup {s}) = Cardinality(Live) + 1
      /\ s \in Live => Live \cup {s} = Live
  BY <1>5, FS_AddElement
<1>9. Cardinality(Live \cup {s}) <= MaxSessions
  BY <1>5, <1>6, <1>7, <1>8 DEF CanGet
<1> QED
  BY <1>2, <1>4, <1>8, <1>9

(* What no handler touches stays good.                                     *)
LEMMA Elsewhere ==
  ASSUME IInv, NEW t \in Ids, now' = now, sessions'[t] = sessions[t],
         exams'[t] = exams[t], tokenExp'[t] = tokenExp[t],
         dev'.paired[t] = dev.paired[t],
         dev'.record[t].excludedMax = dev.record[t].excludedMax,
         node'.paired[t] = node.paired[t], node'.bound[t] = node.bound[t],
         \A c \in calls : c.session = t => c \in calls'
  PROVE  Good(t)'
<1>1. Good(t)
  BY DEF IInv
<1>2. SessionOK(t)'
  BY <1>1 DEF Good, SessionOK
<1>3. TokenBound(t)'
  BY <1>1 DEF Good, TokenBound, Joined
<1>4. OnlyJoinedHaveDevices(t)'
  BY <1>1 DEF Good, OnlyJoinedHaveDevices, Joined
<1>5. RiskReaches(t)'
  BY <1>1 DEF Good, RiskReaches
<1>6. OneNode(t)'
  BY <1>1 DEF Good, OneNode
<1> QED
  BY <1>2, <1>3, <1>4, <1>5, <1>6 DEF Good

(* The calls under way stay as long as their sessions are not set back.    *)
LEMMA CallsStay ==
  ASSUME IInv, now' = now,
         \A t \in Ids : sessions[t].live =>
           sessions'[t].live /\ sessions'[t].last \in Nat
             /\ sessions'[t].last >= sessions[t].last
  PROVE  \A c \in calls : CallOK(c)'
<1> TAKE c \in calls
<1>1. CallOK(c)
  BY DEF IInv
<1>2. sessions[c.session].last \in Nat /\ c.session \in Ids
  BY <1>1, SessionIs DEF CallOK
<1>3. c.due \in Nat /\ CallMax \in Nat /\ c.due <= sessions[c.session].last + CallMax
  BY <1>1, ServerAssumption DEF CallOK
<1>4. sessions'[c.session].last \in Nat
      /\ sessions'[c.session].last >= sessions[c.session].last
      /\ sessions'[c.session].live
  BY <1>1, <1>2 DEF CallOK
<1>5. c.due <= sessions'[c.session].last + CallMax
  BY <1>2, <1>3, <1>4
<1> QED
  BY <1>1, <1>4, <1>5 DEF CallOK

-----------------------------------------------------------------------------
(* Devices and nodes.                                                      *)

(* What the routes write of a session leaves the other sessions alone and  *)
(* draws no challenge.                                                     *)
Apart(d, e, s) ==
  /\ IsDevices(e)
  /\ e.challenges \subseteq d.challenges
  /\ \A t \in Ids \ {s} : e.record[t] = d.record[t] /\ e.paired[t] = d.paired[t]

LEMMA ConsumeApart ==
  ASSUME NEW d, IsDevices(d), NEW s \in Ids, NEW c, NEW purpose
  PROVE  LET e == Consume(d, s, c, purpose)
         IN /\ Apart(d, e, s) /\ e.record = d.record /\ e.paired = d.paired
            /\ e.challenges = d.challenges \ {i \in Issued(d, s, c) : i.purpose = purpose}
<1> DEFINE left == d.challenges \ {i \in Issued(d, s, c) : i.purpose = purpose}
           e == [d EXCEPT !.challenges = left]
<1>1. Consume(d, s, c, purpose) = e
  BY DEF Consume
<1>2. left \subseteq d.challenges
  OBVIOUS
<1> HIDE DEF left
<1>3. /\ e \in [ challenges : {left}, drawn : {d.drawn},
                 paired : [Ids -> Nodes \cup {NoOne}], record : {d.record},
                 display : {d.display} ]
      /\ e.record = d.record /\ e.paired = d.paired /\ e.challenges = left
  BY DEF IsDevices
<1>4. \A i \in left : i.expires \in Int
  BY <1>2 DEF IsDevices
<1> HIDE DEF e
<1>5. IsDevices(e)
  BY <1>3, <1>4 DEF IsDevices
<1> QED
  BY <1>1, <1>2, <1>3, <1>5 DEF Apart, left

(* A challenge that was good is one that is spent.                         *)
LEMMA GoodChallengeIsSpent ==
  ASSUME NEW d, IsDevices(d), NEW s \in Ids, NEW c, NEW purpose, now \in Nat,
         ConsumeReason(d, s, c, purpose, now) = "ok"
  PROVE  \E i \in d.challenges \ Consume(d, s, c, purpose).challenges :
           i.session = s /\ i.purpose = purpose /\ i.expires >= now
<1>1. PICK i \in Issued(d, s, c) : i.purpose = purpose
  BY DEF ConsumeReason
<1>2. ~(i.expires < now)
  BY DEF ConsumeReason
<1>3. i \in d.challenges /\ i.session = s
  BY DEF Issued
<1>4. i.expires \in Int
  BY <1>3 DEF IsDevices
<1>5. i \notin Consume(d, s, c, purpose).challenges
  BY <1>1, ConsumeApart
<1> QED
  BY <1>1, <1>2, <1>3, <1>4, <1>5

(* One device record is replaced.                                          *)
With(d, s, r) == [d EXCEPT !.record = [d.record EXCEPT ![s] = r]]

LEMMA RecordApart ==
  ASSUME NEW d, IsDevices(d), NEW s \in Ids, NEW r, IsRecord(r)
  PROVE  LET e == With(d, s, r)
         IN /\ Apart(d, e, s) /\ e.paired = d.paired /\ e.challenges = d.challenges
            /\ e.record[s] = r
<1> DEFINE rs == [d.record EXCEPT ![s] = r]
           e == With(d, s, r)
<1>1. d.record = [t \in Ids |-> d.record[t]] /\ \A t \in Ids : IsRecord(d.record[t])
  BY DEF IsDevices
<1>2. /\ rs = [t \in Ids |-> rs[t]]
      /\ rs[s] = r /\ \A t \in Ids \ {s} : rs[t] = d.record[t]
  BY <1>1
<1> HIDE DEF rs
<1>3. \A t \in Ids : IsRecord(rs[t])
  BY <1>1, <1>2
<1>4. e = [d EXCEPT !.record = rs]
  BY DEF rs, With
<1> HIDE DEF e
<1>5. /\ e \in [ challenges : {d.challenges}, drawn : {d.drawn},
                 paired : [Ids -> Nodes \cup {NoOne}], record : {rs},
                 display : {d.display} ]
      /\ e.record = rs /\ e.paired = d.paired /\ e.challenges = d.challenges
  BY <1>4 DEF IsDevices
<1>6. \A i \in e.challenges : i.expires \in Int
  BY <1>5 DEF IsDevices
<1>7. IsDevices(e)
  BY <1>2, <1>3, <1>5, <1>6 DEF IsDevices
<1> QED
  BY <1>2, <1>5, <1>7 DEF Apart, e

LEMMA MissingApart ==
  ASSUME NEW d, IsDevices(d), NEW s \in Ids
  PROVE  LET e == RecordMissing(d, s)
         IN /\ Apart(d, e, s) /\ e.paired = d.paired /\ e.challenges = d.challenges
            /\ e.record[s].excludedMax = d.record[s].excludedMax
            /\ e.record[s].state = "missing"
<1> DEFINE r == d.record[s]
           q == [r EXCEPT !.state = "missing", !.known = TRUE]
           e == RecordMissing(d, s)
<1>1. d.record = [t \in Ids |-> d.record[t]] /\ IsRecord(r)
  BY DEF IsDevices
<1>2. e = With(d, s, q)
  BY <1>1 DEF With, RecordMissing, IsDevices
<1> HIDE DEF r
<1>3. IsRecord(q) /\ q.excludedMax = r.excludedMax /\ q.state = "missing"
  BY <1>1 DEF IsRecord, Fields
<1> HIDE DEF q, e
<1>4. /\ Apart(d, e, s) /\ e.paired = d.paired /\ e.challenges = d.challenges
      /\ e.record[s] = q
  BY <1>2, <1>3, RecordApart
<1> QED
  BY <1>3, <1>4 DEF r, e

LEMMA RejectedApart ==
  ASSUME NEW d, IsDevices(d), NEW s \in Ids
  PROVE  LET e == RecordRejected(d, s)
         IN /\ Apart(d, e, s) /\ e.paired = d.paired /\ e.challenges = d.challenges
            /\ e.record[s].excludedMax = d.record[s].excludedMax
            /\ e.record[s].state = "untrusted"
<1> DEFINE r == d.record[s]
           n == AtMost(1, r.rejected + 1)
           q == [r EXCEPT !.state = "untrusted", !.known = TRUE, !.rejected = n]
           e == RecordRejected(d, s)
<1>1. d.record = [t \in Ids |-> d.record[t]] /\ IsRecord(r)
  BY DEF IsDevices
<1>2. e = With(d, s, q)
  BY <1>1 DEF With, RecordRejected, IsDevices, IsRecord, Fields
<1> HIDE DEF r, n
<1>3. IsRecord(q) /\ q.excludedMax = r.excludedMax /\ q.state = "untrusted"
  BY <1>1 DEF IsRecord, Fields
<1> HIDE DEF q, e
<1>4. /\ Apart(d, e, s) /\ e.paired = d.paired /\ e.challenges = d.challenges
      /\ e.record[s] = q
  BY <1>2, <1>3, RecordApart
<1> QED
  BY <1>3, <1>4 DEF r, e

LEMMA PairedApart ==
  ASSUME NEW d, IsDevices(d), NEW s \in Ids, NEW p
  PROVE  LET e == RecordPaired(d, s, p)
         IN /\ Apart(d, e, s) /\ e.paired = d.paired /\ e.challenges = d.challenges
            /\ e.record[s].excludedMax = d.record[s].excludedMax
            /\ e.record[s].state = "paired"
<1> DEFINE r == d.record[s]
           q == [r EXCEPT !.state = "paired", !.node = p.node,
                          !.platform = p.platform, !.known = TRUE]
           e == RecordPaired(d, s, p)
<1>1. d.record = [t \in Ids |-> d.record[t]] /\ IsRecord(r)
  BY DEF IsDevices
<1>2. e = With(d, s, q)
  BY <1>1 DEF With, RecordPaired, IsDevices, IsRecord, Fields
<1> HIDE DEF r
<1>3. IsRecord(q) /\ q.excludedMax = r.excludedMax /\ q.state = "paired"
  BY <1>1 DEF IsRecord, Fields
<1> HIDE DEF q, e
<1>4. /\ Apart(d, e, s) /\ e.paired = d.paired /\ e.challenges = d.challenges
      /\ e.record[s] = q
  BY <1>2, <1>3, RecordApart
<1> QED
  BY <1>3, <1>4 DEF r, e

LEMMA VerifiedApart ==
  ASSUME NEW d, IsDevices(d), NEW s \in Ids, NEW p, NEW at
  PROVE  LET e == RecordProofVerified(d, s, p, at)
         IN Apart(d, e, s) /\ e.paired = d.paired /\ e.challenges = d.challenges
<1> DEFINE r == d.record[s]
           q == [r EXCEPT
                   !.state = IF p.excluded > 0 THEN "risk_detected" ELSE "healthy",
                   !.platform = p.platform, !.scanner = p.scanner, !.known = TRUE,
                   !.excludedMax = AtLeast(@, p.excluded),
                   !.restrictedMax = AtLeast(@, p.restricted),
                   !.monitorMax = AtLeast(@, p.monitor),
                   !.aboveMax = AtLeast(@, p.above),
                   !.coverage = IF p.coverage = "none" THEN @ ELSE p.coverage,
                   !.verified = AtMost(1, @ + 1), !.lastProof = at]
           e == RecordProofVerified(d, s, p, at)
<1>1. d.record = [t \in Ids |-> d.record[t]] /\ IsRecord(r)
  BY DEF IsDevices
<1>2. e = With(d, s, q)
  BY DEF With, RecordProofVerified
<1> HIDE DEF r
<1>3. IsRecord(q)
  BY <1>1 DEF IsRecord, Fields
<1> HIDE DEF q, e
<1>4. Apart(d, e, s) /\ e.paired = d.paired /\ e.challenges = d.challenges
  BY <1>2, <1>3, RecordApart
<1> QED
  BY <1>4 DEF e

LEMMA ObserveApart ==
  ASSUME NEW d, IsDevices(d), NEW s \in Ids, NEW seen
  PROVE  LET e == ObserveDisplay(d, s, seen)
         IN /\ Apart(d, e, s) /\ e.paired = d.paired /\ e.challenges = d.challenges
            /\ e.record = d.record
<1> DEFINE shown == [d.display EXCEPT ![s] = IF @ = "none" THEN seen ELSE @]
           e == [d EXCEPT !.display = shown]
<1>1. ObserveDisplay(d, s, seen) = e
  BY DEF ObserveDisplay
<1> HIDE DEF shown
<1>2. /\ e \in [ challenges : {d.challenges}, drawn : {d.drawn},
                 paired : [Ids -> Nodes \cup {NoOne}], record : {d.record},
                 display : {shown} ]
      /\ e.record = d.record /\ e.paired = d.paired /\ e.challenges = d.challenges
  BY DEF IsDevices
<1> HIDE DEF e
<1>3. IsDevices(e)
  BY <1>2 DEF IsDevices
<1> QED
  BY <1>1, <1>2, <1>3 DEF Apart

LEMMA CreatedIsDevices ==
  ASSUME NEW d, IsDevices(d), NEW s \in Ids, NEW c, NEW purpose, now \in Nat
  PROVE  LET e == CreateChallenge(d, s, c, purpose, now)
         IN IsDevices(e) /\ e.paired = d.paired /\ e.record = d.record
<1> DEFINE i == [ value |-> c, session |-> s, purpose |-> purpose,
                  expires |-> now + ChallengeTtl ]
           more == d.challenges \cup {i}
           drawn == d.drawn \cup {c}
           e == [d EXCEPT !.challenges = more, !.drawn = drawn]
<1>1. CreateChallenge(d, s, c, purpose, now) = e
  BY DEF CreateChallenge, IsDevices
<1>2. i.expires \in Int
  BY TrustAssumption
<1>3. \A j \in more : j.expires \in Int
  BY <1>2 DEF IsDevices
<1> HIDE DEF more, drawn
<1>4. /\ e \in [ challenges : {more}, drawn : {drawn},
                 paired : [Ids -> Nodes \cup {NoOne}], record : {d.record},
                 display : {d.display} ]
      /\ e.record = d.record /\ e.paired = d.paired /\ e.challenges = more
  BY DEF IsDevices
<1> HIDE DEF e
<1>5. IsDevices(e)
  BY <1>3, <1>4 DEF IsDevices
<1> QED
  BY <1>1, <1>4, <1>5

(* A pairing attempt spends its challenge when it succeeds, and pairs no   *)
(* other node than the one it names.                                       *)
LEMMA PairingApart ==
  ASSUME NEW d, IsDevices(d), NEW s \in Ids, NEW exam, NEW p, p.node \in Nodes,
         now \in Nat
  PROVE  LET e == CompletePairing(d, s, exam, p, now)
         IN /\ Apart(d, e, s) /\ e.record = d.record
            /\ e.paired[s] # d.paired[s] =>
                 \E i \in d.challenges \ e.challenges :
                   i.session = s /\ i.purpose = "pair" /\ i.expires >= now
<1> DEFINE spent == IF PairingReason(s, exam, p, now) = "ok"
                    THEN Consume(d, s, p.challenge, "pair") ELSE d
           ok == CompletePairingReason(d, s, exam, p, now) = "ok"
           at == [spent.paired EXCEPT ![s] = p.node]
           e == IF ok THEN [spent EXCEPT !.paired = at] ELSE spent
<1>1. CompletePairing(d, s, exam, p, now) = e
  BY DEF CompletePairing
<1>2. IsDevices(spent) /\ spent.challenges \subseteq d.challenges
      /\ spent.record = d.record /\ spent.paired = d.paired
  BY ConsumeApart DEF Apart
<1>3. ok => \E i \in d.challenges \ spent.challenges :
              i.session = s /\ i.purpose = "pair" /\ i.expires >= now
  BY GoodChallengeIsSpent DEF CompletePairingReason
<1>4. at \in [Ids -> Nodes \cup {NoOne}] /\ \A t \in Ids \ {s} : at[t] = d.paired[t]
  BY <1>2 DEF IsDevices
<1> HIDE DEF spent, at, ok
<1>5. CASE ok
  <2> DEFINE f == [spent EXCEPT !.paired = at]
  <2>1. /\ f \in [ challenges : {spent.challenges}, drawn : {spent.drawn},
                   paired : [Ids -> Nodes \cup {NoOne}], record : {spent.record},
                   display : {spent.display} ]
        /\ f.record = spent.record /\ f.paired = at /\ f.challenges = spent.challenges
    BY <1>2, <1>4 DEF IsDevices
  <2>2. e = f
    BY <1>5
  <2> HIDE DEF f
  <2>3. IsDevices(f)
    BY <1>2, <2>1 DEF IsDevices
  <2> QED
    BY <1>1, <1>2, <1>3, <1>4, <1>5, <2>1, <2>2, <2>3 DEF Apart
<1>6. CASE ~ok
  BY <1>1, <1>2, <1>6 DEF Apart
<1> QED
  BY <1>5, <1>6

LEMMA EvictedDevices ==
  ASSUME NEW d, IsDevices(d), NEW active, NEW at
  PROVE  LET e == EvictMissing(d, active)
             f == EvictExpired(d, at)
         IN /\ IsDevices(e) /\ IsDevices(f)
            /\ f.paired = d.paired /\ f.record = d.record
            /\ \A t \in Ids :
                 /\ e.paired[t] = IF t \in active THEN d.paired[t] ELSE NoOne
                 /\ e.record[t] = IF t \in active THEN d.record[t] ELSE NoRecord
<1> DEFINE e == EvictMissing(d, active)
           f == EvictExpired(d, at)
           kept == {i \in d.challenges : i.session \in active}
           fresh == {i \in d.challenges : i.expires >= at}
           paired == [t \in Ids |-> IF t \in active THEN d.paired[t] ELSE NoOne]
           record == [t \in Ids |-> IF t \in active THEN d.record[t] ELSE NoRecord]
           display == [t \in Ids |-> IF t \in active THEN d.display[t] ELSE "none"]
<1>1. /\ \A i \in kept : i.expires \in Int
      /\ \A i \in fresh : i.expires \in Int
  BY DEF IsDevices
<1>2. paired \in [Ids -> Nodes \cup {NoOne}]
  BY DEF IsDevices
<1>3. IsRecord(NoRecord)
  BY DEF NoRecord, IsRecord, Fields
<1>4. record = [t \in Ids |-> record[t]] /\ \A t \in Ids : IsRecord(record[t])
  BY <1>3 DEF IsDevices
<1>5. e = [d EXCEPT !.challenges = kept, !.paired = paired, !.record = record,
                    !.display = display]
  BY DEF EvictMissing, IsDevices
<1>6. f = [d EXCEPT !.challenges = fresh]
  BY DEF EvictExpired
<1>7. \A t \in Ids :
        /\ paired[t] = IF t \in active THEN d.paired[t] ELSE NoOne
        /\ record[t] = IF t \in active THEN d.record[t] ELSE NoRecord
  OBVIOUS
<1> HIDE DEF e, f, kept, fresh, paired, record, display
<1>8. /\ e \in [ challenges : {kept}, drawn : {d.drawn},
                 paired : [Ids -> Nodes \cup {NoOne}], record : {record},
                 display : {display} ]
      /\ e.challenges = kept /\ e.paired = paired /\ e.record = record
  BY <1>2, <1>5 DEF IsDevices
<1>9. /\ f \in [ challenges : {fresh}, drawn : {d.drawn},
                 paired : [Ids -> Nodes \cup {NoOne}], record : {d.record},
                 display : {d.display} ]
      /\ f.challenges = fresh /\ f.paired = d.paired /\ f.record = d.record
  BY <1>6 DEF IsDevices
<1>10. IsDevices(e)
  BY <1>1, <1>4, <1>8 DEF IsDevices
<1>11. IsDevices(f)
  BY <1>1, <1>9 DEF IsDevices
<1> QED
  BY <1>7, <1>8, <1>9, <1>10, <1>11 DEF e, f

(* Pairing and proving keep the node of a session one.                     *)
LEMMA PairKeepsNode ==
  ASSUME IsIntegrity(node), NEW s \in Ids, OneNode(s), NEW p, p.node \in Nodes,
         PairReason(node, s, p, now) = "ok", node' = Pair(node, s, p.node)
  PROVE  /\ IsIntegrity(node') /\ OneNode(s)'
         /\ \A t \in Ids \ {s} : node'.paired[t] = node.paired[t]
         /\ node'.bound = node.bound
<1> DEFINE paired == [node.paired EXCEPT ![s] = p.node]
           pending == [node.pending EXCEPT ![s] = NoPending]
<1>1. node' = [node EXCEPT !.paired = paired, !.pending = pending]
  BY DEF Pair, IsIntegrity
<1>2. /\ paired \in [Ids -> Nodes \cup {NoOne}] /\ paired[s] = p.node
      /\ \A t \in Ids \ {s} : paired[t] = node.paired[t]
  BY DEF IsIntegrity
<1> HIDE DEF paired, pending
<1>3. /\ node' \in [ pending : {pending}, paired : {paired},
                     bound : [Ids -> Nodes \cup {NoOne}], seen : {node.seen},
                     drawn : {node.drawn} ]
      /\ node'.paired = paired /\ node'.bound = node.bound
  BY <1>1 DEF IsIntegrity
<1>4. IsIntegrity(node')
  BY <1>2, <1>3 DEF IsIntegrity
<1>5. node.bound[s] = NoOne \/ node.bound[s] = p.node
  BY DEF PairReason
<1>6. OneNode(s)'
  BY <1>2, <1>3, <1>5 DEF OneNode
<1> QED
  BY <1>2, <1>3, <1>4, <1>6

LEMMA ProofKeepsNode ==
  ASSUME IsIntegrity(node), NEW s \in Ids, OneNode(s), NEW p, p.node \in Nodes,
         node' = SubmitProof(node, s, p, now)
  PROVE  /\ IsIntegrity(node') /\ OneNode(s)'
         /\ \A t \in Ids \ {s} : node'.bound[t] = node.bound[t]
         /\ node'.paired = node.paired
<1> DEFINE ok == ProofReasonOf(node, s, p, now) = "ok"
           seen == node.seen \cup {[nonce |-> p.nonce, expires |-> now + NonceTtl]}
           noted == CheckProof(node, s, p, now) = "ok" /\ ~NonceSeen(node, p.nonce)
           spent == IF noted THEN [node EXCEPT !.seen = seen] ELSE node
           bound == [node.bound EXCEPT ![s] = p.node]
<1>1. node' = IF ok THEN [spent EXCEPT !.bound[s] = p.node] ELSE spent
  BY DEF SubmitProof
<1>2. /\ spent \in [ pending : {node.pending}, paired : [Ids -> Nodes \cup {NoOne}],
                     bound : [Ids -> Nodes \cup {NoOne}], seen : {spent.seen},
                     drawn : {node.drawn} ]
      /\ spent.paired = node.paired /\ spent.bound = node.bound
  <2>1. CASE noted
    BY <2>1 DEF IsIntegrity
  <2>2. CASE ~noted
    BY <2>2 DEF IsIntegrity
  <2> QED
    BY <2>1, <2>2
<1>3. /\ bound \in [Ids -> Nodes \cup {NoOne}] /\ bound[s] = p.node
      /\ \A t \in Ids \ {s} : bound[t] = node.bound[t]
  BY DEF IsIntegrity
<1>4. ok => node.paired[s] = NoOne \/ p.node = node.paired[s]
  BY DEF ProofReasonOf, CheckProof
<1> HIDE DEF ok, spent, bound
<1>5. CASE ok
  <2>1. node' = [spent EXCEPT !.bound = bound]
    BY <1>1, <1>2, <1>5 DEF bound
  <2>2. /\ node' \in [ pending : {node.pending}, paired : [Ids -> Nodes \cup {NoOne}],
                       bound : {bound}, seen : {spent.seen}, drawn : {node.drawn} ]
        /\ node'.paired = node.paired /\ node'.bound = bound
    BY <1>2, <2>1
  <2>3. IsIntegrity(node')
    BY <1>3, <2>2 DEF IsIntegrity
  <2> QED
    BY <1>3, <1>4, <1>5, <2>2, <2>3 DEF OneNode
<1>6. CASE ~ok
  <2>1. node' = spent
    BY <1>1, <1>6
  <2>2. IsIntegrity(node')
    BY <1>2, <2>1 DEF IsIntegrity
  <2> QED
    BY <1>2, <2>1, <2>2 DEF OneNode
<1> QED
  BY <1>5, <1>6

-----------------------------------------------------------------------------
(* Handlers that at most note an event in the chain of a live session, and *)
(* move what is known of its device or of its node.                        *)
LEMMA Noted ==
  ASSUME IInv, NEW s, NEW type \in {"device", "report_generated"},
         UNCHANGED <<clients, now, legacy, exams, tokenExp, calls>>,
         \/ UNCHANGED sessions
         \/ /\ s \in Ids /\ sessions[s].live
            /\ sessions' = [sessions EXCEPT ![s] = Audit(sessions[s], type)],
         IsDevices(dev'), IsIntegrity(node'),
         \A t \in Ids :
           /\ dev'.record[t].excludedMax = dev.record[t].excludedMax
           /\ dev'.paired[t] = dev.paired[t] \/ Joined(t)
           /\ OneNode(t)'
  PROVE  IInv'
<1> DEFINE x == Audit(sessions[s], type)
<1>1. s \in Ids /\ sessions[s].live =>
        /\ IsSession(x) /\ x.last = sessions[s].last /\ x.peak = sessions[s].peak
        /\ x.history = sessions[s].history /\ x.live = TRUE
        /\ Worst(x) /\ x.last <= now /\ x.last \in Nat
        /\ Tells(x.chain, exams[s].state)
  <2> HAVE s \in Ids /\ sessions[s].live
  <2>1. /\ IsSession(sessions[s]) /\ Worst(sessions[s])
        /\ sessions[s].last <= now /\ sessions[s].last \in Nat
        /\ Tells(sessions[s].chain, exams[s].state)
    BY SessionIs
  <2>2. IsChain(sessions[s].chain)
    BY <2>1, SessionFacts
  <2>3. /\ IsSession(x)
        /\ x.chain = AppendEntry(sessions[s].chain, AuditKey, type)
        /\ x.last = sessions[s].last
        /\ x.peak = sessions[s].peak /\ x.history = sessions[s].history
    BY <2>1, AuditSession
  <2>4. Tells(x.chain, exams[s].state)
    BY <2>1, <2>2, <2>3, TaleGrows
  <2>5. x.live = TRUE
    BY <2>3, SessionFacts
  <2> HIDE DEF x
  <2>6. Worst(x)
    BY <2>1, <2>3 DEF Worst
  <2> QED
    BY <2>1, <2>3, <2>4, <2>5, <2>6
<1>2. /\ sessions' = [t \in Ids |-> sessions'[t]]
      /\ Live' = Live
      /\ \/ sessions'[s] = sessions[s]
         \/ s \in Ids /\ sessions[s].live /\ sessions'[s] = x
      /\ \A t \in Ids \ {s} : sessions'[t] = sessions[t]
  <2>1. CASE UNCHANGED sessions
    BY <2>1 DEF IInv, TablesOK, Live
  <2>2. CASE s \in Ids /\ sessions[s].live /\ sessions' = [sessions EXCEPT ![s] = x]
    <3>1. CanGet(s) /\ s \in Live
      BY <2>2 DEF CanGet, Live
    <3> HIDE DEF x
    <3> QED
      BY <1>1, <2>2, <3>1, OneSession
  <2> QED
    BY <2>1, <2>2
<1> HIDE DEF x
<1>3. now' = now /\ exams' = exams /\ tokenExp' = tokenExp /\ calls' = calls
      /\ legacy' = legacy /\ clients' = clients
  OBVIOUS
<1>4. \A t \in Ids :
        /\ sessions'[t].live = sessions[t].live
        /\ sessions'[t].live => sessions'[t].last = sessions[t].last
                                /\ sessions'[t].peak = sessions[t].peak
  BY <1>1, <1>2, SessionIs
<1>5. \A t \in Ids : Good(t)'
  <2> TAKE t \in Ids
  <2>1. Good(t)
    BY DEF IInv
  <2>2. SessionOK(t)'
    <3>1. CASE sessions'[t] = sessions[t]
      BY <1>3, <2>1, <3>1 DEF Good, SessionOK
    <3>2. CASE sessions'[t] # sessions[t]
      <4>1. t = s /\ sessions'[s] = x /\ sessions[s].live
        BY <1>2, <3>2
      <4> QED
        BY <1>1, <1>3, <4>1 DEF SessionOK
    <3> QED
      BY <3>1, <3>2
  <2>3. TokenBound(t)'
    <3>1. sessions[t].live => sessions'[t].last = sessions[t].last
      BY <1>4
    <3>2. sessions'[t].live = sessions[t].live
      BY <1>4
    <3> QED
      BY <1>3, <2>1, <3>1, <3>2 DEF Good, TokenBound, Joined
  <2>4. OnlyJoinedHaveDevices(t)'
    BY <1>3, <2>1 DEF Good, OnlyJoinedHaveDevices, Joined
  <2>5. RiskReaches(t)'
    BY <1>3, <1>4, <2>1 DEF Good, RiskReaches
  <2> QED
    BY <2>2, <2>3, <2>4, <2>5 DEF Good
<1>6. \A c \in calls' : CallOK(c)'
  <2>1. \A t \in Ids : sessions[t].live => sessions[t].last \in Nat
    BY SessionIs
  <2>2. \A c \in calls : CallOK(c)'
    BY <1>3, <1>4, <2>1, CallsStay
  <2> QED
    BY <1>3, <2>2
<1>7. TablesOK'
  BY <1>2, <1>3 DEF IInv, TablesOK
<1>8. CapsOK'
  BY <1>2, <1>3 DEF IInv, CapsOK, AnonymousCounted, Joined
<1> QED
  BY <1>5, <1>6, <1>7, <1>8 DEF IInv

LEMMA Unbroken ==
  ASSUME IInv
  PROVE  /\ IsDevices(dev) /\ IsIntegrity(node) /\ now \in Nat
         /\ \A t \in Ids : OneNode(t)
  BY DEF IInv, TablesOK, Good

LEMMA ReportStep ==
  ASSUME IInv, NEW s \in Ids, Report(s)
  PROVE  IInv'
<1>1. \/ UNCHANGED sessions
      \/ /\ sessions[s].live
         /\ sessions' = [sessions EXCEPT ![s] = Audit(sessions[s], "report_generated")]
  BY DEF Report, IInv, TablesOK
<1>2. UNCHANGED <<clients, now, legacy, exams, tokenExp, calls, dev, node>>
  BY DEF Report
<1>3. IsDevices(dev') /\ IsIntegrity(node') /\ \A t \in Ids : OneNode(t)'
  BY <1>2, Unbroken DEF OneNode
<1> QED
  BY <1>1, <1>2, <1>3, Noted

LEMMA QuietStep ==
  ASSUME IInv,
         \/ \E s \in Ids : VerifyAudit(s)
         \/ ExpireNonces
         \/ UNCHANGED vars
  PROVE  IInv'
<1>1. UNCHANGED <<clients, now, sessions, legacy, exams, tokenExp, calls, dev>>
  BY DEF VerifyAudit, ExpireNonces, vars
<1>2. /\ IsIntegrity(node')
      /\ node'.paired = node.paired /\ node'.bound = node.bound
  <2>1. CASE node' = node
    BY <2>1, Unbroken
  <2>2. CASE node' = ForgetNonces(node, now)
    <3> DEFINE seen == {e \in node.seen : e.expires > now}
    <3>1. node' = [node EXCEPT !.seen = seen]
      BY <2>2 DEF ForgetNonces
    <3> HIDE DEF seen
    <3>2. /\ node' \in [ pending : {node.pending}, paired : [Ids -> Nodes \cup {NoOne}],
                         bound : [Ids -> Nodes \cup {NoOne}], seen : {seen},
                         drawn : {node.drawn} ]
          /\ node'.paired = node.paired /\ node'.bound = node.bound
      BY <3>1, Unbroken DEF IsIntegrity
    <3> QED
      BY <3>2 DEF IsIntegrity
  <2> QED
    BY <2>1, <2>2 DEF VerifyAudit, ExpireNonces, vars
<1>3. IsDevices(dev') /\ \A t \in Ids : OneNode(t)'
  BY <1>1, <1>2, Unbroken DEF OneNode
<1> QED
  BY <1>1, <1>2, <1>3, Noted

LEMMA DeviceChallengeStep ==
  ASSUME IInv, NEW s \in Ids, NEW purpose \in {"pair", "proof"},
         DeviceChallenge(s, purpose)
  PROVE  IInv'
<1>1. /\ sessions[s].live
      /\ sessions' = [sessions EXCEPT ![s] = Audit(sessions[s], "device")]
  BY DEF DeviceChallenge, OnSession, IInv, TablesOK
<1>2. UNCHANGED <<clients, now, legacy, exams, tokenExp, calls, node>>
  BY DEF DeviceChallenge
<1>3. IsDevices(dev') /\ dev'.paired = dev.paired /\ dev'.record = dev.record
  BY Unbroken, CreatedIsDevices DEF DeviceChallenge
<1>4. IsIntegrity(node') /\ \A t \in Ids : OneNode(t)'
  BY <1>2, Unbroken DEF OneNode
<1> QED
  BY <1>1, <1>2, <1>3, <1>4, Noted

LEMMA DevicePairStep ==
  ASSUME IInv, NEW s \in Ids, NEW p \in DevicePairings, DevicePair(s, p)
  PROVE  IInv'
<1> DEFINE after == CompletePairing(dev, s, Exam, p, now)
<1>1. /\ sessions[s].live /\ Joined(s)
      /\ sessions' = [sessions EXCEPT ![s] = Audit(sessions[s], "device")]
  BY DEF DevicePair, OnSession, IInv, TablesOK
<1>2. UNCHANGED <<clients, now, legacy, exams, tokenExp, calls, node>>
  BY DEF DevicePair
<1>3. p.node \in Nodes
  BY PayloadAssumption
<1>4. Apart(dev, after, s) /\ after.record = dev.record
  BY <1>3, Unbroken, PairingApart
<1>5. dev' = RecordPaired(after, s, p) \/ dev' = RecordRejected(after, s)
  BY DEF DevicePair
<1> HIDE DEF after
<1>6. /\ Apart(after, dev', s) /\ dev'.paired = after.paired
      /\ dev'.record[s].excludedMax = after.record[s].excludedMax
  BY <1>4, <1>5, PairedApart, RejectedApart DEF Apart
<1>7. /\ IsDevices(dev')
      /\ \A t \in Ids :
           /\ dev'.record[t].excludedMax = dev.record[t].excludedMax
           /\ dev'.paired[t] = dev.paired[t] \/ Joined(t)
  BY <1>1, <1>4, <1>6 DEF Apart
<1>8. IsIntegrity(node') /\ \A t \in Ids : OneNode(t)'
  BY <1>2, Unbroken DEF OneNode
<1> QED
  BY <1>1, <1>2, <1>7, <1>8, Noted

LEMMA NodeStep ==
  ASSUME IInv, NEW s \in Ids,
         \/ NodeChallenge(s)
         \/ \E p \in NodePairings : NodePair(s, p)
         \/ \E p \in NodeProofs : NodeProof(s, p)
  PROVE  IInv'
<1>1. /\ sessions[s].live
      /\ sessions' = [sessions EXCEPT ![s] = Audit(sessions[s], "device")]
  BY DEF NodeChallenge, NodePair, NodeProof, OnSession, IInv, TablesOK
<1>2. UNCHANGED <<clients, now, legacy, exams, tokenExp, calls, dev>>
  BY DEF NodeChallenge, NodePair, NodeProof
<1>3. IsIntegrity(node') /\ \A t \in Ids : OneNode(t)'
  <2>1. CASE node' = node
    BY <2>1, Unbroken DEF OneNode
  <2>2. CASE \E c : node' = NewPairing(node, s, c, now)
    <3>1. PICK c : node' = NewPairing(node, s, c, now)
      BY <2>2
    <3> DEFINE drawn == node.drawn \cup {c}
               pending == [node.pending EXCEPT ![s] = [ value |-> c,
                                                        expires |-> now + PairingTtl ]]
    <3>2. node' = [node EXCEPT !.pending = pending, !.drawn = drawn]
      BY <3>1, Unbroken DEF NewPairing, IsIntegrity
    <3> HIDE DEF drawn, pending
    <3>3. /\ node' \in [ pending : {pending}, paired : [Ids -> Nodes \cup {NoOne}],
                         bound : [Ids -> Nodes \cup {NoOne}], seen : {node.seen},
                         drawn : {drawn} ]
          /\ node'.paired = node.paired /\ node'.bound = node.bound
      BY <3>2, Unbroken DEF IsIntegrity
    <3>4. IsIntegrity(node')
      BY <3>3 DEF IsIntegrity
    <3> QED
      BY <3>3, <3>4, Unbroken DEF OneNode
  <2>3. CASE \E p \in NodePairings : PairReason(node, s, p, now) = "ok"
                                     /\ node' = Pair(node, s, p.node)
    <3>1. PICK p \in NodePairings : PairReason(node, s, p, now) = "ok"
                                    /\ node' = Pair(node, s, p.node)
      BY <2>3
    <3>2. p.node \in Nodes
      BY PayloadAssumption
    <3>3. /\ IsIntegrity(node') /\ OneNode(s)'
          /\ \A t \in Ids \ {s} : node'.paired[t] = node.paired[t]
          /\ node'.bound = node.bound
      BY <3>1, <3>2, Unbroken, PairKeepsNode
    <3> QED
      BY <3>3, Unbroken DEF OneNode
  <2>4. CASE \E p \in NodeProofs : node' = SubmitProof(node, s, p, now)
    <3>1. PICK p \in NodeProofs : node' = SubmitProof(node, s, p, now)
      BY <2>4
    <3>2. p.node \in Nodes
      BY PayloadAssumption
    <3>3. /\ IsIntegrity(node') /\ OneNode(s)'
          /\ \A t \in Ids \ {s} : node'.bound[t] = node.bound[t]
          /\ node'.paired = node.paired
      BY <3>1, <3>2, Unbroken, ProofKeepsNode
    <3> QED
      BY <3>3, Unbroken DEF OneNode
  <2> QED
    BY <2>1, <2>2, <2>3, <2>4 DEF NodeChallenge, NodePair, NodeProof
<1>4. IsDevices(dev')
  BY <1>2, Unbroken
<1> QED
  BY <1>1, <1>2, <1>3, <1>4, Noted

-----------------------------------------------------------------------------
(* The exam routes: a record is written, with the session it belongs to.   *)
LEMMA Fewer ==
  ASSUME IInv
  PROVE  /\ legacy \subseteq Live /\ IsFiniteSet(legacy)
         /\ Cardinality(legacy) \in Nat /\ Cardinality(Live) \in Nat
         /\ \A T \in SUBSET Live : IsFiniteSet(T) /\ Cardinality(T) <= MaxSessions
         /\ \A T \in SUBSET legacy : IsFiniteSet(T) /\ Cardinality(T) <= MaxLegacy
<1>1. /\ IsFiniteSet(Live) /\ Cardinality(Live) <= MaxSessions
      /\ Cardinality(legacy) <= MaxLegacy /\ legacy = {t \in Live : ~Joined(t)}
  BY DEF IInv, CapsOK, AnonymousCounted
<1>2. legacy \subseteq Live
  BY <1>1
<1>3. IsFiniteSet(legacy) /\ Cardinality(legacy) \in Nat /\ Cardinality(Live) \in Nat
  BY <1>1, <1>2, FS_Subset, FS_CardinalityType
<1>4. MaxSessions \in Nat /\ MaxLegacy \in Nat
  BY ServerAssumption
<1>5. ASSUME NEW T \in SUBSET Live
      PROVE  IsFiniteSet(T) /\ Cardinality(T) <= MaxSessions
  <2>1. IsFiniteSet(T) /\ Cardinality(T) <= Cardinality(Live)
    BY <1>1, FS_Subset
  <2>2. Cardinality(T) \in Nat
    BY <2>1, FS_CardinalityType
  <2> QED
    BY <1>1, <1>3, <1>4, <2>1, <2>2
<1>6. ASSUME NEW T \in SUBSET legacy
      PROVE  IsFiniteSet(T) /\ Cardinality(T) <= MaxLegacy
  <2>1. IsFiniteSet(T) /\ Cardinality(T) <= Cardinality(legacy)
    BY <1>3, FS_Subset
  <2>2. Cardinality(T) \in Nat
    BY <2>1, FS_CardinalityType
  <2> QED
    BY <1>1, <1>3, <1>4, <2>1, <2>2
<1> QED
  BY <1>2, <1>3, <1>5, <1>6

LEMMA ExamMoves ==
  ASSUME IInv, NEW s \in Ids, NEW r \in ExamRecords, r # NoExamRecord,
         NEW x, IsSession(x), Worst(x), x.last <= now, Tells(x.chain, r.state),
         CanGet(s),
         sessions[s].live => x.last >= sessions[s].last /\ x.peak = sessions[s].peak,
         ~sessions[s].live => ~Joined(s),
         NEW e \in -1..(now + TokenTtl), e <= x.last + TokenTtl,
         sessions' = [sessions EXCEPT ![s] = x],
         exams' = [exams EXCEPT ![s] = r],
         tokenExp' = [tokenExp EXCEPT ![s] = e],
         legacy' = legacy \ {s},
         UNCHANGED <<clients, now, calls, dev, node>>
  PROVE  IInv'
<1>1. /\ sessions' = [t \in Ids |-> sessions'[t]]
      /\ sessions'[s] = x
      /\ \A t \in Ids \ {s} : sessions'[t] = sessions[t]
      /\ Live' = Live \cup {s}
      /\ IsFiniteSet(Live') /\ Cardinality(Live') <= MaxSessions
  BY OneSession
<1>2. /\ exams' \in [Ids -> ExamRecords] /\ exams'[s] = r
      /\ \A t \in Ids \ {s} : exams'[t] = exams[t]
  BY DEF IInv, TablesOK
<1>3. /\ tokenExp' \in [Ids -> -1..(now + TokenTtl)] /\ tokenExp'[s] = e
      /\ \A t \in Ids \ {s} : tokenExp'[t] = tokenExp[t]
  BY DEF IInv, TablesOK
<1>4. x.live = TRUE /\ x.last \in Nat /\ now' = now /\ calls' = calls
      /\ dev' = dev /\ node' = node /\ clients' = clients
  BY SessionFacts
<1>5. Joined(s)' /\ \A t \in Ids \ {s} : Joined(t)' <=> Joined(t)
  BY <1>2 DEF Joined
<1>6. Good(s)
  BY DEF IInv
<1>7. Good(s)'
  <2>1. SessionOK(s)'
    BY <1>1, <1>2, <1>4 DEF SessionOK
  <2>2. TokenBound(s)'
    BY <1>1, <1>3, <1>4 DEF TokenBound
  <2>3. OnlyJoinedHaveDevices(s)'
    BY <1>5 DEF OnlyJoinedHaveDevices
  <2>4. RiskReaches(s)'
    <3>1. CASE sessions[s].live
      BY <1>1, <1>4, <1>6, <3>1 DEF Good, RiskReaches
    <3>2. CASE ~sessions[s].live
      <4>1. dev.record[s].excludedMax = 0
        BY <1>6, <3>2 DEF Good, OnlyJoinedHaveDevices
      <4> QED
        BY <1>4, <4>1 DEF RiskReaches
    <3> QED
      BY <3>1, <3>2
  <2>5. OneNode(s)'
    BY <1>4, <1>6 DEF Good, OneNode
  <2> QED
    BY <2>1, <2>2, <2>3, <2>4, <2>5 DEF Good
<1>8. \A t \in Ids \ {s} : Good(t)'
  BY <1>1, <1>2, <1>3, <1>4, Elsewhere
<1>9. \A c \in calls' : CallOK(c)'
  <2>1. \A t \in Ids : sessions[t].live => sessions[t].last \in Nat
    BY SessionIs
  <2>2. \A c \in calls : CallOK(c)'
    BY <1>1, <1>4, <2>1, CallsStay
  <2> QED
    BY <1>4, <2>2
<1>10. TablesOK'
  BY <1>1, <1>2, <1>3, <1>4 DEF IInv, TablesOK
<1>11. CapsOK'
  <2>1. AnonymousCounted'
    <3>1. AnonymousCounted
      BY DEF IInv, CapsOK
    <3>2. Live \subseteq Ids
      BY DEF Live
    <3> QED
      BY <1>1, <1>5, <3>1, <3>2 DEF AnonymousCounted
  <2>2. Cardinality(legacy') <= MaxLegacy
    BY Fewer
  <2> QED
    BY <1>1, <1>4, <2>1, <2>2 DEF IInv, CapsOK
<1> QED
  BY <1>7, <1>8, <1>9, <1>10, <1>11 DEF IInv

LEMMA JoinStep ==
  ASSUME IInv, NEW s \in Ids, NEW student \in Students, Join(s, student)
  PROVE  IInv'
<1> DEFINE r == [student |-> student, state |-> "joined"]
<1>1. r \in ExamRecords /\ r # NoExamRecord /\ r.state = "joined"
  BY DEF ExamRecords, NoExamRecord
<1>2. ~sessions[s].live /\ ~Joined(s) /\ CanGet(s)
  BY DEF Join
<1>3. now \in Nat /\ TokenTtl \in Nat
  BY Unbroken, ServerAssumption
<1>4. IsSession(Got(s)) /\ Worst(Got(s)) /\ Got(s).last = now
      /\ Got(s).chain = NewChain
  BY <1>2, GotSession
<1> HIDE DEF r
<1>5. Tells(Got(s).chain, r.state)
  BY <1>1, <1>4, NewChainIsChain DEF Tells
<1>6. /\ sessions' = [sessions EXCEPT ![s] = Got(s)]
      /\ exams' = [exams EXCEPT ![s] = r]
      /\ tokenExp' = [tokenExp EXCEPT ![s] = now + TokenTtl]
      /\ legacy' = legacy \ {s}
      /\ UNCHANGED <<clients, now, calls, dev, node>>
  BY DEF Join, r
<1>7. now + TokenTtl \in -1..(now + TokenTtl) /\ Got(s).last <= now
      /\ now + TokenTtl <= Got(s).last + TokenTtl
  BY <1>3, <1>4
<1> QED
  BY <1>1, <1>2, <1>4, <1>5, <1>6, <1>7, ExamMoves

(* The later routes: the session is there, and its record moves on.        *)
LEMMA ExamGoesOn ==
  ASSUME IInv, NEW s \in Ids, Authorised(s), NEW next,
         next \in {"privacy_accepted", "exam_started", "submitted"},
         NEW x, IsSession(x), Worst(x), x.last \in {now, sessions[s].last},
         x.peak = sessions[s].peak, Tells(x.chain, next),
         sessions' = [sessions EXCEPT ![s] = x],
         exams' = [exams EXCEPT ![s].state = next],
         UNCHANGED <<clients, now, legacy, tokenExp, calls, dev, node>>
  PROVE  IInv'
<1> DEFINE r == [exams[s] EXCEPT !.state = next]
           e == tokenExp[s]
<1>1. sessions[s].live /\ CanGet(s) /\ Joined(s)
  BY TokenMeansLive DEF Authorised
<1>2. /\ sessions[s].last \in Nat /\ sessions[s].last <= now /\ now \in Nat
      /\ TokenTtl \in Nat
  BY <1>1, SessionIs, Unbroken, ServerAssumption
<1>3. exams[s] \in [ student : Students,
                     state : {"joined", "privacy_accepted", "exam_started", "submitted"} ]
  BY <1>1 DEF IInv, TablesOK, ExamRecords, Joined
<1>4. /\ r \in [ student : Students,
                 state : {"joined", "privacy_accepted", "exam_started", "submitted"} ]
      /\ r.state = next
  BY <1>3
<1>5. exams' = [exams EXCEPT ![s] = r]
  BY DEF IInv, TablesOK
<1> HIDE DEF r
<1>6. r \in ExamRecords /\ r # NoExamRecord
  BY <1>4 DEF ExamRecords, NoExamRecord
<1>7. /\ tokenExp' = [tokenExp EXCEPT ![s] = e]
      /\ e \in -1..(now + TokenTtl) /\ e <= sessions[s].last + TokenTtl
  <2>1. TokenBound(s) /\ tokenExp \in [Ids -> -1..(now + TokenTtl)]
    BY DEF IInv, Good, TablesOK
  <2> QED
    BY <1>1, <2>1 DEF TokenBound
<1>8. x.last <= now /\ x.last >= sessions[s].last /\ x.last \in Nat
  BY <1>2
<1>9. e <= x.last + TokenTtl
  BY <1>2, <1>7, <1>8
<1>10. legacy' = legacy \ {s}
  BY <1>1 DEF IInv, CapsOK, AnonymousCounted
<1> HIDE DEF e
<1> QED
  BY <1>1, <1>4, <1>5, <1>6, <1>7, <1>8, <1>9, <1>10, ExamMoves

LEMMA AcceptPrivacyStep ==
  ASSUME IInv, NEW s \in Ids, AcceptPrivacy(s)
  PROVE  IInv'
<1>1. Authorised(s) /\ sessions[s].live /\ Joined(s)
  BY TokenMeansLive DEF AcceptPrivacy, Authorised
<1>2. exams[s].state \in {"joined", "privacy_accepted", "exam_started", "submitted"}
  BY <1>1 DEF IInv, TablesOK, ExamRecords, Joined
<1>3. exams[s].state = "joined"
  BY <1>2 DEF AcceptPrivacy, Transitions
<1>4. /\ IsSession(sessions[s]) /\ Worst(sessions[s])
      /\ Tells(sessions[s].chain, "privacy_accepted")
  BY <1>1, <1>3, SessionIs DEF Tells
<1>5. sessions' = [sessions EXCEPT ![s] = sessions[s]]
  BY DEF AcceptPrivacy, IInv, TablesOK
<1>6. /\ exams' = [exams EXCEPT ![s].state = "privacy_accepted"]
      /\ UNCHANGED <<clients, now, legacy, tokenExp, calls, dev, node>>
  BY DEF AcceptPrivacy
<1> QED
  BY <1>1, <1>4, <1>5, <1>6, ExamGoesOn

LEMMA StartStep ==
  ASSUME IInv, NEW s \in Ids, Start(s)
  PROVE  IInv'
<1> DEFINE g == Got(s)
           y == [g EXCEPT !.startedAt = now]
           x == Audit(y, "exam_started")
<1>1. Authorised(s) /\ sessions[s].live /\ Joined(s) /\ now \in Nat
  BY TokenMeansLive, Unbroken DEF Start, Authorised
<1>2. exams[s].state = "privacy_accepted"
  BY <1>1 DEF Start, IInv, TablesOK, ExamRecords, Joined
<1>3. IsSession(g) /\ Worst(g) /\ g.last = now /\ g.peak = sessions[s].peak
      /\ g.chain = sessions[s].chain
  BY <1>1, GotSession
<1>4. Tells(g.chain, "privacy_accepted") /\ IsChain(g.chain)
  BY <1>1, <1>2, <1>3, SessionIs, SessionFacts
<1>5. /\ sessions' = [sessions EXCEPT ![s] = x]
      /\ exams' = [exams EXCEPT ![s].state = "exam_started"]
      /\ UNCHANGED <<clients, now, legacy, tokenExp, calls, dev, node>>
  BY DEF Start
<1> HIDE DEF g
<1>6. /\ y \in [ live : {TRUE}, last : Nat, startedAt : Nat, chain : {g.chain},
                 peak : Verdicts \cup {NoVerdict}, history : SUBSET Verdicts ]
      /\ y.chain = g.chain /\ y.last = now /\ y.startedAt = now
      /\ y.peak = g.peak /\ y.history = g.history
  BY <1>1, <1>3 DEF IsSession
<1> HIDE DEF y
<1>7. y.startedAt <= y.last
  BY <1>1, <1>6
<1>8. IsSession(y)
  BY <1>4, <1>6, <1>7 DEF IsSession
<1>9. IsSession(x) /\ x.chain = AppendEntry(g.chain, AuditKey, "exam_started")
      /\ x.last = now /\ x.peak = g.peak /\ x.history = g.history
  BY <1>6, <1>8, AuditSession
<1> HIDE DEF x
<1>10. Worst(x)
  BY <1>3, <1>9 DEF Worst
<1>11. Tells(x.chain, "exam_started")
  BY <1>4, <1>9, TaleGrows
<1> QED
  BY <1>1, <1>3, <1>5, <1>9, <1>10, <1>11, ExamGoesOn

LEMMA SubmitStep ==
  ASSUME IInv, NEW s \in Ids, Submit(s)
  PROVE  IInv'
<1> DEFINE g == Got(s)
           x == Audit(g, "exam_submitted")
<1>1. Authorised(s) /\ sessions[s].live /\ Joined(s) /\ CanGet(s)
  BY TokenMeansLive DEF Submit, Authorised
<1>2. exams[s].state = "exam_started"
  BY <1>1 DEF Submit, IInv, TablesOK, ExamRecords, Joined
<1>3. IsSession(g) /\ Worst(g) /\ g.last = now /\ g.peak = sessions[s].peak
      /\ g.chain = sessions[s].chain
  BY <1>1, GotSession
<1>4. Tells(g.chain, "exam_started") /\ IsChain(g.chain)
  BY <1>1, <1>2, <1>3, SessionIs, SessionFacts
<1>5. /\ sessions' = [sessions EXCEPT ![s] = x]
      /\ exams' = [exams EXCEPT ![s].state = "submitted"]
      /\ UNCHANGED <<clients, now, legacy, tokenExp, calls, dev, node>>
  BY <1>1 DEF Submit
<1> HIDE DEF g
<1>6. IsSession(x) /\ x.chain = AppendEntry(g.chain, AuditKey, "exam_submitted")
      /\ x.last = now /\ x.peak = g.peak /\ x.history = g.history
  BY <1>3, AuditSession
<1> HIDE DEF x
<1>7. Worst(x)
  BY <1>3, <1>6 DEF Worst
<1>8. Tells(x.chain, "submitted")
  BY <1>4, <1>6, TaleGrows
<1> QED
  BY <1>1, <1>3, <1>5, <1>6, <1>7, <1>8, ExamGoesOn

-----------------------------------------------------------------------------
(* The timers.                                                             *)
LEMMA EvictSessionsStep ==
  ASSUME IInv, EvictSessions
  PROVE  IInv'
<1>1. /\ sessions' = [t \in Ids |-> IF Idle(t) THEN NoSession ELSE sessions[t]]
      /\ legacy' = {t \in legacy : ~Idle(t)}
      /\ dev' = EvictExpired(dev, now)
      /\ clients' = clients /\ now' = now /\ exams' = exams /\ tokenExp' = tokenExp
      /\ calls' = calls /\ node' = node
  BY DEF EvictSessions
<1>2. IsDevices(dev') /\ dev'.paired = dev.paired /\ dev'.record = dev.record
  BY <1>1, Unbroken, EvictedDevices
<1>3. NoSession.live = FALSE
  BY DEF NoSession
<1>4. \A t \in Ids : \/ Idle(t) /\ sessions'[t] = NoSession
                     \/ ~Idle(t) /\ sessions'[t] = sessions[t]
  BY <1>1
<1>5. /\ now \in Nat /\ TokenTtl \in Nat /\ SessionTtl \in Nat /\ TokenTtl <= SessionTtl
      /\ CallMax \in Nat /\ CallMax < SessionTtl
  BY Unbroken, ServerAssumption
<1>6. ASSUME NEW t \in Ids
      PROVE  Good(t)'
  <2>1. Good(t)
    BY DEF IInv
  <2>2. CASE ~Idle(t)
    <3>1. sessions'[t] = sessions[t]
      BY <1>4, <2>2
    <3> QED
      BY <1>1, <1>2, <3>1, Elsewhere
  <2>3. CASE Idle(t)
    <3>1. sessions'[t] = NoSession /\ sessions[t].live
      BY <1>4, <2>3 DEF Idle
    <3>2. sessions[t].last \in Nat /\ sessions[t].last < now - SessionTtl
      BY <2>3, <3>1, SessionIs DEF Idle
    <3>3. TokenBound(t)'
      <4>1. tokenExp[t] \in Int
        BY <1>5 DEF IInv, TablesOK
      <4>2. Joined(t) => tokenExp[t] <= sessions[t].last + TokenTtl
        BY <2>1, <3>1 DEF Good, TokenBound
      <4>3. Joined(t) => tokenExp[t] < now
        BY <1>5, <3>2, <4>1, <4>2
      <4> QED
        BY <1>1, <1>3, <3>1, <4>3 DEF TokenBound, Joined
    <3>4. SessionOK(t)'
      BY <3>1 DEF SessionOK
    <3>5. OnlyJoinedHaveDevices(t)'
      BY <1>1, <1>2, <2>1 DEF Good, OnlyJoinedHaveDevices, Joined
    <3>6. RiskReaches(t)'
      BY <1>3, <3>1 DEF RiskReaches
    <3>7. OneNode(t)'
      BY <1>1, <2>1 DEF Good, OneNode
    <3> QED
      BY <3>3, <3>4, <3>5, <3>6, <3>7 DEF Good
  <2> QED
    BY <2>2, <2>3
<1>7. ASSUME NEW c \in calls'
      PROVE  CallOK(c)'
  <2>1. CallOK(c) /\ c \in calls
    BY <1>1 DEF IInv
  <2>2. c.session \in Ids /\ sessions[c.session].live
    BY <2>1 DEF CallOK
  <2>3. sessions[c.session].last \in Nat
    BY <2>2, SessionIs
  <2>4. ~Idle(c.session)
    BY <1>5, <2>1, <2>3 DEF CallOK, Idle
  <2>5. sessions'[c.session] = sessions[c.session]
    BY <1>4, <2>2, <2>4
  <2> QED
    BY <1>1, <2>1, <2>5 DEF CallOK
<1>8. TablesOK'
  <2>1. sessions' = [t \in Ids |-> sessions'[t]]
    BY <1>1
  <2> QED
    BY <1>1, <1>2, <2>1 DEF IInv, TablesOK
<1>9. CapsOK'
  <2>1. Live' = {t \in Live : ~Idle(t)}
    BY <1>3, <1>4 DEF Live
  <2>2. legacy = {t \in Live : ~Joined(t)}
    BY DEF IInv, CapsOK, AnonymousCounted
  <2>3. \A t : Joined(t)' <=> Joined(t)
    BY <1>1 DEF Joined
  <2>4. AnonymousCounted'
    BY <1>1, <2>1, <2>2, <2>3 DEF AnonymousCounted
  <2>5. Live' \subseteq Live /\ legacy' \subseteq legacy
    BY <1>1, <2>1
  <2> QED
    BY <1>1, <2>4, <2>5, Fewer DEF IInv, CapsOK
<1> QED
  BY <1>6, <1>7, <1>8, <1>9 DEF IInv

LEMMA EvictExamsStep ==
  ASSUME IInv, EvictExams
  PROVE  IInv'
<1>1. /\ exams' = [t \in Ids |-> IF sessions[t].live THEN exams[t] ELSE NoExamRecord]
      /\ dev' = EvictMissing(dev, Live) /\ node' = ForgetMissing(node, Live)
      /\ clients' = clients /\ now' = now /\ sessions' = sessions /\ legacy' = legacy
      /\ tokenExp' = tokenExp /\ calls' = calls
  BY DEF EvictExams
<1>2. /\ IsDevices(dev')
      /\ \A t \in Ids :
           /\ dev'.paired[t] = IF t \in Live THEN dev.paired[t] ELSE NoOne
           /\ dev'.record[t] = IF t \in Live THEN dev.record[t] ELSE NoRecord
  BY <1>1, Unbroken, EvictedDevices
<1>3. /\ IsIntegrity(node')
      /\ \A t \in Ids :
           /\ node'.paired[t] = IF t \in Live THEN node.paired[t] ELSE NoOne
           /\ node'.bound[t] = IF t \in Live THEN node.bound[t] ELSE NoOne
  <2> DEFINE pending == [t \in Ids |-> IF t \in Live THEN node.pending[t] ELSE NoPending]
             paired == [t \in Ids |-> IF t \in Live THEN node.paired[t] ELSE NoOne]
             bound == [t \in Ids |-> IF t \in Live THEN node.bound[t] ELSE NoOne]
  <2>1. node' = [node EXCEPT !.pending = pending, !.paired = paired, !.bound = bound]
    BY <1>1, Unbroken DEF ForgetMissing, IsIntegrity
  <2>2. paired \in [Ids -> Nodes \cup {NoOne}] /\ bound \in [Ids -> Nodes \cup {NoOne}]
    BY Unbroken DEF IsIntegrity
  <2>3. \A t \in Ids :
          /\ paired[t] = IF t \in Live THEN node.paired[t] ELSE NoOne
          /\ bound[t] = IF t \in Live THEN node.bound[t] ELSE NoOne
    OBVIOUS
  <2> HIDE DEF pending, paired, bound
  <2>4. /\ node' \in [ pending : {pending}, paired : [Ids -> Nodes \cup {NoOne}],
                       bound : [Ids -> Nodes \cup {NoOne}], seen : {node.seen},
                       drawn : {node.drawn} ]
        /\ node'.paired = paired /\ node'.bound = bound /\ node'.pending = pending
    BY <2>1, <2>2, Unbroken DEF IsIntegrity
  <2>5. IsIntegrity(node')
    BY <2>4 DEF IsIntegrity
  <2> QED
    BY <2>3, <2>4, <2>5
<1>4. \A t \in Ids : t \in Live <=> sessions[t].live
  BY DEF Live
<1>5. ASSUME NEW t \in Ids
      PROVE  Good(t)'
  <2>1. CASE sessions[t].live
    <3>1. /\ exams'[t] = exams[t]
          /\ dev'.paired[t] = dev.paired[t] /\ dev'.record[t] = dev.record[t]
          /\ node'.paired[t] = node.paired[t] /\ node'.bound[t] = node.bound[t]
      BY <1>1, <1>2, <1>3, <1>4, <2>1
    <3> QED
      BY <1>1, <3>1, Elsewhere
  <2>2. CASE ~sessions[t].live
    <3>1. sessions'[t] = NoSession /\ exams'[t] = NoExamRecord /\ ~sessions'[t].live
      BY <1>1, <2>2, SessionIs
    <3>2. dev'.paired[t] = NoOne /\ dev'.record[t].excludedMax = 0
      BY <1>2, <1>4, <2>2 DEF NoRecord
    <3>3. node'.paired[t] = NoOne
      BY <1>3, <1>4, <2>2
    <3> QED
      BY <3>1, <3>2, <3>3 DEF Good, SessionOK, TokenBound, OnlyJoinedHaveDevices,
                              RiskReaches, OneNode, Joined
  <2> QED
    BY <2>1, <2>2
<1>6. \A c \in calls' : CallOK(c)'
  BY <1>1 DEF IInv, CallOK
<1>7. TablesOK'
  <2>1. exams' \in [Ids -> ExamRecords]
    BY <1>1 DEF IInv, TablesOK, ExamRecords
  <2> QED
    BY <1>1, <1>2, <1>3, <2>1 DEF IInv, TablesOK
<1>8. CapsOK'
  <2>1. \A t \in Live : exams'[t] = exams[t]
    BY <1>1 DEF Live
  <2>2. Live' = Live
    BY <1>1 DEF Live
  <2>3. AnonymousCounted'
    BY <1>1, <2>1, <2>2 DEF IInv, CapsOK, AnonymousCounted, Joined
  <2> QED
    BY <1>1, <2>2, <2>3 DEF IInv, CapsOK
<1> QED
  BY <1>5, <1>6, <1>7, <1>8 DEF IInv

LEMMA TickStep ==
  ASSUME IInv, Tick
  PROVE  IInv'
<1>1. /\ now < MaxTime /\ now' = now + 1 /\ \A c \in calls : now < c.due
      /\ clients' = clients /\ sessions' = sessions /\ legacy' = legacy
      /\ exams' = exams /\ tokenExp' = tokenExp /\ calls' = calls /\ dev' = dev
      /\ node' = node
  BY DEF Tick
<1>2. now \in Nat /\ MaxTime \in Nat /\ TokenTtl \in Nat
  BY Unbroken, ServerAssumption
<1>3. tokenExp \in [Ids -> -1..(now + TokenTtl)]
  BY DEF IInv, TablesOK
<1>4. ASSUME NEW t \in Ids
      PROVE  Good(t)'
  <2>1. Good(t) /\ tokenExp[t] \in Int
    BY <1>2, <1>3 DEF IInv
  <2>2. SessionOK(t)'
    <3>1. sessions[t] = NoSession \/ sessions[t].last \in Nat
      BY SessionIs
    <3> QED
      BY <1>1, <1>2, <2>1, <3>1 DEF Good, SessionOK
  <2>3. TokenBound(t)'
    BY <1>1, <1>2, <2>1 DEF Good, TokenBound, Joined
  <2>4. OnlyJoinedHaveDevices(t)' /\ RiskReaches(t)' /\ OneNode(t)'
    BY <1>1, <2>1 DEF Good, OnlyJoinedHaveDevices, RiskReaches, OneNode, Joined
  <2> QED
    BY <2>2, <2>3, <2>4 DEF Good
<1>5. ASSUME NEW c \in calls'
      PROVE  CallOK(c)'
  <2>1. CallOK(c) /\ now < c.due /\ c.due \in Nat
    BY <1>1 DEF IInv, CallOK
  <2>2. now' <= c.due
    BY <1>1, <1>2, <2>1
  <2> QED
    BY <1>1, <2>1, <2>2 DEF CallOK
<1>6. TablesOK'
  <2>1. now' \in 0..MaxTime
    BY <1>1, <1>2
  <2>2. -1..(now + TokenTtl) \subseteq -1..(now' + TokenTtl)
    BY <1>1, <1>2
  <2>3. tokenExp' \in [Ids -> -1..(now' + TokenTtl)]
    BY <1>1, <1>3, <2>2
  <2> QED
    BY <1>1, <2>1, <2>3 DEF IInv, TablesOK
<1>7. CapsOK'
  BY <1>1 DEF IInv, CapsOK, AnonymousCounted, Live, Joined
<1> QED
  BY <1>4, <1>5, <1>6, <1>7 DEF IInv

(* The answer of a model is written to the session that waited for it.     *)
LEMMA ModelReplyStep ==
  ASSUME IInv, NEW c \in calls, ModelReply(c)
  PROVE  IInv'
<1> DEFINE s == c.session
           x == Persist(sessions[s], c.verdict)
<1>1. /\ s \in Ids /\ sessions[s].live /\ c.verdict \in Verdicts
  BY DEF IInv, CallOK
<1>2. /\ sessions' = [sessions EXCEPT ![s] = x]
      /\ calls' = calls \ {c}
      /\ clients' = clients /\ now' = now /\ legacy' = legacy /\ exams' = exams
      /\ tokenExp' = tokenExp /\ dev' = dev /\ node' = node
  BY <1>1 DEF ModelReply, IInv, TablesOK
<1>3. /\ IsSession(sessions[s]) /\ Worst(sessions[s])
      /\ sessions[s].last <= now /\ sessions[s].last \in Nat
      /\ Tells(sessions[s].chain, exams[s].state)
  BY <1>1, SessionIs
<1>4. /\ IsSession(x) /\ Worst(x)
      /\ x.chain = AppendEntry(sessions[s].chain, AuditKey, "verdict")
      /\ x.last = sessions[s].last
      /\ sessions[s].peak.level = "Critical" \/ c.verdict.level = "Critical"
           => x.peak.level = "Critical"
  BY <1>1, <1>3, PersistSession
<1>5. CanGet(s) /\ x.live = TRUE /\ s \in Live /\ IsChain(sessions[s].chain)
  BY <1>1, <1>3, <1>4, SessionFacts DEF CanGet, Live
<1> HIDE DEF s, x
<1>6. Tells(x.chain, exams[s].state)
  BY <1>3, <1>4, <1>5, TaleGrows
<1>7. /\ sessions' = [t \in Ids |-> sessions'[t]]
      /\ sessions'[s] = x
      /\ \A t \in Ids \ {s} : sessions'[t] = sessions[t]
      /\ Live' = Live
  BY <1>1, <1>2, <1>4, <1>5, OneSession
<1>8. Good(s)
  BY <1>1 DEF IInv
<1>9. Good(s)'
  <2>1. SessionOK(s)'
    BY <1>2, <1>3, <1>4, <1>6, <1>7 DEF SessionOK
  <2>2. TokenBound(s)'
    BY <1>1, <1>2, <1>4, <1>5, <1>7, <1>8 DEF Good, TokenBound, Joined
  <2>3. OnlyJoinedHaveDevices(s)' /\ OneNode(s)'
    BY <1>2, <1>8 DEF Good, OnlyJoinedHaveDevices, OneNode, Joined
  <2>4. RiskReaches(s)'
    <3>1. ASSUME dev.record[s].excludedMax > 0, x.peak.level # "Critical"
          PROVE  \E k \in calls \ {c} : k.session = s /\ k.verdict.level = "Critical"
      <4>1. \E k \in calls : k.session = s /\ k.verdict.level = "Critical"
        BY <1>1, <1>4, <1>8, <3>1 DEF Good, RiskReaches
      <4> QED
        BY <1>4, <3>1, <4>1
    <3> QED
      BY <1>2, <1>7, <3>1 DEF RiskReaches
  <2> QED
    BY <2>1, <2>2, <2>3, <2>4 DEF Good
<1>10. ASSUME NEW t \in Ids \ {s}
       PROVE  Good(t)'
  <2>1. \A k \in calls : k.session = t => k \in calls'
    BY <1>2 DEF s
  <2> QED
    BY <1>2, <1>7, <2>1, Elsewhere
<1>11. \A k \in calls' : CallOK(k)'
  <2>1. \A t \in Ids : sessions[t].live => sessions[t].last \in Nat
    BY SessionIs
  <2>2. \A t \in Ids : sessions[t].live =>
          sessions'[t].live /\ sessions'[t].last \in Nat
            /\ sessions'[t].last >= sessions[t].last
    BY <1>3, <1>4, <1>5, <1>7, <2>1
  <2>3. \A k \in calls : CallOK(k)'
    BY <1>2, <2>2, CallsStay
  <2> QED
    BY <1>2, <2>3
<1>12. TablesOK'
  BY <1>2, <1>7 DEF IInv, TablesOK
<1>13. CapsOK'
  <2>1. IsFiniteSet(calls) /\ Cardinality(calls) <= MaxCalls /\ MaxCalls \in Nat
    BY ServerAssumption DEF IInv, CapsOK
  <2>2. IsFiniteSet(calls') /\ Cardinality(calls') <= Cardinality(calls)
    BY <1>2, <2>1, FS_Subset
  <2>3. Cardinality(calls') \in Nat /\ Cardinality(calls) \in Nat
    BY <2>1, <2>2, FS_CardinalityType
  <2>4. Cardinality(calls') <= MaxCalls
    BY <2>1, <2>2, <2>3
  <2> QED
    BY <1>2, <1>7, <2>2, <2>4 DEF IInv, CapsOK, AnonymousCounted, Joined
<1> QED
  BY <1>1, <1>9, <1>10, <1>11, <1>12, <1>13 DEF IInv

LEMMA InitInv == Init => IInv
<1> HAVE Init
<1>1. /\ clients \in Mixes /\ now = 0 /\ sessions = [t \in Ids |-> NoSession]
      /\ legacy = {} /\ exams = [t \in Ids |-> NoExamRecord]
      /\ tokenExp = [t \in Ids |-> -1] /\ calls = {}
      /\ dev = EmptyDevices /\ node = EmptyIntegrity
  BY DEF Init
<1>2. /\ MaxTime \in Nat /\ TokenTtl \in Nat /\ MaxSessions \in Nat /\ MaxLegacy \in Nat
      /\ MaxCalls \in Nat
  BY ServerAssumption
<1>3. IsRecord(NoRecord)
  BY DEF NoRecord, IsRecord, Fields
<1>4. /\ IsDevices(dev) /\ \A t \in Ids : /\ dev.paired[t] = NoOne
                                          /\ dev.record[t] = NoRecord
  BY <1>1, <1>3 DEF EmptyDevices, IsDevices
<1>5. IsIntegrity(node) /\ \A t \in Ids : node.paired[t] = NoOne
  BY <1>1 DEF EmptyIntegrity, IsIntegrity
<1>6. TablesOK
  BY <1>1, <1>2, <1>4, <1>5 DEF TablesOK, ExamRecords
<1>7. NoRecord.excludedMax = 0 /\ NoSession.live = FALSE
  BY DEF NoRecord, NoSession
<1>8. ASSUME NEW t \in Ids
      PROVE  Good(t)
  BY <1>1, <1>4, <1>5, <1>7 DEF Good, SessionOK, TokenBound, OnlyJoinedHaveDevices,
                                RiskReaches, OneNode, Joined
<1>9. CapsOK
  <2>1. Live = {}
    BY <1>1, <1>7 DEF Live
  <2> QED
    BY <1>1, <1>2, <2>1, FS_EmptySet DEF CapsOK, AnonymousCounted
<1> QED
  BY <1>1, <1>6, <1>8, <1>9 DEF IInv

-----------------------------------------------------------------------------
(* The telemetry route.  What a request carries from stage to stage is the *)
(* session it got, whole and with its peak untouched, and a registry that  *)
(* differs from the one it found only in what is known of this session.    *)
Whole(s, x) ==
  /\ IsSession(x) /\ Worst(x)
  /\ x.last = now /\ x.peak = Got(s).peak
  /\ Tells(x.chain, exams[s].state)

Carried(s, w) ==
  /\ w \in [sess : {w.sess}, dev : {w.dev}, kinds : {w.kinds}, done : BOOLEAN]
  /\ Whole(s, w.sess)
  /\ Apart(dev, w.dev, s)
  /\ w.dev.paired = dev.paired

SameRisk(s, w) == w.dev.record[s].excludedMax = dev.record[s].excludedMax

(* Before the proof is looked at only a missing device can be noted.       *)
Early(s, b, w) ==
  /\ Carried(s, w)
  /\ SameRisk(s, w)
  /\ w.dev.record[s] = dev.record[s] \/ w.dev.record[s].state = "missing"
  /\ b.proof # NoProof => w.dev = dev

(* After it a device counts as healthy or as risky again only with a live  *)
(* challenge spent, and a risk is raised only in a request that goes on.   *)
SpentIn(s, d, purpose) ==
  \E i \in dev.challenges \ d.challenges :
    i.session = s /\ i.purpose = purpose /\ i.expires >= now

Late(s, w) ==
  /\ Carried(s, w)
  /\ SameRisk(s, w) \/ (~w.done /\ dev.paired[s] # NoOne)
  /\ \/ w.dev.record[s] = dev.record[s]
     \/ w.dev.record[s].state \notin {"healthy", "risk_detected"}
     \/ SpentIn(s, w.dev, "proof")

LEMMA WholeNotes ==
  ASSUME NEW s, NEW x, Whole(s, x)
  PROVE  Whole(s, Audit(x, "device"))
<1> DEFINE y == Audit(x, "device")
<1>1. IsSession(x) /\ IsChain(x.chain)
  BY SessionFacts DEF Whole
<1>2. /\ IsSession(y) /\ y.chain = AppendEntry(x.chain, AuditKey, "device")
      /\ y.last = x.last /\ y.peak = x.peak /\ y.history = x.history
  BY <1>1, AuditSession
<1> HIDE DEF y
<1>3. Tells(y.chain, exams[s].state)
  BY <1>1, <1>2, TaleGrows DEF Whole
<1>4. Worst(y)
  BY <1>2 DEF Whole, Worst
<1> QED
  BY <1>2, <1>3, <1>4 DEF Whole, y

(* The same registry, whichever way a field of the request was written.    *)
LEMMA CarriedAgain ==
  ASSUME NEW s \in Ids, NEW w, Carried(s, w), NEW x, Whole(s, x),
         NEW d, Apart(dev, d, s), d.paired = dev.paired, NEW k, NEW done \in BOOLEAN,
         NEW q, q \in [sess : {x}, dev : {d}, kinds : {k}, done : {done}]
  PROVE  Carried(s, q) /\ q.dev = d /\ q.done = done /\ q.sess = x
<1>1. q.sess = x /\ q.dev = d /\ q.kinds = k /\ q.done = done
  OBVIOUS
<1>2. q \in [sess : {q.sess}, dev : {q.dev}, kinds : {q.kinds}, done : BOOLEAN]
  BY <1>1
<1> QED
  BY <1>1, <1>2 DEF Carried

LEMMA FirstStages ==
  ASSUME IInv, NEW s \in Ids, NEW b, Whole(s, Got(s))
  PROVE  Early(s, b, Gate(s, b, Request(s)))
<1> DEFINE w == Request(s)
           g == Answered(w)
<1>1. Apart(dev, dev, s)
  BY Unbroken DEF Apart
<1>2. /\ w \in [sess : {Got(s)}, dev : {dev}, kinds : {timeline[s]}, done : {FALSE}]
      /\ w.sess = Got(s) /\ w.dev = dev /\ w.kinds = timeline[s] /\ w.done = FALSE
  BY DEF Request
<1>3. w \in [sess : {w.sess}, dev : {w.dev}, kinds : {w.kinds}, done : BOOLEAN]
  BY <1>2
<1> HIDE DEF w
<1>4. g \in [sess : {Got(s)}, dev : {dev}, kinds : {timeline[s]}, done : {TRUE}]
  BY <1>2, <1>3 DEF Answered
<1>5. Carried(s, w)
  BY <1>1, <1>2, <1>3 DEF Carried
<1> HIDE DEF g
<1>6. Carried(s, g) /\ g.dev = dev
  BY <1>1, <1>4, <1>5, CarriedAgain
<1>7. Early(s, b, w) /\ Early(s, b, g)
  BY <1>2, <1>5, <1>6 DEF Early, SameRisk
<1> QED
  BY <1>7 DEF Gate, w, g

LEMMA MissingStageIsEarly ==
  ASSUME IInv, NEW s \in Ids, NEW b, NEW w, Early(s, b, w)
  PROVE  Early(s, b, MissingStage(s, b, w))
<1> DEFINE x == Audit(w.sess, "device")
           d == RecordMissing(w.dev, s)
           q == [w EXCEPT !.dev = d, !.sess = x, !.done = RequireDaemon]
<1>1. /\ Carried(s, w) /\ Whole(s, w.sess) /\ Apart(dev, w.dev, s)
      /\ w.dev.paired = dev.paired /\ IsDevices(w.dev) /\ SameRisk(s, w)
      /\ w \in [sess : {w.sess}, dev : {w.dev}, kinds : {w.kinds}, done : BOOLEAN]
  BY DEF Early, Carried, Apart
<1>2. CASE MissingStage(s, b, w) = w
  BY <1>2
<1>3. CASE b.proof = NoProof /\ MissingStage(s, b, w) = q
  <2>1. Whole(s, x)
    BY <1>1, WholeNotes
  <2>2. /\ Apart(w.dev, d, s) /\ d.paired = w.dev.paired
        /\ d.record[s].excludedMax = w.dev.record[s].excludedMax
        /\ d.record[s].state = "missing"
    BY <1>1, MissingApart
  <2>3. Apart(dev, d, s) /\ d.paired = dev.paired
    BY <1>1, <2>2 DEF Apart
  <2> HIDE DEF x, d
  <2>4. q \in [sess : {x}, dev : {d}, kinds : {w.kinds}, done : {RequireDaemon}]
    BY <1>1
  <2>5. RequireDaemon \in BOOLEAN
    BY ServerAssumption
  <2> HIDE DEF q
  <2>6. Carried(s, q) /\ q.dev = d
    BY <1>1, <2>1, <2>3, <2>4, <2>5, CarriedAgain
  <2> QED
    BY <1>1, <1>3, <2>2, <2>6 DEF Early, SameRisk
<1>4. \/ MissingStage(s, b, w) = w
      \/ b.proof = NoProof /\ MissingStage(s, b, w) = q
  BY DEF MissingStage
<1> QED
  BY <1>2, <1>3, <1>4

LEMMA ReplayStageIsEarly ==
  ASSUME IInv, NEW s \in Ids, NEW b, NEW w, Early(s, b, w)
  PROVE  Early(s, b, ReplayStage(b, w))
<1> DEFINE q == Answered(w)
<1>1. /\ Carried(s, w) /\ Whole(s, w.sess) /\ Apart(dev, w.dev, s)
      /\ w.dev.paired = dev.paired
      /\ w \in [sess : {w.sess}, dev : {w.dev}, kinds : {w.kinds}, done : BOOLEAN]
  BY DEF Early, Carried
<1>2. q \in [sess : {w.sess}, dev : {w.dev}, kinds : {w.kinds}, done : {TRUE}]
  BY <1>1 DEF Answered
<1> HIDE DEF q
<1>3. Carried(s, q) /\ q.dev = w.dev
  BY <1>1, <1>2, CarriedAgain
<1>4. Early(s, b, q)
  BY <1>3 DEF Early, SameRisk
<1> QED
  BY <1>4 DEF ReplayStage, q

(* A proof that is refused marks the device untrusted and ends the         *)
(* request, with its challenge spent or not.                               *)
LEMMA RejectedIsLate ==
  ASSUME NEW s \in Ids, NEW w, Carried(s, w), w.dev.record = dev.record
  PROVE  Late(s, Rejected(s, w))
<1> DEFINE x == Audit(w.sess, "device")
           d == RecordRejected(w.dev, s)
           q == [w EXCEPT !.dev = d, !.sess = x, !.done = TRUE]
<1>1. /\ Whole(s, w.sess) /\ Apart(dev, w.dev, s)
      /\ w.dev.paired = dev.paired /\ IsDevices(w.dev)
      /\ w \in [sess : {w.sess}, dev : {w.dev}, kinds : {w.kinds}, done : BOOLEAN]
  BY DEF Carried, Apart
<1>2. Whole(s, x)
  BY <1>1, WholeNotes
<1>3. /\ Apart(w.dev, d, s) /\ d.paired = w.dev.paired
      /\ d.record[s].excludedMax = w.dev.record[s].excludedMax
      /\ d.record[s].state = "untrusted"
  BY <1>1, RejectedApart
<1>4. Apart(dev, d, s) /\ d.paired = dev.paired
  BY <1>1, <1>3 DEF Apart
<1>5. Rejected(s, w) = q
  BY DEF Rejected
<1> HIDE DEF x, d
<1>6. q \in [sess : {x}, dev : {d}, kinds : {w.kinds}, done : {TRUE}]
  BY <1>1
<1> HIDE DEF q
<1>7. Carried(s, q) /\ q.dev = d
  BY <1>1, <1>2, <1>4, <1>6, CarriedAgain
<1> QED
  BY <1>3, <1>5, <1>7 DEF Late, SameRisk

LEMMA ProofStageIsLate ==
  ASSUME IInv, NEW s \in Ids, NEW b, NEW w, Early(s, b, w)
  PROVE  Late(s, ProofStage(s, b, w))
<1> DEFINE p == b.proof
           exam == IF Joined(s) THEN Exam ELSE NoOne
           challenge == ConsumeReason(w.dev, s, p.challenge, "proof", now)
           gone == Consume(w.dev, s, p.challenge, "proof")
           spent == [w EXCEPT !.dev = gone]
           locked == p.platform = "linux" /\ p.display # "none"
           shown == ObserveDisplay(gone, s, p.display)
           seen == IF locked THEN [spent EXCEPT !.dev = ObserveDisplay(@, s, p.display)]
                   ELSE spent
           risky == p.excluded > 0
           x == Audit(w.sess, "device")
           other == [spent EXCEPT !.sess = Audit(@, "device"), !.done = TRUE]
           passed == [seen EXCEPT
                        !.dev = RecordProofVerified(@, s, p, now),
                        !.sess = Audit(@, "device"),
                        !.kinds = IF risky THEN @ \cup {"risk_escalated"} ELSE @]
           reason == ProofReason(w.dev, s, exam, p, now)
           out == ProofStage(s, b, w)
<1>1. /\ Carried(s, w) /\ Whole(s, w.sess) /\ Apart(dev, w.dev, s)
      /\ w.dev.paired = dev.paired /\ IsDevices(w.dev) /\ SameRisk(s, w)
      /\ w \in [sess : {w.sess}, dev : {w.dev}, kinds : {w.kinds}, done : BOOLEAN]
      /\ now \in Nat
  BY Unbroken DEF Early, Carried, Apart
<1>2. \/ out = w
      \/ b.proof # NoProof /\ out = Rejected(s, w)
      \/ b.proof # NoProof /\ out = Rejected(s, spent)
      \/ b.proof # NoProof /\ out = other
      \/ b.proof # NoProof /\ ~w.done /\ reason = "ok" /\ challenge = "ok" /\ out = passed
  BY DEF ProofStage
<1>3. CASE out = w
  <2>1. w.dev.record[s] = dev.record[s]
          \/ w.dev.record[s].state \notin {"healthy", "risk_detected"}
    BY DEF Early
  <2> QED
    BY <1>1, <1>3, <2>1 DEF Late
<1>4. ASSUME b.proof # NoProof
      PROVE  /\ w.dev = dev
             /\ Apart(dev, gone, s) /\ gone.record = dev.record /\ gone.paired = dev.paired
             /\ IsDevices(gone)
             /\ spent \in [sess : {w.sess}, dev : {gone}, kinds : {w.kinds}, done : {w.done}]
             /\ Carried(s, spent) /\ spent.dev = gone /\ spent.sess = w.sess
             /\ spent.done = w.done
             /\ Whole(s, x)
  <2>1. w.dev = dev
    BY <1>4 DEF Early
  <2>2. Apart(dev, gone, s) /\ gone.record = dev.record /\ gone.paired = dev.paired
    BY <1>1, <2>1, ConsumeApart
  <2>3. IsDevices(gone)
    BY <2>2 DEF Apart
  <2>4. Whole(s, x)
    BY <1>1, WholeNotes
  <2>5. w.done \in BOOLEAN
    BY <1>1
  <2> HIDE DEF gone, x
  <2>6. spent \in [sess : {w.sess}, dev : {gone}, kinds : {w.kinds}, done : {w.done}]
    BY <1>1
  <2> HIDE DEF spent
  <2>7. Carried(s, spent) /\ spent.dev = gone /\ spent.sess = w.sess /\ spent.done = w.done
    BY <1>1, <2>2, <2>5, <2>6, CarriedAgain
  <2> QED
    BY <2>1, <2>2, <2>3, <2>4, <2>6, <2>7
<1>5. CASE b.proof # NoProof /\ out = Rejected(s, w)
  BY <1>1, <1>4, <1>5, RejectedIsLate
<1>6. CASE b.proof # NoProof /\ out = Rejected(s, spent)
  <2> HIDE DEF spent, gone
  <2> QED
    BY <1>4, <1>6, RejectedIsLate
<1>7. CASE b.proof # NoProof /\ out = other
  <2> HIDE DEF gone
  <2>1. spent.sess = w.sess
    BY <1>4, <1>7
  <2>2. other = [spent EXCEPT !.sess = x, !.done = TRUE]
    BY <2>1
  <2> HIDE DEF spent, x, other
  <2>3. other \in [sess : {x}, dev : {gone}, kinds : {w.kinds}, done : {TRUE}]
    BY <1>4, <1>7, <2>2
  <2>4. Whole(s, x) /\ Apart(dev, gone, s) /\ gone.paired = dev.paired
    BY <1>4, <1>7
  <2>5. Carried(s, other) /\ other.dev = gone
    BY <1>1, <2>3, <2>4, CarriedAgain
  <2> QED
    BY <1>4, <1>7, <2>5 DEF Late, SameRisk
<1>8. CASE b.proof # NoProof /\ ~w.done /\ reason = "ok" /\ challenge = "ok" /\ out = passed
  <2> DEFINE found == IF locked THEN shown ELSE gone
             d == RecordProofVerified(found, s, p, now)
             k == IF risky THEN w.kinds \cup {"risk_escalated"} ELSE w.kinds
  <2>1. SpentIn(s, gone, "proof")
    <3>1. w.dev = dev
      BY <1>4, <1>8
    <3>2. ConsumeReason(dev, s, p.challenge, "proof", now) = "ok"
      BY <1>8, <3>1
    <3>3. \E i \in dev.challenges \ Consume(dev, s, p.challenge, "proof").challenges :
            i.session = s /\ i.purpose = "proof" /\ i.expires >= now
      BY <1>1, <3>1, <3>2, GoodChallengeIsSpent
    <3> QED
      BY <3>1, <3>3 DEF SpentIn
  <2>2. dev.paired[s] # NoOne
    BY <1>4, <1>8 DEF ProofReason
  <2> HIDE DEF gone, reason, challenge
  <2>3. /\ Apart(gone, found, s) /\ found.paired = gone.paired
        /\ found.challenges = gone.challenges
    BY <1>4, <1>8, ObserveApart DEF Apart
  <2>4. Apart(found, d, s) /\ d.paired = found.paired /\ d.challenges = found.challenges
    BY <2>3, VerifiedApart DEF Apart
  <2>5. Apart(dev, d, s) /\ d.paired = dev.paired
    BY <1>4, <1>8, <2>3, <2>4 DEF Apart
  <2>6. SpentIn(s, d, "proof")
    BY <2>1, <2>3, <2>4 DEF SpentIn
  <2>7. seen \in [sess : {w.sess}, dev : {found}, kinds : {w.kinds}, done : {FALSE}]
    <3>1. w.done = FALSE
      BY <1>1, <1>8
    <3>2. CASE locked
      <4>1. seen = [spent EXCEPT !.dev = shown]
        BY <1>4, <1>8, <3>2
      <4> HIDE DEF shown, spent
      <4> QED
        BY <1>4, <1>8, <3>1, <3>2, <4>1
    <3>3. CASE ~locked
      <4> HIDE DEF spent
      <4> QED
        BY <1>4, <1>8, <3>1, <3>3
    <3> QED
      BY <3>2, <3>3
  <2>8. passed = [seen EXCEPT !.dev = d, !.sess = x, !.kinds = k]
    <3> HIDE DEF seen, found
    <3>1. seen.dev = found /\ seen.sess = w.sess /\ seen.kinds = w.kinds
      BY <2>7
    <3> QED
      BY <3>1
  <2> HIDE DEF seen, passed, found, d, k, x
  <2>9. passed \in [sess : {x}, dev : {d}, kinds : {k}, done : {FALSE}]
    BY <2>7, <2>8
  <2>10. Whole(s, x)
    BY <1>4, <1>8
  <2>11. Carried(s, passed) /\ passed.dev = d /\ passed.done = FALSE
    BY <1>1, <2>5, <2>9, <2>10, CarriedAgain
  <2> QED
    BY <1>8, <2>2, <2>6, <2>11 DEF Late
<1> QED
  BY <1>2, <1>3, <1>5, <1>6, <1>7, <1>8

(* The verdict of a request is a level with its score, and Critical once a *)
(* hidden window was verified.                                             *)
LEMMA VerdictIs ==
  ASSUME IInv, NEW s \in Ids, NEW b \in clients[s].bodies, NEW w, Carried(s, w)
  PROVE  /\ Verdict(s, b, w) \in Verdicts
         /\ w.dev.record[s].excludedMax > 0 => Verdict(s, b, w).level = "Critical"
<1> DEFINE r == w.dev.record[s]
           risk == Summarise(r, now)
           device == DeviceRisk(risk)
           forced == ForcesCritical(risk)
           aged == now - w.sess.startedAt > HelperGrace
           helper == [ connected |-> FALSE, hostile |-> FALSE, device |-> device,
                       forced |-> forced ]
           session == [reconnects |-> 0, aged |-> aged]
           score == Score(b.window, helper, session)
<1>1. b.window \in Windows
  <2>1. clients \in Mixes
    BY DEF IInv, TablesOK
  <2> QED
    BY <2>1, PayloadAssumption DEF Windows
<1>2. IsRecord(r)
  BY DEF Carried, Apart, IsDevices
<1>3. r.excludedMax > 0 => forced
  <2> HIDE DEF r
  <2>1. risk.excludedMax = r.excludedMax
    BY <1>2 DEF Summarise, IsRecord, Fields
  <2> QED
    BY <2>1 DEF ForcesCritical
<1>4. device \in 0..100
  BY DEF DeviceRisk, StateRisk
<1>5. forced \in BOOLEAN
  BY DEF ForcesCritical
<1>6. aged \in BOOLEAN
  OBVIOUS
<1>7. Verdict(s, b, w) = [level |-> LevelOf(score), score |-> score]
  BY DEF Verdict
<1> HIDE DEF device, forced, aged
<1>8. helper \in Helpers /\ helper.forced = forced
  BY <1>4, <1>5 DEF Helpers
<1>9. session \in Sessions
  BY <1>6 DEF Sessions
<1> HIDE DEF helper, session
<1>10. score \in 0..100
  BY <1>1, <1>8, <1>9, ScoreIsFloored
<1>11. forced => LevelOf(score) = "Critical"
  BY <1>1, <1>8, <1>9, EvidenceDecides DEF HardCritical
<1> HIDE DEF score
<1>12. LevelOf(score) \in Levels
  BY DEF LevelOf, Levels
<1> QED
  BY <1>3, <1>7, <1>10, <1>11, <1>12 DEF Verdicts, r

(* The request as it leaves its stages.                                    *)
LEMMA StagesAreLate ==
  ASSUME IInv, NEW s \in Ids, NEW b, Joined(s) => TokenValid(s)
  PROVE  /\ Late(s, ProofStage(s, b, ReplayStage(b, MissingStage(s, b,
                      Gate(s, b, Request(s))))))
         /\ ~sessions[s].live => ~Joined(s)
<1>1. ~sessions[s].live => ~Joined(s)
  BY TokenMeansLive
<1>2. /\ IsSession(Got(s)) /\ Worst(Got(s)) /\ Got(s).last = now
      /\ sessions[s].live => Got(s).chain = sessions[s].chain
      /\ ~sessions[s].live => Got(s).chain = NewChain
  BY GotSession
<1>3. Tells(Got(s).chain, exams[s].state)
  <2>1. CASE sessions[s].live
    BY <1>2, <2>1, SessionIs
  <2>2. CASE ~sessions[s].live
    <3>1. exams[s].state = "none"
      BY <1>1, <2>2 DEF Joined, NoExamRecord
    <3> QED
      BY <1>2, <2>2, <3>1, NewChainIsChain DEF Tells
  <2> QED
    BY <2>1, <2>2
<1>4. Whole(s, Got(s))
  BY <1>2, <1>3 DEF Whole
<1> DEFINE w1 == Gate(s, b, Request(s))
           w2 == MissingStage(s, b, w1)
           w3 == ReplayStage(b, w2)
<1>5. Early(s, b, w1)
  BY <1>4, FirstStages
<1> HIDE DEF w1
<1>6. Early(s, b, w2)
  BY <1>5, MissingStageIsEarly
<1> HIDE DEF w2
<1>7. Early(s, b, w3)
  BY <1>6, ReplayStageIsEarly
<1> HIDE DEF w3
<1>8. Late(s, ProofStage(s, b, w3))
  BY <1>7, ProofStageIsLate
<1> QED
  BY <1>1, <1>8 DEF w1, w2, w3

LEMMA TelemetryStep ==
  ASSUME IInv, NEW s \in Ids, NEW b \in clients[s].bodies, NEW call \in BOOLEAN,
         Telemetry(s, b, call)
  PROVE  IInv'
<1> DEFINE w == ProofStage(s, b, ReplayStage(b, MissingStage(s, b,
                             Gate(s, b, Request(s)))))
           v == Verdict(s, b, w)
           x == IF w.done \/ call THEN w.sess ELSE Persist(w.sess, v)
<1>0. PICK k : k = [slot |-> Slot, session |-> s, verdict |-> v, due |-> now + CallMax]
  OBVIOUS
<1>1. /\ Joined(s) => TokenValid(s)
      /\ CreatesLegacy(s) => Cardinality(legacy) < MaxLegacy
      /\ CanGet(s)
      /\ call => ~w.done /\ Cardinality(calls) < MaxCalls
      /\ dev' = w.dev
      /\ sessions' = [sessions EXCEPT ![s] = x]
      /\ calls' = IF call THEN calls \cup {k} ELSE calls
      /\ legacy' = IF CreatesLegacy(s) THEN legacy \cup {s} ELSE legacy
      /\ clients' = clients /\ now' = now /\ exams' = exams /\ tokenExp' = tokenExp
      /\ node' = node
  BY <1>0 DEF Telemetry, MayCall
<1>2. Late(s, w) /\ (~sessions[s].live => ~Joined(s))
  BY <1>1, StagesAreLate
<1> HIDE DEF w
<1>3. /\ Carried(s, w) /\ Whole(s, w.sess) /\ IsSession(w.sess) /\ Worst(w.sess)
      /\ w.sess.last = now /\ w.sess.peak = Got(s).peak
      /\ Tells(w.sess.chain, exams[s].state)
      /\ IsDevices(w.dev) /\ w.dev.paired = dev.paired
      /\ \A t \in Ids \ {s} : w.dev.record[t] = dev.record[t]
      /\ SameRisk(s, w) \/ (~w.done /\ dev.paired[s] # NoOne)
  BY <1>2 DEF Late, Carried, Whole, Apart
<1>4. v \in Verdicts /\ (w.dev.record[s].excludedMax > 0 => v.level = "Critical")
  BY <1>3, VerdictIs
<1> HIDE DEF v
<1>5. now \in Nat /\ CallMax \in Nat /\ TokenTtl \in Nat
  BY Unbroken, ServerAssumption
<1>6. /\ IsSession(x) /\ Worst(x) /\ x.last = now
      /\ Tells(x.chain, exams[s].state)
      /\ w.sess.peak.level = "Critical" => x.peak.level = "Critical"
      /\ ~w.done /\ ~call /\ v.level = "Critical" => x.peak.level = "Critical"
  <2>1. CASE w.done \/ call
    BY <1>3, <2>1
  <2>2. CASE ~(w.done \/ call)
    <3> DEFINE y == Persist(w.sess, v)
    <3>1. /\ IsSession(y) /\ Worst(y)
          /\ y.chain = AppendEntry(w.sess.chain, AuditKey, "verdict")
          /\ y.last = w.sess.last
          /\ w.sess.peak.level = "Critical" \/ v.level = "Critical"
               => y.peak.level = "Critical"
      BY <1>3, <1>4, PersistSession
    <3> HIDE DEF y
    <3>2. IsChain(w.sess.chain)
      BY <1>3, SessionFacts
    <3>3. Tells(y.chain, exams[s].state)
      BY <1>3, <3>1, <3>2, TaleGrows
    <3>4. x = y
      BY <2>2 DEF y
    <3> HIDE DEF x
    <3> QED
      BY <1>3, <3>1, <3>3, <3>4
  <2> QED
    BY <2>1, <2>2
<1> HIDE DEF x
<1>7. /\ sessions' = [t \in Ids |-> sessions'[t]]
      /\ sessions'[s] = x
      /\ \A t \in Ids \ {s} : sessions'[t] = sessions[t]
      /\ Live' = Live \cup {s}
      /\ IsFiniteSet(Live') /\ Cardinality(Live') <= MaxSessions
  BY <1>1, <1>6, OneSession
<1>8. x.live = TRUE
  BY <1>6, SessionFacts
<1>9. Good(s) /\ k.session = s /\ k.verdict = v /\ k.due = now + CallMax
  BY <1>0 DEF IInv
<1>10. calls \subseteq calls' /\ (call => k \in calls')
  BY <1>1
<1>11. Good(s)'
  <2>1. SessionOK(s)'
    <3>1. x.last <= now
      BY <1>5, <1>6
    <3> QED
      BY <1>1, <1>6, <1>7, <3>1 DEF SessionOK
  <2>2. TokenBound(s)'
    <3>1. Joined(s) => tokenExp[s] <= now + TokenTtl
      BY <1>1, TokenMeansLive
    <3> QED
      BY <1>1, <1>6, <1>7, <1>8, <3>1 DEF TokenBound, Joined
  <2>3. OnlyJoinedHaveDevices(s)'
    BY <1>1, <1>3, <1>9 DEF Good, OnlyJoinedHaveDevices, SameRisk, Joined
  <2>4. OneNode(s)'
    BY <1>1, <1>9 DEF Good, OneNode
  <2>5. RiskReaches(s)'
    <3>1. ASSUME w.dev.record[s].excludedMax > 0, x.peak.level # "Critical"
          PROVE  \E c \in calls' : c.session = s /\ c.verdict.level = "Critical"
      <4>1. v.level = "Critical"
        BY <1>4, <3>1
      <4>2. CASE ~w.done
        <5>1. call
          BY <1>6, <3>1, <4>1, <4>2
        <5> QED
          BY <1>9, <1>10, <4>1, <5>1
      <4>3. CASE w.done
        <5>1. dev.record[s].excludedMax > 0
          BY <1>3, <3>1, <4>3 DEF SameRisk
        <5>2. sessions[s].live
          BY <1>2, <1>9, <5>1 DEF Good, OnlyJoinedHaveDevices
        <5>3. sessions[s].peak.level # "Critical"
          BY <1>3, <1>6, <3>1, <5>2, GotSession
        <5>4. \E c \in calls : c.session = s /\ c.verdict.level = "Critical"
          BY <1>9, <5>1, <5>2, <5>3 DEF Good, RiskReaches
        <5> QED
          BY <1>10, <5>4
      <4> QED
        BY <4>2, <4>3
    <3> QED
      BY <1>1, <1>7, <3>1 DEF RiskReaches
  <2> QED
    BY <2>1, <2>2, <2>3, <2>4, <2>5 DEF Good
<1>12. ASSUME NEW t \in Ids \ {s}
       PROVE  Good(t)'
  <2>1. dev'.record[t] = dev.record[t] /\ dev'.paired[t] = dev.paired[t]
    BY <1>1, <1>3
  <2> QED
    BY <1>1, <1>7, <1>10, <2>1, Elsewhere
<1>13. \A c \in calls' : CallOK(c)'
  <2>1. \A t \in Ids : sessions[t].live =>
          sessions[t].last \in Nat /\ sessions[t].last <= now
    BY SessionIs
  <2>2. \A t \in Ids : sessions[t].live =>
          sessions'[t].live /\ sessions'[t].last \in Nat
            /\ sessions'[t].last >= sessions[t].last
    BY <1>5, <1>6, <1>7, <1>8, <2>1
  <2>3. \A c \in calls : CallOK(c)'
    BY <1>1, <2>2, CallsStay
  <2>4. CallOK(k)'
    <3>1. k.due \in Nat /\ now <= k.due /\ k.due <= x.last + CallMax
      BY <1>5, <1>6, <1>9
    <3> QED
      BY <1>1, <1>4, <1>7, <1>8, <1>9, <3>1 DEF CallOK
  <2> QED
    BY <1>1, <2>3, <2>4
<1>14. TablesOK'
  BY <1>1, <1>3, <1>7 DEF IInv, TablesOK
<1>15. CapsOK'
  <2>1. AnonymousCounted'
    <3>1. legacy = {t \in Live : ~Joined(t)}
      BY DEF IInv, CapsOK, AnonymousCounted
    <3>2. \A t : Joined(t)' <=> Joined(t)
      BY <1>1 DEF Joined
    <3>3. s \in Live <=> sessions[s].live
      BY DEF Live
    <3>4. CASE CreatesLegacy(s)
      BY <1>1, <1>7, <3>1, <3>2, <3>4 DEF AnonymousCounted, CreatesLegacy
    <3>5. CASE ~CreatesLegacy(s)
      BY <1>1, <1>2, <1>7, <3>1, <3>2, <3>3, <3>5 DEF AnonymousCounted, CreatesLegacy
    <3> QED
      BY <3>4, <3>5
  <2>2. Cardinality(legacy') <= MaxLegacy
    <3>1. IsFiniteSet(legacy) /\ Cardinality(legacy) \in Nat /\ MaxLegacy \in Nat
      BY Fewer, ServerAssumption
    <3>2. Cardinality(legacy) <= MaxLegacy
      BY DEF IInv, CapsOK
    <3>3. Cardinality(legacy \cup {s}) \in {Cardinality(legacy), Cardinality(legacy) + 1}
      BY <3>1, FS_AddElement
    <3> QED
      BY <1>1, <3>1, <3>2, <3>3
  <2>3. IsFiniteSet(calls') /\ Cardinality(calls') <= MaxCalls
    <3>1. IsFiniteSet(calls) /\ Cardinality(calls) <= MaxCalls /\ MaxCalls \in Nat
      BY ServerAssumption DEF IInv, CapsOK
    <3>2. Cardinality(calls) \in Nat
      BY <3>1, FS_CardinalityType
    <3>3. IsFiniteSet(calls \cup {k})
          /\ Cardinality(calls \cup {k}) \in {Cardinality(calls), Cardinality(calls) + 1}
      BY <3>1, FS_AddElement
    <3> QED
      BY <1>1, <3>1, <3>2, <3>3
  <2> QED
    BY <1>7, <2>1, <2>2, <2>3 DEF CapsOK
<1> QED
  BY <1>11, <1>12, <1>13, <1>14, <1>15 DEF IInv

-----------------------------------------------------------------------------
LEMMA StepInv == IInv /\ [Next]_vars => IInv'
<1> SUFFICES ASSUME IInv, [Next]_vars PROVE IInv'
  OBVIOUS
<1>1. CASE \E s \in Ids, student \in Students : Join(s, student)
  BY <1>1, JoinStep
<1>2. CASE \E s \in Ids : AcceptPrivacy(s)
  BY <1>2, AcceptPrivacyStep
<1>3. CASE \E s \in Ids : Start(s)
  BY <1>3, StartStep
<1>4. CASE \E s \in Ids : Submit(s)
  BY <1>4, SubmitStep
<1>5. CASE \E s \in Ids : Report(s)
  BY <1>5, ReportStep
<1>6. CASE \/ \E s \in Ids : VerifyAudit(s)
           \/ ExpireNonces
           \/ UNCHANGED vars
  BY <1>6, QuietStep
<1>7. CASE \E s \in Ids, call \in BOOLEAN : \E b \in clients[s].bodies : Telemetry(s, b, call)
  BY <1>7, TelemetryStep
<1>8. CASE \E c \in calls : ModelReply(c)
  BY <1>8, ModelReplyStep
<1>9. CASE \E s \in Ids, purpose \in {"pair", "proof"} : DeviceChallenge(s, purpose)
  BY <1>9, DeviceChallengeStep
<1>10. CASE \E s \in Ids, p \in DevicePairings : DevicePair(s, p)
  BY <1>10, DevicePairStep
<1>11. CASE \E s \in Ids : \/ NodeChallenge(s)
                           \/ \E p \in NodePairings : NodePair(s, p)
                           \/ \E p \in NodeProofs : NodeProof(s, p)
  BY <1>11, NodeStep
<1>12. CASE EvictSessions
  BY <1>12, EvictSessionsStep
<1>13. CASE EvictExams
  BY <1>13, EvictExamsStep
<1>14. CASE Tick
  BY <1>14, TickStep
<1> QED
  BY <1>1, <1>2, <1>3, <1>4, <1>5, <1>6, <1>7, <1>8, <1>9, <1>10, <1>11, <1>12, <1>13,
     <1>14 DEF Next

THEOREM ServerInvariance == Spec => []IInv
<1> QED
  BY InitInv, StepInv, PTL DEF Spec

-----------------------------------------------------------------------------
(* Every table keeps its shape and its capacity, and the sessions nobody   *)
(* joined are exactly those the cap on anonymous telemetry counts          *)
(* (server.js, getSession, createsLegacySession and the two timers).       *)
THEOREM TablesAlwaysAgree == Spec => []TablesAgree
<1>1. ASSUME IInv
      PROVE  TablesAgree
  <2>1. /\ now \in 0..MaxTime /\ exams \in [Ids -> ExamRecords]
        /\ tokenExp \in [Ids -> -1..(now + TokenTtl)] /\ IsDevices(dev) /\ IsIntegrity(node)
    BY <1>1 DEF IInv, TablesOK
  <2>2. ASSUME NEW s \in Ids, sessions[s] # NoSession
        PROVE  /\ sessions[s].last \in 0..now
               /\ sessions[s].startedAt \in 0..sessions[s].last
               /\ Len(sessions[s].chain.entries) <= ChainCap
               /\ sessions[s].history \subseteq
                    [level : {"Safe", "Warning", "Critical"}, score : 0..100]
    <3>1. IsSession(sessions[s]) /\ sessions[s].last <= now
      BY <1>1, <2>2, SessionIs
    <3>2. /\ sessions[s].last \in Nat /\ sessions[s].startedAt \in Nat
          /\ sessions[s].startedAt <= sessions[s].last
          /\ sessions[s].history \subseteq Verdicts /\ IsChain(sessions[s].chain)
      BY <3>1, SessionFacts DEF IsSession
    <3> QED
      BY <2>1, <3>1, <3>2 DEF IsChain, Verdicts, Levels
  <2>3. ASSUME NEW s \in Ids, exams[s] # NoExamRecord
        PROVE  /\ exams[s].student \in Students
               /\ exams[s].state \in
                    {"joined", "privacy_accepted", "exam_started", "submitted"}
    BY <2>1, <2>3 DEF ExamRecords
  <2>4. ASSUME NEW s \in Ids
        PROVE  /\ tokenExp[s] \in -1..(now + TokenTtl)
               /\ dev.paired[s] \in Nodes \cup {NoOne}
               /\ {node.paired[s], node.bound[s]} \subseteq Nodes \cup {NoOne}
    BY <2>1 DEF IsDevices, IsIntegrity
  <2>5. /\ legacy \subseteq Ids /\ Cardinality(legacy) <= MaxLegacy
        /\ Cardinality(Live) <= MaxSessions /\ Cardinality(calls) <= MaxCalls
        /\ AnonymousCounted
    BY <1>1, Fewer DEF IInv, CapsOK, Live
  <2> QED
    BY <2>1, <2>2, <2>3, <2>4, <2>5 DEF TablesAgree, ServerTypeOK
<1> QED
  BY <1>1, ServerInvariance, PTL

(* Whatever order a student's calls, timers and telemetry come in, the     *)
(* chain of a submitted exam tells of its start and of its one submission, *)
(* in that order, or says that it is cut short (server.js, the submit      *)
(* route; hmacChain.js, appendEntry).                                      *)
THEOREM SubmissionIsTold == Spec => []SubmittedIsRecorded
<1>1. ASSUME IInv
      PROVE  SubmittedIsRecorded
  <2> SUFFICES ASSUME NEW s \in Live, Joined(s), exams[s].state = "submitted"
               PROVE  LET types == Types(sessions[s].chain)
                          At(type) == {i \in 1..Len(types) : types[i] = type}
                      IN  \/ sessions[s].chain.truncated
                          \/ Len(types) = ChainCap
                          \/ \E i, j \in 1..Len(types) :
                                i < j /\ At("exam_started") = {i}
                                      /\ At("exam_submitted") = {j}
    BY DEF SubmittedIsRecorded
  <2> DEFINE c == sessions[s].chain
             n == Len(c.entries)
  <2>1. s \in Ids /\ sessions[s].live
    BY DEF Live
  <2>2. Tells(c, "submitted") /\ IsChain(c)
    BY <1>1, <2>1, SessionIs, SessionFacts
  <2> HIDE DEF c
  <2>3. n \in Nat
    BY <2>2 DEF IsChain
  <2> HIDE DEF n
  <2>4. Types(c) = [i \in 1..n |-> c.entries[i].type]
    BY DEF Types, n
  <2>5. Len(Types(c)) = n /\ \A i \in 1..n : Types(c)[i] = c.entries[i].type
    <3> DEFINE T == {c.entries[i].type : i \in 1..n}
    <3>1. Types(c) \in [1..n -> T]
      BY <2>4
    <3> HIDE DEF T
    <3>2. Types(c) \in Seq(T)
      BY <2>3, <3>1, SeqDef
    <3>3. DOMAIN Types(c) = 1..n
      BY <3>1
    <3>4. Len(Types(c)) = n
      BY <2>3, <3>2, <3>3
    <3> QED
      BY <2>4, <3>4
  <2>6. \A type : {i \in 1..n : Types(c)[i] = type} = Of(c, type)
    BY <2>5 DEF Of, n
  <2>7. CASE Cut(c)
    BY <2>5, <2>7 DEF Cut, c, n
  <2>8. CASE \E i, j \in 1..n :
               i < j /\ Of(c, "exam_started") = {i} /\ Of(c, "exam_submitted") = {j}
    <3>1. \E i, j \in 1..Len(Types(c)) :
            /\ i < j
            /\ {l \in 1..Len(Types(c)) : Types(c)[l] = "exam_started"} = {i}
            /\ {l \in 1..Len(Types(c)) : Types(c)[l] = "exam_submitted"} = {j}
      BY <2>5, <2>6, <2>8
    <3> QED
      BY <3>1 DEF c
  <2> QED
    BY <2>2, <2>7, <2>8 DEF Tells, n
<1> QED
  BY <1>1, ServerInvariance, PTL

(* No order of answers hides evidence: the peak a report shows is the      *)
(* worst window ever scored, and a verified hidden window has made it      *)
(* Critical or will when the model has answered (server.js,                *)
(* persistVerdict; riskScoring.js, the device floor).                      *)
THEOREM EvidenceStays == Spec => []EvidenceIsKept
<1>1. ASSUME IInv
      PROVE  EvidenceIsKept
  <2>1. ASSUME NEW s \in Live
        PROVE  s \in Ids /\ sessions[s].live /\ Worst(sessions[s]) /\ RiskReaches(s)
    BY <1>1, SessionIs DEF Live, IInv, Good
  <2>2. PeakIsWorst
    BY <2>1 DEF PeakIsWorst, Worst
  <2>3. RiskReachesRecord
    BY <2>1 DEF RiskReachesRecord, RiskReaches
  <2> QED
    BY <2>2, <2>3 DEF EvidenceIsKept
<1> QED
  BY <1>1, ServerInvariance, PTL

(* A verdict that waits for the model finds its session still there: the   *)
(* SDK's timeout is shorter than the silence that evicts (server.js, the   *)
(* code after the await of the telemetry handler).                         *)
THEOREM VerdictAlwaysLands == Spec => []VerdictFindsSession
<1>1. IInv => VerdictFindsSession
  BY DEF IInv, CallOK, VerdictFindsSession
<1> QED
  BY <1>1, ServerInvariance, PTL

(* The integrity node a session paired and the one its proofs are bound to *)
(* are one node, whichever came first (pairingRegistry.js, completePairing *)
(* and integrityState.js, submitProof).                                    *)
THEOREM NodeStaysOne == Spec => []NodeContinuity
<1>1. IInv => NodeContinuity
  BY DEF IInv, Good, OneNode, NodeContinuity
<1> QED
  BY <1>1, ServerInvariance, PTL

(* No implicit resurrection: while an exam record stands, an evicted       *)
(* session is not made again, because whoever could touch it holds a token *)
(* that expired before (server.js, getSession behind requireStudentToken). *)
THEOREM EvictionIsFinal == Spec => NoResurrection
<1>1. ASSUME IInv, [Next]_vars, NEW s \in Ids, Joined(s), ~sessions[s].live,
             exams'[s] = exams[s]
      PROVE  ~sessions'[s].live
  <2> SUFFICES sessions'[s] = sessions[s]
    BY <1>1
  <2>1. sessions = [t \in Ids |-> sessions[t]]
    BY <1>1 DEF IInv, TablesOK
  <2>2. ~TokenValid(s)
    BY <1>1, TokenMeansLive
  <2>3. ASSUME NEW t \in Ids, NEW x, sessions' = [sessions EXCEPT ![t] = x], t # s
        PROVE  sessions'[s] = sessions[s]
    BY <2>1, <2>3
  <2>4. CASE \E t \in Ids : \/ \E student \in Students : Join(t, student)
                            \/ Start(t) \/ Submit(t)
    <3>1. PICK t \in Ids : \/ \E student \in Students : Join(t, student)
                           \/ Start(t) \/ Submit(t)
      BY <2>4
    <3>2. t # s
      BY <1>1, <2>2, <3>1 DEF Join, Start, Submit, Authorised
    <3>3. sessions' = sessions \/ \E x : sessions' = [sessions EXCEPT ![t] = x]
      BY <3>1 DEF Join, Start, Submit
    <3> QED
      BY <2>3, <3>2, <3>3
  <2>5. CASE \E t \in Ids, call \in BOOLEAN : \E b \in clients[t].bodies :
               Telemetry(t, b, call)
    <3>1. PICK t \in Ids, call \in BOOLEAN : \E b \in clients[t].bodies :
                 Telemetry(t, b, call)
      BY <2>5
    <3>2. t # s
      BY <1>1, <2>2, <3>1 DEF Telemetry
    <3>3. \E x : sessions' = [sessions EXCEPT ![t] = x]
      BY <3>1 DEF Telemetry
    <3> QED
      BY <2>3, <3>2, <3>3
  <2>6. CASE \E c \in calls : ModelReply(c)
    <3>1. PICK c \in calls : ModelReply(c)
      BY <2>6
    <3>2. c.session \in Ids /\ sessions[c.session].live /\ c.session # s
      BY <1>1 DEF IInv, CallOK
    <3>3. \E x : sessions' = [sessions EXCEPT ![c.session] = x]
      BY <3>1, <3>2 DEF ModelReply
    <3> QED
      BY <2>3, <3>2, <3>3
  <2>7. CASE \E t \in Ids :
               \/ AcceptPrivacy(t) \/ Report(t) \/ VerifyAudit(t) \/ NodeChallenge(t)
               \/ \E purpose \in {"pair", "proof"} : DeviceChallenge(t, purpose)
               \/ \E p \in DevicePairings : DevicePair(t, p)
               \/ \E p \in NodePairings : NodePair(t, p)
               \/ \E p \in NodeProofs : NodeProof(t, p)
    <3>1. PICK t \in Ids :
                 \/ AcceptPrivacy(t) \/ Report(t) \/ VerifyAudit(t) \/ NodeChallenge(t)
                 \/ \E purpose \in {"pair", "proof"} : DeviceChallenge(t, purpose)
                 \/ \E p \in DevicePairings : DevicePair(t, p)
                 \/ \E p \in NodePairings : NodePair(t, p)
                 \/ \E p \in NodeProofs : NodeProof(t, p)
      BY <2>7
    <3>2. \/ sessions' = sessions
          \/ /\ sessions[t].live
             /\ \E x : sessions' = [sessions EXCEPT ![t] = x]
      BY <3>1 DEF AcceptPrivacy, Report, VerifyAudit, NodeChallenge, DeviceChallenge,
                  DevicePair, NodePair, NodeProof, OnSession
    <3> QED
      BY <1>1, <2>3, <3>2
  <2>8. CASE EvictSessions
    BY <1>1, <2>8 DEF EvictSessions, Idle
  <2>9. CASE EvictExams \/ ExpireNonces \/ Tick \/ UNCHANGED vars
    BY <2>9 DEF EvictExams, ExpireNonces, Tick, vars
  <2> QED
    BY <1>1, <2>4, <2>5, <2>6, <2>7, <2>8, <2>9 DEF Next
<1>2. IInv /\ [Next]_vars =>
        [\A s \in Ids : Joined(s) /\ ~sessions[s].live /\ exams'[s] = exams[s]
           => ~sessions'[s].live]_vars
  BY <1>1
<1> QED
  BY <1>2, ServerInvariance, PTL DEF Spec, NoResurrection

(* Only a live challenge buys trust: a device is paired, and a proof made  *)
(* to count, only by spending a challenge that was issued to this session  *)
(* for this purpose and has not expired (daemonPairing.js, consumeChallenge *)
(* behind the device routes and the telemetry handler).                    *)
THEOREM EvidenceCostsChallenge == Spec => EvidenceSpendsChallenge
<1> DEFINE Bought(s) ==
             /\ dev'.paired[s] \notin {NoOne, dev.paired[s]} => Spent(s, "pair")
             /\ /\ dev'.record[s] # dev.record[s]
                /\ dev'.record[s].state \in {"healthy", "risk_detected"}
                => Spent(s, "proof")
<1>1. ASSUME IInv, [Next]_vars, NEW s \in Ids
      PROVE  Bought(s)
  <2>1. IsDevices(dev) /\ now \in Nat
    BY <1>1, Unbroken
  <2>2. CASE dev' = dev
    BY <2>2
  <2>3. CASE \E t \in Ids, call \in BOOLEAN : \E b \in clients[t].bodies :
               Telemetry(t, b, call)
    <3>1. PICK t \in Ids, call \in BOOLEAN : \E b \in clients[t].bodies :
                 Telemetry(t, b, call)
      BY <2>3
    <3>2. PICK b \in clients[t].bodies : Telemetry(t, b, call)
      BY <3>1
    <3> DEFINE w == ProofStage(t, b, ReplayStage(b, MissingStage(t, b,
                                 Gate(t, b, Request(t)))))
    <3>3. dev' = w.dev /\ (Joined(t) => TokenValid(t))
      BY <3>2 DEF Telemetry
    <3>4. Late(t, w)
      BY <1>1, <3>3, StagesAreLate
    <3> HIDE DEF w
    <3>5. dev'.paired = dev.paired /\ \A i \in Ids \ {t} : dev'.record[i] = dev.record[i]
      BY <3>3, <3>4 DEF Late, Carried, Apart
    <3>6. CASE t = s
      BY <3>3, <3>4, <3>5, <3>6 DEF Late, SpentIn, Spent
    <3>7. CASE t # s
      BY <3>5, <3>7
    <3> QED
      BY <3>6, <3>7
  <2>4. CASE \E t \in Ids, purpose \in {"pair", "proof"} : DeviceChallenge(t, purpose)
    <3>1. PICK t \in Ids, purpose \in {"pair", "proof"} : DeviceChallenge(t, purpose)
      BY <2>4
    <3>2. dev'.paired = dev.paired /\ dev'.record = dev.record
      BY <2>1, <3>1, CreatedIsDevices DEF DeviceChallenge
    <3> QED
      BY <3>2
  <2>5. CASE \E t \in Ids, p \in DevicePairings : DevicePair(t, p)
    <3>1. PICK t \in Ids, p \in DevicePairings : DevicePair(t, p)
      BY <2>5
    <3> DEFINE after == CompletePairing(dev, t, Exam, p, now)
    <3>2. p.node \in Nodes
      BY PayloadAssumption
    <3>3. /\ Apart(dev, after, t) /\ after.record = dev.record
          /\ after.paired[t] # dev.paired[t] =>
               \E i \in dev.challenges \ after.challenges :
                 i.session = t /\ i.purpose = "pair" /\ i.expires >= now
      BY <2>1, <3>2, PairingApart
    <3>4. dev' = RecordPaired(after, t, p) \/ dev' = RecordRejected(after, t)
      BY <3>1 DEF DevicePair
    <3> HIDE DEF after
    <3>5. /\ Apart(after, dev', t) /\ dev'.paired = after.paired
          /\ dev'.challenges = after.challenges
          /\ dev'.record[t].state \in {"paired", "untrusted"}
      <4>1. IsDevices(after)
        BY <3>3 DEF Apart
      <4>2. CASE dev' = RecordPaired(after, t, p)
        BY <4>1, <4>2, PairedApart
      <4>3. CASE dev' = RecordRejected(after, t)
        BY <4>1, <4>3, RejectedApart
      <4> QED
        BY <3>4, <4>2, <4>3
    <3>6. CASE t = s
      BY <3>3, <3>5, <3>6 DEF Spent
    <3>7. CASE t # s
      BY <3>3, <3>5, <3>7 DEF Apart
    <3> QED
      BY <3>6, <3>7
  <2>6. CASE EvictSessions
    BY <2>1, <2>6, EvictedDevices DEF EvictSessions
  <2>7. CASE EvictExams
    <3>1. /\ dev'.paired[s] \in {NoOne, dev.paired[s]}
          /\ dev'.record[s] = dev.record[s] \/ dev'.record[s] = NoRecord
      BY <2>1, <2>7, EvictedDevices DEF EvictExams
    <3>2. NoRecord.state = "missing"
      BY DEF NoRecord
    <3> QED
      BY <3>1, <3>2
  <2>8. CASE \/ \E t \in Ids :
                  \/ \E student \in Students : Join(t, student)
                  \/ AcceptPrivacy(t) \/ Start(t) \/ Submit(t) \/ Report(t)
                  \/ VerifyAudit(t) \/ NodeChallenge(t)
                  \/ \E p \in NodePairings : NodePair(t, p)
                  \/ \E p \in NodeProofs : NodeProof(t, p)
             \/ \E c \in calls : ModelReply(c)
             \/ ExpireNonces \/ Tick \/ UNCHANGED vars
    <3>1. dev' = dev
      BY <2>8 DEF Join, AcceptPrivacy, Start, Submit, Report, VerifyAudit, NodeChallenge,
                  NodePair, NodeProof, ModelReply, ExpireNonces, Tick, vars
    <3> QED
      BY <2>2, <3>1
  <2> QED
    BY <1>1, <2>3, <2>4, <2>5, <2>6, <2>7, <2>8 DEF Next
<1>2. IInv /\ [Next]_vars => [\A s \in Ids : Bought(s)]_vars
  BY <1>1
<1> QED
  BY <1>2, ServerInvariance, PTL DEF Spec, EvidenceSpendsChallenge

=============================================================================
