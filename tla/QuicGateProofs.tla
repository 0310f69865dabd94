--------------------------- MODULE QuicGateProofs ---------------------------
(***************************************************************************)
(* Proofs about QuicGate and the catalog it matches with: the entries are   *)
(* told apart by their id sets, so that the order of the catalog does not   *)
(* matter; what the experiments' exit 0 says of the directories; the JA4    *)
(* annotate_ja4.py writes while flights are promoted; that equal structure  *)
(* is equal identity; that what can be dialed comes back as itself; and     *)
(* that drafts keep what can be dialed.                                     *)
(***************************************************************************)
EXTENDS QuicGate, FiniteSetTheorems, TLAPS

-----------------------------------------------------------------------------
(* The catalog                                                             *)

\* The short names, and the number of references, of the entries.
LEMMA CatalogEntries ==
  /\ AioQuic.short = "aioquic" /\ DOMAIN AioQuic.refs = 1 .. 1
  /\ Chrome.short = "chrome" /\ DOMAIN Chrome.refs = 1 .. 7
  /\ ChromiumStale.short = "chromium-stale" /\ DOMAIN ChromiumStale.refs = 1 .. 1
  /\ CurlQuiche.short = "curl-quiche" /\ DOMAIN CurlQuiche.refs = 1 .. 1
  /\ Firefox.short = "firefox" /\ DOMAIN Firefox.refs = 1 .. 1
  /\ QuicGoDatagram.short = "quic-go-datagram" /\ DOMAIN QuicGoDatagram.refs = 1 .. 3
  /\ QuicGo.short = "quic-go" /\ DOMAIN QuicGo.refs = 1 .. 1
  /\ UquicChrome115.short = "uquic-chrome-115" /\ DOMAIN UquicChrome115.refs = 1 .. 1
  /\ UquicChrome146.short = "uquic-chrome-146" /\ DOMAIN UquicChrome146.refs = 1 .. 2
  /\ UquicFirefox116.short = "uquic-firefox-116" /\ DOMAIN UquicFirefox116.refs = 1 .. 4
  /\ Yandex.short = "yandex" /\ DOMAIN Yandex.refs = 1 .. 2
<1>1. AioQuic.short = "aioquic" /\ DOMAIN AioQuic.refs = 1 .. 1
  BY DEF AioQuic, Profile
<1>2. Chrome.short = "chrome" /\ DOMAIN Chrome.refs = 1 .. 7
  BY DEF Chrome, Profile
<1>3. ChromiumStale.short = "chromium-stale" /\ DOMAIN ChromiumStale.refs = 1 .. 1
  BY DEF ChromiumStale, Profile
<1>4. CurlQuiche.short = "curl-quiche" /\ DOMAIN CurlQuiche.refs = 1 .. 1
  BY DEF CurlQuiche, Profile
<1>5. Firefox.short = "firefox" /\ DOMAIN Firefox.refs = 1 .. 1
  BY DEF Firefox, Profile
<1>6. QuicGoDatagram.short = "quic-go-datagram" /\ DOMAIN QuicGoDatagram.refs = 1 .. 3
  BY DEF QuicGoDatagram, Profile
<1>7. QuicGo.short = "quic-go" /\ DOMAIN QuicGo.refs = 1 .. 1
  BY DEF QuicGo, Profile
<1>8. UquicChrome115.short = "uquic-chrome-115" /\ DOMAIN UquicChrome115.refs = 1 .. 1
  BY DEF UquicChrome115, Profile
<1>9. UquicChrome146.short = "uquic-chrome-146" /\ DOMAIN UquicChrome146.refs = 1 .. 2
  BY DEF UquicChrome146, Profile
<1>10. UquicFirefox116.short = "uquic-firefox-116" /\ DOMAIN UquicFirefox116.refs = 1 .. 4
  BY DEF UquicFirefox116, Profile
<1>11. Yandex.short = "yandex" /\ DOMAIN Yandex.refs = 1 .. 2
  BY DEF Yandex, Profile
<1> QED
  BY <1>1, <1>2, <1>3, <1>4, <1>5, <1>6, <1>7, <1>8, <1>9, <1>10, <1>11

\* No two entries have the same short name.
LEMMA ShortsAreKeys ==
  /\ DOMAIN Catalog = 1 .. 11
  /\ \A i, j \in DOMAIN Catalog : Catalog[i].short = Catalog[j].short => i = j
  /\ \A i \in DOMAIN Catalog : Catalog[i].short # "none"
<1>1. DOMAIN Catalog = 1 .. 11
  BY DEF Catalog, SortedCatalog
<1>2. /\ Catalog[1].short = "aioquic" /\ Catalog[2].short = "chrome"
      /\ Catalog[3].short = "chromium-stale" /\ Catalog[4].short = "curl-quiche"
      /\ Catalog[5].short = "firefox" /\ Catalog[6].short = "quic-go-datagram"
      /\ Catalog[7].short = "quic-go" /\ Catalog[8].short = "uquic-chrome-115"
      /\ Catalog[9].short = "uquic-chrome-146" /\ Catalog[10].short = "uquic-firefox-116"
      /\ Catalog[11].short = "yandex"
  BY CatalogEntries DEF Catalog, SortedCatalog
<1> QED
  BY <1>1, <1>2

\* The references of an entry are numbered from 1.
LEMMA RefsAreFinite == \A doc \in Docs : \E n \in Nat : DOMAIN doc.refs = 1 .. n
<1>1. \A i \in 1 .. 11 : DOMAIN Catalog[i].refs \in {1 .. 1, 1 .. 2, 1 .. 3, 1 .. 4, 1 .. 7}
  <2>1. /\ Catalog[1] = AioQuic /\ Catalog[2] = Chrome /\ Catalog[3] = ChromiumStale
        /\ Catalog[4] = CurlQuiche /\ Catalog[5] = Firefox /\ Catalog[6] = QuicGoDatagram
        /\ Catalog[7] = QuicGo /\ Catalog[8] = UquicChrome115 /\ Catalog[9] = UquicChrome146
        /\ Catalog[10] = UquicFirefox116 /\ Catalog[11] = Yandex
    BY DEF Catalog, SortedCatalog
  <2>2. ASSUME NEW i \in 1 .. 11
        PROVE  \/ i = 1 \/ i = 2 \/ i = 3 \/ i = 4 \/ i = 5 \/ i = 6
               \/ i = 7 \/ i = 8 \/ i = 9 \/ i = 10 \/ i = 11
    OBVIOUS
  <2> QED
    BY <2>1, <2>2, CatalogEntries
<1>2. ASSUME NEW doc \in Docs PROVE DOMAIN doc.refs \in {1 .. 1, 1 .. 2, 1 .. 3, 1 .. 4, 1 .. 7}
  BY <1>1, ShortsAreKeys DEF Docs
<1>3. \A S \in {1 .. 1, 1 .. 2, 1 .. 3, 1 .. 4, 1 .. 7} : \E n \in Nat : S = 1 .. n
  OBVIOUS
<1> QED
  BY <1>2, <1>3

\* A nonempty set of positions has a first one.
LEMMA FirstPosition ==
  ASSUME NEW S \in SUBSET Nat, S # {}
  PROVE  \E i \in S : \A j \in S : i <= j
<1> DEFINE T == {1 .. i : i \in S}
<1>1. IsWellFoundedOn(StrictSubsetOrdering(Nat), FiniteSubsetsOf(Nat))
  BY FS_StrictSubsetOrderingWellFounded
<1>2. T \subseteq FiniteSubsetsOf(Nat)
  <2> SUFFICES ASSUME NEW i \in S PROVE 1 .. i \in FiniteSubsetsOf(Nat)
    OBVIOUS
  <2>1. IsFiniteSet(1 .. i)
    BY FS_Interval
  <2> QED
    BY <2>1 DEF FiniteSubsetsOf
<1>3. T # {}
  OBVIOUS
<1>4. PICK x \in T : \A y \in T : ~(<<y, x>> \in StrictSubsetOrdering(Nat))
  <2> HIDE DEF T
  <2> QED
    BY <1>1, <1>2, <1>3, WFMin
<1>5. PICK i \in S : x = 1 .. i
  OBVIOUS
<1>6. ASSUME NEW j \in S PROVE i <= j
  <2>1. ~(<<1 .. j, 1 .. i>> \in StrictSubsetOrdering(Nat))
    BY <1>4, <1>5
  <2>2. ~((1 .. j) \subseteq (1 .. i)) \/ 1 .. j = 1 .. i
    BY <2>1 DEF StrictSubsetOrdering
  <2>3. i \in Nat /\ j \in Nat
    OBVIOUS
  <2>4. CASE j < i
    <3>1. (1 .. j) \subseteq (1 .. i) /\ i \in 1 .. i /\ i \notin 1 .. j
      BY <2>3, <2>4
    <3> QED
      BY <2>2, <3>1
  <2> QED
    BY <2>3, <2>4
<1> QED
  BY <1>6

\* Seven ids tell the id sets apart.
Telling == {"0x3", "0x11", "0x20", "0xa", "0x3127", "0x3128", "0x4752"}
LEMMA TellingIDs ==
  /\ AioQuic.identity.tp \cap Telling = {"0x11", "0xa"}
  /\ Chrome.identity.tp \cap Telling = {"0x3", "0x11", "0x20", "0x3128"}
  /\ ChromiumStale.identity.tp \cap Telling = {"0x3", "0x20", "0x4752"}
  /\ CurlQuiche.identity.tp \cap Telling = {"0x3", "0xa"}
  /\ Firefox.identity.tp \cap Telling = {"0x11", "0x20"}
  /\ QuicGoDatagram.identity.tp \cap Telling = {"0x3", "0x20"}
  /\ QuicGo.identity.tp \cap Telling = {"0x3"}
  /\ UquicChrome115.identity.tp \cap Telling = {"0x3", "0x20", "0x3128", "0x4752"}
  /\ UquicChrome146.identity.tp \cap Telling = {"0x3", "0x20", "0x3127", "0x3128"}
  /\ UquicFirefox116.identity.tp \cap Telling = {"0x20"}
  /\ Yandex.identity.tp \cap Telling = {"0x3", "0x11", "0x20"}
<1> USE DEF Telling, CommonTP, Identity, Profile
<1>1. AioQuic.identity.tp \cap Telling = {"0x11", "0xa"}
  BY DEF AioQuic
<1>2. Chrome.identity.tp \cap Telling = {"0x3", "0x11", "0x20", "0x3128"}
  BY DEF Chrome
<1>3. ChromiumStale.identity.tp \cap Telling = {"0x3", "0x20", "0x4752"}
  BY DEF ChromiumStale
<1>4. CurlQuiche.identity.tp \cap Telling = {"0x3", "0xa"}
  BY DEF CurlQuiche
<1>5. Firefox.identity.tp \cap Telling = {"0x11", "0x20"}
  BY DEF Firefox
<1>6. QuicGoDatagram.identity.tp \cap Telling = {"0x3", "0x20"}
  BY DEF QuicGoDatagram
<1>7. QuicGo.identity.tp \cap Telling = {"0x3"}
  BY DEF QuicGo
<1>8. UquicChrome115.identity.tp \cap Telling = {"0x3", "0x20", "0x3128", "0x4752"}
  BY DEF UquicChrome115
<1>9. UquicChrome146.identity.tp \cap Telling = {"0x3", "0x20", "0x3127", "0x3128"}
  BY DEF UquicChrome146
<1>10. UquicFirefox116.identity.tp \cap Telling = {"0x20"}
  BY DEF UquicFirefox116
<1>11. Yandex.identity.tp \cap Telling = {"0x3", "0x11", "0x20"}
  BY DEF Yandex
<1> QED
  BY <1>1, <1>2, <1>3, <1>4, <1>5, <1>6, <1>7, <1>8, <1>9, <1>10, <1>11

\* No two entries of the catalog have the same id set.
LEMMA NoDuplicates ==
  \A i, j \in DOMAIN Catalog : Catalog[i].identity.tp = Catalog[j].identity.tp => i = j
<1> DEFINE told(i) == Catalog[i].identity.tp \cap Telling
<1>1. /\ told(1) = {"0x11", "0xa"} /\ told(2) = {"0x3", "0x11", "0x20", "0x3128"}
      /\ told(3) = {"0x3", "0x20", "0x4752"} /\ told(4) = {"0x3", "0xa"}
      /\ told(5) = {"0x11", "0x20"} /\ told(6) = {"0x3", "0x20"} /\ told(7) = {"0x3"}
      /\ told(8) = {"0x3", "0x20", "0x3128", "0x4752"}
      /\ told(9) = {"0x3", "0x20", "0x3127", "0x3128"}
      /\ told(10) = {"0x20"} /\ told(11) = {"0x3", "0x11", "0x20"}
  BY TellingIDs DEF Catalog, SortedCatalog
<1> HIDE DEF told
<1>2. \A i, j \in 1 .. 11 : told(i) = told(j) => i = j
  BY <1>1
<1> QED
  BY <1>2, ShortsAreKeys DEF told

-----------------------------------------------------------------------------
(* Matching                                                                *)

\* A score is negative for what is rejected, and for nothing else.
LEMMA ScoreOfAccepted ==
  ASSUME NEW obs, NEW doc
  PROVE  Score(obs, doc) >= 0 <=> ~Rejected(obs, doc)
BY DEF Score, Points

\* If an entry is a candidate it is the only one, so it is what classify finds:
\* the order of the catalog does not matter.
LEMMA OnlyCandidate ==
  ASSUME NEW obs, NEW c \in DOMAIN Catalog, ~Rejected(obs, Catalog[c])
  PROVE  /\ Candidates(obs, Catalog) = {c}
         /\ Classify(obs, Catalog).short = Catalog[c].short
<1>1. c \in Candidates(obs, Catalog)
  BY ScoreOfAccepted DEF Candidates
<1>2. ASSUME NEW i \in Candidates(obs, Catalog) PROVE i = c
  <2>1. i \in DOMAIN Catalog /\ ~Rejected(obs, Catalog[i])
    BY ScoreOfAccepted DEF Candidates
  <2>2. Catalog[i].identity.tp = Catalog[c].identity.tp
    BY <2>1 DEF Rejected
  <2> QED
    BY <2>1, <2>2, NoDuplicates
<1>3. Candidates(obs, Catalog) = {c}
  BY <1>1, <1>2
<1>4. c <= c
  BY ShortsAreKeys
<1>5. Best(obs, Catalog) = c
  BY <1>3, <1>4 DEF Best
<1> QED
  BY <1>3, <1>5 DEF Classify

\* Whatever the order in which the entries are read, classify says the same of an
\* observation (match_utls_catalog.py:67-98).
THEOREM OrderDoesNotMatter ==
  ASSUME NEW obs, NEW other, DOMAIN other \subseteq Int,
         \A i, j \in DOMAIN other : other[i] = other[j] => i = j,
         {other[i] : i \in DOMAIN other} = Docs
  PROVE  Classify(obs, other) = Classify(obs, Catalog)
<1>1. CASE \E doc \in Docs : ~Rejected(obs, doc)
  <2>1. PICK c \in DOMAIN Catalog : ~Rejected(obs, Catalog[c])
    BY <1>1 DEF Docs
  <2>2. PICK o \in DOMAIN other : other[o] = Catalog[c]
    BY DEF Docs
  <2>3. \A doc \in Docs : ~Rejected(obs, doc) => doc = Catalog[c]
    BY <2>1, NoDuplicates DEF Docs, Rejected
  <2>4. Candidates(obs, Catalog) = {c}
    BY <2>1, OnlyCandidate
  <2>5. Candidates(obs, other) = {o}
    BY <2>1, <2>2, <2>3, ScoreOfAccepted DEF Candidates
  <2>6. c <= c /\ o <= o
    BY ShortsAreKeys
  <2>7. Best(obs, Catalog) = c /\ Best(obs, other) = o
    BY <2>4, <2>5, <2>6 DEF Best
  <2> QED
    BY <2>2, <2>4, <2>5, <2>7 DEF Classify
<1>2. CASE \A doc \in Docs : Rejected(obs, doc)
  <2>1. Candidates(obs, Catalog) = {} /\ Candidates(obs, other) = {}
    BY <1>2, ScoreOfAccepted DEF Candidates, Docs
  <2> QED
    BY <2>1 DEF Classify
<1> QED
  BY <1>1, <1>2

\* What classify names was not rejected.
LEMMA ClassifiedIsAccepted ==
  ASSUME NEW obs, NEW doc \in Docs, Classify(obs, Catalog).short = doc.short
  PROVE  ~Rejected(obs, doc)
<1>1. doc.short # "none"
  BY ShortsAreKeys DEF Docs
<1>2. PICK c \in Candidates(obs, Catalog) : TRUE
  BY <1>1 DEF Classify, NoMatch
<1>3. c \in DOMAIN Catalog /\ ~Rejected(obs, Catalog[c])
  BY ScoreOfAccepted DEF Candidates
<1>4. Catalog[c].short = doc.short
  BY <1>3, OnlyCandidate
<1> QED
  BY <1>3, <1>4, ShortsAreKeys DEF Docs

-----------------------------------------------------------------------------
(* What the second and the fourth experiment together say                  *)

\* The first reference there is, and the others: the positions have a least one.
LEMMA FirstRefIsPresent ==
  ASSUME NEW doc \in Docs, NEW i \in PresentRefs(doc)
  PROVE  /\ InRefs(FirstRef(doc), doc) /\ FirstRef(doc) \in LabIDs
         /\ doc.refs[i] # FirstRef(doc) =>
              doc.refs[i] \in OtherRefs(doc) /\ Cardinality(PresentRefs(doc)) >= 2
<1>1. PICK n \in Nat : DOMAIN doc.refs = 1 .. n
  BY RefsAreFinite
<1>2. PresentRefs(doc) \subseteq 1 .. n
  BY <1>1 DEF PresentRefs
<1>3. \E k \in PresentRefs(doc) : \A j \in PresentRefs(doc) : k <= j
  BY <1>2, FirstPosition
<1> DEFINE k == CHOOSE k \in PresentRefs(doc) : \A j \in PresentRefs(doc) : k <= j
<1>4. k \in PresentRefs(doc) /\ FirstRef(doc) = doc.refs[k]
  BY <1>3 DEF FirstRef
<1> HIDE DEF k
<1>5. InRefs(FirstRef(doc), doc) /\ FirstRef(doc) \in LabIDs
  BY <1>4 DEF PresentRefs, InRefs
<1>6. ASSUME doc.refs[i] # FirstRef(doc) PROVE Cardinality(PresentRefs(doc)) >= 2
  <2>1. i # k
    BY <1>4, <1>6
  <2>2. IsFiniteSet(PresentRefs(doc))
    BY <1>2, FS_Interval, FS_Subset
  <2>3. IsFiniteSet({i}) /\ Cardinality({i}) = 1
    BY FS_Singleton
  <2>4. Cardinality({i} \cup {k}) = 2
    <3>1. k \notin {i}
      BY <2>1
    <3>2. Cardinality({i} \cup {k}) = IF k \in {i} THEN Cardinality({i}) ELSE Cardinality({i}) + 1
      BY <2>3, FS_AddElement
    <3> QED
      BY <2>3, <3>1, <3>2
  <2>5. {i} \cup {k} \in SUBSET PresentRefs(doc)
    BY <1>4
  <2>6. Cardinality({i} \cup {k}) <= Cardinality(PresentRefs(doc))
    BY <2>2, <2>5, FS_Subset
  <2>7. Cardinality(PresentRefs(doc)) \in Nat
    BY <2>2, FS_CardinalityType
  <2> QED
    BY <2>4, <2>6, <2>7
<1> QED
  BY <1>5, <1>6 DEF OtherRefs

\* Every reference is the first one, which is classified, or like it.
LEMMA ReferencesClassify ==
  ASSUME StableFailures = {}, CrossFailures = {},
         NEW doc \in Docs, NEW id \in LabIDs, InRefs(id, doc), dirs[id].exists
  PROVE  Classify(Obs(id), Catalog).short = doc.short
<1> DEFINE first == FirstRef(doc)
<1>2. PICK i \in PresentRefs(doc) : doc.refs[i] = id
  BY DEF InRefs, PresentRefs
<1>3. Classify(Obs(first), Catalog).short = doc.short
  <2>1. <<"cross", doc.short>> \notin CrossFailures
    OBVIOUS
  <2>2. ~(PresentRefs(doc) # {} /\ Classify(Obs(first), Catalog).short # doc.short)
    <3> HIDE DEF first
    <3> SUFFICES ASSUME PresentRefs(doc) # {}, Classify(Obs(FirstRef(doc)), Catalog).short # doc.short
                 PROVE  <<"cross", doc.short>> \in CrossFailures
      BY <2>1 DEF first
    <3> QED
      BY Zenon DEF CrossFailures
  <2> QED
    BY <1>2, <2>2
<1>4. ~Rejected(Obs(first), doc)
  BY <1>3, ClassifiedIsAccepted
<1>5. CASE id = first
  BY <1>3, <1>5
<1>6. CASE id # first
  <2>1. id \in OtherRefs(doc) /\ Cardinality(PresentRefs(doc)) >= 2
    BY <1>2, <1>6, FirstRefIsPresent
  <2>2. SameIdentity(doc, Obs(first), Obs(id))
    BY <2>1 DEF StableFailures
  <2>3. ~Rejected(Obs(id), doc)
    BY <1>4, <2>2 DEF SameIdentity, Rejected
  <2>4. PICK c \in DOMAIN Catalog : Catalog[c] = doc
    BY DEF Docs
  <2> QED
    BY <2>3, <2>4, OnlyCandidate
<1> QED
  BY <1>5, <1>6

-----------------------------------------------------------------------------
(* The invariant of the experiments                                        *)

\* Nobody reads a verdict while a script runs, and only annotate holds anything.
ScriptsInv ==
  /\ script # "idle" => script = last /\ verdict = "none"
  /\ held # Nothing => script = "annotate" /\ at \in DOMAIN DirOrder

\* Where nothing was promoted meanwhile, failures holds what the experiments run
\* so far would still find, and these read profiles they could read.
Clean(k) == FailuresOf(k) \subseteq failures /\ ~Raises(k)
ExperimentsInv == script = "experiment" /\ moved = {} =>
  at \in 1 .. 7 /\ \A k \in 1 .. 6 : k < at => Clean(k)

PassedInv == ExperimentOK => \A k \in 1 .. 6 : FailuresOf(k) = {} /\ ~Raises(k)

GateInv == ScriptsInv /\ ExperimentsInv /\ PassedInv

\* A promotion does something.
Promoting == \E p \in promotions : Write(p) \/ WriteFails(p) \/ WritesOver(p) \/ BreaksOff(p)

\* What the experiments find depends on the directories alone.
LEMMA FindingsKept ==
  ASSUME UNCHANGED dirs, NEW k
  PROVE  FailuresOf(k)' = FailuresOf(k) /\ Raises(k)' = Raises(k)
<1>1. \A doc : PresentRefs(doc)' = PresentRefs(doc)
  BY DEF PresentRefs
<1>2. \A doc : FirstRef(doc)' = FirstRef(doc) /\ OtherRefs(doc)' = OtherRefs(doc)
  BY <1>1 DEF FirstRef, OtherRefs
<1>3. \A id : Obs(id)' = Obs(id) /\ dirs[id]' = dirs[id]
  BY DEF Obs
<1>4. SlotFailures' = SlotFailures
  BY DEF SlotFailures
<1>5. StableFailures' = StableFailures
  BY <1>1, <1>2, <1>3 DEF StableFailures
<1>6. \A pair : BothExist(pair)' = BothExist(pair) /\ RoundTripOK(pair)' = RoundTripOK(pair)
  BY <1>3 DEF BothExist, RoundTripOK, Existing, SameHexID
<1>7. RoundTripFailures' = RoundTripFailures
  BY <1>6 DEF RoundTripFailures
<1>8. CrossFailures' = CrossFailures
  BY <1>1, <1>2, <1>3 DEF CrossFailures
<1>9. AuthFailures' = AuthFailures /\ LiveFailures' = LiveFailures
  BY <1>3 DEF AuthFailures, LiveFailures, SameHexID
<1>10. FailuresOf(k)' = FailuresOf(k)
  BY <1>4, <1>5, <1>7, <1>8, <1>9 DEF FailuresOf
<1>11. Reads(k)' = Reads(k)
  <2>1. {d \in Docs : Cardinality(PresentRefs(d)) >= 2}' = {d \in Docs : Cardinality(PresentRefs(d)) >= 2}
    BY <1>1
  <2>2. {d \in Docs : PresentRefs(d) # {}}' = {d \in Docs : PresentRefs(d) # {}}
    BY <1>1
  <2>3. {p \in Pairs : BothExist(p)}' = {p \in Pairs : BothExist(p)}
    BY <1>6
  <2>4. \A d : {d.refs[i] : i \in PresentRefs(d)}' = {d.refs[i] : i \in PresentRefs(d)}
    BY <1>1
  <2>5. (UNION {{d.refs[i] : i \in PresentRefs(d)} : d \in {e \in Docs : Cardinality(PresentRefs(e)) >= 2}})'
          = UNION {{d.refs[i] : i \in PresentRefs(d)} : d \in {e \in Docs : Cardinality(PresentRefs(e)) >= 2}}
    BY <1>1, <2>1, <2>4
  <2>6. (UNION {{p[1], p[2]} : p \in {q \in Pairs : BothExist(q)}})'
          = UNION {{p[1], p[2]} : p \in {q \in Pairs : BothExist(q)}}
    BY <2>3
  <2>7. {FirstRef(d) : d \in {e \in Docs : PresentRefs(e) # {}}}'
          = {FirstRef(d) : d \in {e \in Docs : PresentRefs(e) # {}}}
    BY <1>2, <2>2
  <2>8. {id \in DOMAIN LiveShort : dirs[id].profile}' = {id \in DOMAIN LiveShort : dirs[id].profile}
    BY <1>3
  <2> QED
    BY <2>5, <2>6, <2>7, <2>8 DEF Reads
<1>12. \A id : Observable(id)' = Observable(id) /\ Loadable(id)' = Loadable(id)
  BY <1>3 DEF Observable, Loadable
<1> QED
  BY <1>10, <1>11, <1>12 DEF Raises

LEMMA GateInit == Init => GateInv
BY DEF Init, GateInv, ScriptsInv, ExperimentsInv, PassedInv, ExperimentOK

\* A step of a script that is no experiment, and that leaves none ended behind.
LEMMA OtherSteps ==
  ASSUME GateInv, ScriptsInv', script' # "experiment",
         script' = "idle" => last' # "experiment" \/ verdict' # "ok" \/ moved' # {}
  PROVE  GateInv'
BY DEF GateInv, ExperimentsInv, PassedInv, ExperimentOK, ScriptsInv

LEMMA ExperimentStep ==
  ASSUME GateInv, Experiment
  PROVE  GateInv'
<1> USE DEF GateInv
<1>1. ScriptsInv'
  BY DEF Experiment, ScriptsInv, End
<1>2. dirs' = dirs /\ moved' = moved /\ last' = last
  BY DEF Experiment
<1>3. CASE Raises(at)
  <2>1. script' = "idle" /\ verdict' = "raise"
    BY <1>3 DEF Experiment, End
  <2> QED
    BY <1>1, <2>1 DEF ExperimentsInv, PassedInv, ExperimentOK
<1>4. CASE ~Raises(at)
  <2>1. /\ script = "experiment" /\ at \in 1 .. 6 /\ failures' = failures \cup FailuresOf(at)
        /\ at' = at + 1 /\ script' = script /\ verdict' = verdict
    BY <1>4 DEF Experiment
  <2>2. ASSUME moved' = {}
        PROVE  at' \in 1 .. 7 /\ \A k \in 1 .. 6 : k < at' => Clean(k)'
    <3>1. \A k \in 1 .. 6 : k < at => Clean(k)
      BY <1>2, <2>1, <2>2 DEF ExperimentsInv
    <3>2. ASSUME NEW k \in 1 .. 6, k < at' PROVE Clean(k)'
      <4>1. FailuresOf(k)' = FailuresOf(k) /\ Raises(k)' = Raises(k)
        BY <1>2, FindingsKept
      <4>2. k = at \/ k < at
        BY <2>1, <3>2
      <4> QED
        BY <1>4, <2>1, <3>1, <4>1, <4>2 DEF Clean
    <3> QED
      BY <2>1, <3>2
  <2>3. ~ExperimentOK'
    BY <1>1, <2>1 DEF ExperimentOK, ScriptsInv
  <2> QED
    BY <1>1, <2>2, <2>3 DEF ExperimentsInv, PassedInv
<1> QED
  BY <1>3, <1>4

LEMMA ExperimentEndsStep ==
  ASSUME GateInv, ExperimentEnds
  PROVE  GateInv'
<1> USE DEF GateInv
<1>1. ScriptsInv' /\ script' = "idle"
  BY DEF ExperimentEnds, ScriptsInv, End
<1>2. dirs' = dirs /\ moved' = moved
  BY DEF ExperimentEnds
<1>3. ASSUME ExperimentOK', NEW k \in 1 .. 6
      PROVE  FailuresOf(k)' = {} /\ ~Raises(k)'
  <2>1. failures = {} /\ moved = {}
    BY <1>3 DEF ExperimentEnds, ExperimentOK, End
  <2>2. Clean(k)
    BY <2>1 DEF ExperimentsInv, ExperimentEnds
  <2>3. FailuresOf(k)' = FailuresOf(k) /\ Raises(k)' = Raises(k)
    BY <1>2, FindingsKept
  <2> QED
    BY <2>1, <2>2, <2>3 DEF Clean
<1> QED
  BY <1>1, <1>3 DEF ExperimentsInv, PassedInv

\* A step that no script sees: the directories, and what a verdict says of them.
LEMMA Unseen ==
  ASSUME GateInv, UNCHANGED <<dirs, script, at, held, failures, verdict, moved, last>>
  PROVE  GateInv'
<1>1. \A k : FailuresOf(k)' = FailuresOf(k) /\ Raises(k)' = Raises(k)
  BY FindingsKept
<1> QED
  BY <1>1 DEF GateInv, ScriptsInv, ExperimentsInv, PassedInv, ExperimentOK, Clean

LEMMA GateStep == GateInv /\ [Next]_vars => GateInv'
<1> SUFFICES ASSUME GateInv, [Next]_vars PROVE GateInv'
  OBVIOUS
<1> USE DEF GateInv
<1>1. CASE (\E id \in LabIDs : Dial(id)) \/ Promoting
  <2>1. moved' # {} /\ UNCHANGED <<script, at, held, verdict, last>>
    BY <1>1 DEF Dial, Promoting, Write, WriteFails, WritesOver, BreaksOff, NotWritten, work
  <2> QED
    BY <2>1 DEF ScriptsInv, ExperimentsInv, PassedInv, ExperimentOK
<1>2. CASE \/ \E s \in {"annotate", "extract", "experiment"} : Start(s, FALSE)
           \/ \E all \in BOOLEAN : Start("match", all)
  <2>1. PICK s \in {"annotate", "extract", "match", "experiment"}, opt \in BOOLEAN : Start(s, opt)
    BY <1>2
  <2>2. /\ script = "idle" /\ script' = s /\ last' = s /\ verdict' = "none" /\ at' = 1 /\ held' = held
    BY <2>1 DEF Start
  <2> QED
    BY <2>2 DEF ScriptsInv, ExperimentsInv, PassedInv, ExperimentOK
<1>3. CASE AnnotateInitials \/ AnnotateWrites
  <2>1. /\ script = "annotate" /\ script' = script /\ verdict' = verdict /\ last' = last
    BY <1>3 DEF AnnotateInitials, AnnotateWrites, ScriptsInv
  <2>2. held' # Nothing => at' = at /\ at \in DOMAIN DirOrder
    BY <1>3 DEF AnnotateInitials, AnnotateWrites, ScriptsInv
  <2>3. ScriptsInv'
    BY <2>1, <2>2 DEF ScriptsInv
  <2> QED
    BY <2>1, <2>3, OtherSteps
<1>4. ASSUME script \in {"annotate", "extract", "match"}, last' = last, NEW v, End(v)
      PROVE  GateInv'
  <2>1. script' = "idle" /\ held' = Nothing
    BY <1>4 DEF End
  <2>2. ScriptsInv' /\ last' # "experiment"
    BY <1>4, <2>1 DEF ScriptsInv
  <2> QED
    BY <2>1, <2>2, OtherSteps
<1>5. ASSUME script \in {"annotate", "extract", "match"}, UNCHANGED <<script, verdict, last>>,
             held' # Nothing => held # Nothing /\ at' = at
      PROVE  GateInv'
  <2>1. ScriptsInv'
    BY <1>5 DEF ScriptsInv
  <2> QED
    BY <1>5, <2>1, OtherSteps
<1>9. CASE AnnotateReads \/ AnnotateBreaksOff \/ AnnotateEnds
  <2>1. script = "annotate" /\ last' = last
    BY <1>9 DEF AnnotateReads, AnnotateBreaksOff, AnnotateEnds, ScriptsInv
  <2>2. CASE \E v : End(v)
    BY <1>4, <2>1, <2>2
  <2>3. CASE ~\E v : End(v)
    <3>1. UNCHANGED <<script, verdict, at>> /\ held # Nothing
      BY <1>9, <2>3 DEF AnnotateReads, AnnotateBreaksOff, AnnotateEnds
    <3> QED
      BY <1>5, <2>1, <3>1
  <2> QED
    BY <2>2, <2>3
<1>10. CASE ExtractDir \/ ExtractEnds \/ MatchDir \/ MatchEnds
  <2>1. script \in {"extract", "match"} /\ last' = last
    BY <1>10 DEF ExtractDir, ExtractEnds, MatchDir, MatchEnds
  <2>2. CASE \E v : End(v)
    BY <1>4, <2>1, <2>2
  <2>3. CASE ~\E v : End(v)
    <3>1. UNCHANGED <<script, verdict, held>>
      BY <1>10, <2>3 DEF ExtractDir, ExtractEnds, MatchDir, MatchEnds
    <3>2. held = Nothing
      BY <2>1 DEF ScriptsInv
    <3> QED
      BY <1>5, <2>1, <3>1, <3>2
  <2> QED
    BY <2>2, <2>3
<1>6. CASE Experiment
  BY <1>6, ExperimentStep
<1>7. CASE ExperimentEnds
  BY <1>7, ExperimentEndsStep
<1>8. CASE UNCHANGED vars
  BY <1>8, Unseen DEF vars, work
<1> QED
  BY <1>1, <1>2, <1>3, <1>6, <1>7, <1>8, <1>9, <1>10 DEF Next, Promoting

-----------------------------------------------------------------------------
(* The theorems                                                            *)

\* Exit 0 of the experiments means that every reference of a short is classified
\* as that short, for any clients, directories, order of promotions and scripts
\* (experiment_stable_random.py:105-149, 254-274).
THEOREM PassedReferencesClassify == Spec => []RefsClassify
<1>1. GateInv => RefsClassify
  <2> SUFFICES ASSUME GateInv, ExperimentOK,
                      NEW doc \in Docs, NEW id \in LabIDs, InRefs(id, doc), dirs[id].exists
               PROVE  Classify(Obs(id), Catalog).short = doc.short
    BY DEF RefsClassify
  <2>1. FailuresOf(2) = {} /\ FailuresOf(4) = {}
    BY DEF GateInv, PassedInv
  <2>2. StableFailures = {} /\ CrossFailures = {}
    BY <2>1 DEF FailuresOf
  <2> QED
    BY <2>2, ReferencesClassify
<1> QED
  BY <1>1, GateInit, GateStep, PTL DEF Spec

\* ... and match_utls_catalog.py passes as well, where every required short has a
\* reference (match_utls_catalog.py:155-175).
LEMMA MatchPassesToo ==
  ASSUME GateInv, ExperimentOK,
         \A short \in Required : \E id \in LabIDs \ Hidden : InRefs(id, Doc(short)) /\ dirs[id].exists
  PROVE  MatchVerdict(MatchRows, FALSE) = "ok"
<1>1. /\ SlotFailures = {} /\ StableFailures = {} /\ CrossFailures = {}
      /\ ~Raises(2) /\ ~Raises(4)
  BY DEF GateInv, PassedInv, FailuresOf
<1>2. ASSUME NEW short \in Required PROVE short \in {r.match.short : r \in MatchRows}
  <2>1. Doc(short) \in Docs /\ Doc(short).short = short
    <3>1. /\ Catalog[2].short = "chrome" /\ Catalog[6].short = "quic-go-datagram"
          /\ Catalog[7].short = "quic-go"
      BY CatalogEntries DEF Catalog, SortedCatalog
    <3>2. \E doc \in Docs : doc.short = short
      BY <3>1, ShortsAreKeys DEF Required, Docs
    <3> QED
      BY <3>2 DEF Doc
  <2>2. PICK id \in LabIDs \ Hidden : InRefs(id, Doc(short)) /\ dirs[id].exists
    OBVIOUS
  <2>3. Classify(Obs(id), Catalog).short = short
    BY <1>1, <2>1, <2>2, ReferencesClassify
  <2>4. dirs[id].profile
    <3> DEFINE doc == Doc(short)
    <3>1. PICK i \in PresentRefs(doc) : doc.refs[i] = id
      BY <2>2 DEF InRefs, PresentRefs
    <3>2. CASE id = FirstRef(doc)
      <4>1. id \in Reads(4)
        BY <2>1, <3>1, <3>2 DEF Reads
      <4> QED
        BY <1>1, <4>1 DEF Raises, Observable
    <3>3. CASE id # FirstRef(doc)
      <4>1. Cardinality(PresentRefs(doc)) >= 2
        BY <2>1, <3>1, <3>3, FirstRefIsPresent
      <4>2. id \in Reads(2)
        BY <2>1, <3>1, <4>1 DEF Reads
      <4> QED
        BY <1>1, <4>2 DEF Raises, Loadable, Observable
    <3> QED
      BY <3>2, <3>3
  <2>5. [id |-> id, match |-> Classify(Obs(id), Catalog)] \in MatchRows
    BY <2>2, <2>4 DEF MatchRows
  <2> QED
    BY <2>3, <2>5
<1>3. ASSUME NEW r \in MatchRows PROVE ~(r.match.capable /\ r.match.demuxFingerprint)
  <2>1. PICK id \in LabIDs : r.match = Classify(Obs(id), Catalog)
    BY DEF MatchRows
  <2>2. CASE r.match = NoMatch
    BY <2>2 DEF NoMatch
  <2>3. CASE r.match # NoMatch
    <3> DEFINE C == Candidates(Obs(id), Catalog)
    <3>2. PICK c \in C : TRUE
      BY <2>1, <2>3 DEF Classify
    <3>3. c \in DOMAIN Catalog /\ ~Rejected(Obs(id), Catalog[c])
      BY ScoreOfAccepted DEF Candidates
    <3>4. C = {c}
      BY <3>3, OnlyCandidate
    <3>5. c <= c
      BY <3>3, ShortsAreKeys
    <3>6. Best(Obs(id), Catalog) = c
      BY <3>4, <3>5 DEF Best
    <3>7. /\ r.match.capable = Catalog[c].auth.capable
          /\ r.match.demuxFingerprint = Catalog[c].auth.demuxFingerprint
      BY <2>1, <3>4, <3>6 DEF Classify
    <3>8. Catalog[c] \in Docs
      BY <3>3 DEF Docs
    <3>9. ~(Catalog[c].auth.capable /\ Catalog[c].auth.demuxFingerprint)
      BY <1>1, <3>8 DEF SlotFailures
    <3> QED
      BY <3>7, <3>9
  <2> QED
    BY <2>2, <2>3
<1> QED
  BY <1>2, <1>3 DEF MatchVerdict

\* The two gates agree, for any clients and any order of steps
\* (experiment_stable_random.py:333-398, match_utls_catalog.py:155-175).
THEOREM GatesAlwaysAgree == Spec => []GatesAgree
<1>1. GateInv => GatesAgree
  BY MatchPassesToo DEF GatesAgree
<1> QED
  BY <1>1, GateInit, GateStep, PTL DEF Spec

-----------------------------------------------------------------------------
(* annotate_ja4.py and the promotions                                      *)

\* An initial: the flight it is of, and the number of datagrams of that flight.
Dials == LabIDs \X Nat
Bin == [n : Dials \cup {Broken.n}, of : Nat]

Fields == {"exists", "profile", "family", "manifest", "ja4", "meta", "header", "tp", "hello", "bins"}
DirTyped(dir) == DOMAIN dir = Fields /\ dir.bins \in Seq(Bin)

PromotionTyped(p) ==
  /\ DOMAIN p = {"id", "flight", "done", "alone"} /\ p.id \in LabIDs /\ p.done \in Nat
  /\ p.flight.n \in Dials /\ p.flight.count \in Nat \ {0} /\ p.done <= p.flight.count + 4

LabTyped ==
  /\ DOMAIN dirs = LabIDs /\ dials \in Nat
  /\ \A id \in LabIDs : DirTyped(dirs[id])
  /\ \A p \in promotions : PromotionTyped(p)

\* A promotion that is alone in its directory has written the first initial, and
\* nobody else did since.
Begun(p) == dirs[p.id].bins # <<>> /\ dirs[p.id].bins[1].n = p.flight.n
PromotionsInv ==
  /\ \A p \in promotions : p.id \in torn
  /\ \A p \in promotions : p.alone /\ p.done >= 1 => Begun(p)
  /\ \A p, q \in promotions : p.alone /\ p.id = q.id => p = q

\* The first initial is one of the flight profile.json is of.
OfOneFlight(dir) == dir.bins # <<>> => dir.manifest = Broken \/ dir.bins[1].n = dir.manifest.n
FirstInitial == \A id \in LabIDs \ (torn \cup raced) : OfOneFlight(dirs[id])

\* What annotate holds is of the directory it is at.
HeldInv == held # Nothing =>
  /\ at \in DOMAIN DirOrder /\ DOMAIN held = {"ja4", "manifest"}
  /\ DirOrder[at] \notin raced =>
       LET dir == dirs[DirOrder[at]] IN
       /\ DirOrder[at] \notin torn
       /\ dir.manifest = Broken \/ held.ja4 = dir.manifest.n
       /\ held.manifest # NoFlight => held.manifest = dir.manifest /\ dir.manifest # Broken

AnnotateInv == LabTyped /\ PromotionsInv /\ FirstInitial /\ HeldInv /\ JA4IsOfItsFlight

\* A set of positions has a last one.
LEMMA LastPosition ==
  ASSUME NEW n \in Nat, NEW S \in SUBSET (1 .. n), S # {}
  PROVE  \E i \in S : \A j \in S : j <= i
<1> DEFINE T == {n - i : i \in S}
<1>1. T \in SUBSET Nat /\ T # {}
  <2>1. ASSUME NEW i \in S PROVE n - i \in Nat
    <3>1. i \in 1 .. n
      BY Zenon
    <3> QED
      BY <3>1
  <2> QED
    BY <2>1
<1>2. PICK k \in T : \A j \in T : k <= j
  <2> HIDE DEF T
  <2> QED
    BY <1>1, FirstPosition
<1>3. PICK i \in S : k = n - i
  OBVIOUS
<1>4. ASSUME NEW j \in S PROVE j <= i
  <2>1. n - i <= n - j
    BY <1>2, <1>3
  <2>2. i \in 1 .. n /\ j \in 1 .. n
    BY Zenon
  <2> HIDE DEF T
  <2> QED
    BY <2>1, <2>2
<1> QED
  BY <1>4

\* A JA4 is the one of the flight the first initial is of.
LEMMA JA4IsOfTheFirstInitial ==
  ASSUME NEW bins \in Seq(Bin), JA4FromInitials(bins) # NoFlight.n
  PROVE  bins # <<>> /\ JA4FromInitials(bins) = bins[1].n
<1> DEFINE i == CHOOSE i \in WholeFlights(bins) : \A j \in WholeFlights(bins) : j <= i
<1>1. WholeFlights(bins) # {} /\ JA4FromInitials(bins) = bins[i].n
  BY DEF JA4FromInitials
<1>2. WholeFlights(bins) \in SUBSET (1 .. Len(bins)) /\ Len(bins) \in Nat
  BY DEF WholeFlights
<1>3. i \in WholeFlights(bins)
  BY <1>1, <1>2, LastPosition
<1> HIDE DEF i
<1>4. i \in 1 .. Len(bins) /\ \A j \in 1 .. i : bins[j].n = bins[i].n
  BY <1>3 DEF WholeFlights
<1>5. 1 \in 1 .. i /\ bins # <<>>
  BY <1>2, <1>4
<1> QED
  BY <1>1, <1>4, <1>5

\* A file after another: the initials first, profile.json last.
LEMMA FilesInOrder ==
  ASSUME NEW p, PromotionTyped(p)
  PROVE  /\ FileAt(p) \in {"initial"} \cup Ignored \cup {"profile"}
         /\ FileAt(p) = "initial" <=> p.done < p.flight.count
         /\ FileAt(p) # "initial" => p.done >= 1
         /\ FileAt(p) # "profile" => p.done + 1 <= p.flight.count + 4
<1> DEFINE i == p.done - p.flight.count + 1
<1>1. p.done \in Nat /\ p.flight.count \in Nat \ {0} /\ p.done <= p.flight.count + 4
  BY DEF PromotionTyped
<1>2. CASE p.done < p.flight.count
  <2>1. FileAt(p) = "initial"
    BY <1>2 DEF FileAt
  <2> QED
    BY <1>1, <1>2, <2>1
<1>3. CASE ~(p.done < p.flight.count)
  <2>1. i \in 1 .. 5 /\ p.done >= 1
    BY <1>1, <1>3
  <2>2. FileAt(p) = AfterInitials[i]
    BY <1>3 DEF FileAt
  <2>3. i = 1 \/ i = 2 \/ i = 3 \/ i = 4 \/ i = 5
    BY <2>1
  <2>4. AfterInitials[i] \in Ignored \cup {"profile"} /\ AfterInitials[i] # "initial"
    BY <2>3 DEF AfterInitials, Ignored
  <2>5. i # 5 => p.done + 1 <= p.flight.count + 4
    BY <1>1, <2>1
  <2>6. i = 5 => AfterInitials[i] = "profile"
    BY DEF AfterInitials
  <2> HIDE DEF i
  <2> QED
    BY <1>3, <2>1, <2>2, <2>4, <2>5, <2>6
<1> QED
  BY <1>2, <1>3

\* The first initial after a promotion wrote one of its own.
LEMMA FirstAfterInitial ==
  ASSUME NEW bins \in Seq(Bin), NEW done \in Nat, NEW content,
         content.n \in Dials \cup {Broken.n}, content.count \in Nat
  PROVE  /\ WithInitial(bins, done + 1, content) \in Seq(Bin)
         /\ WithInitial(bins, done + 1, content) # <<>>
         /\ done = 0 => WithInitial(bins, done + 1, content)[1].n = content.n
         /\ done >= 1 /\ bins # <<>> => WithInitial(bins, done + 1, content)[1] = bins[1]
<1> DEFINE file == [n |-> content.n, of |-> content.count] i == done + 1
<1>1. file \in Bin /\ file.n = content.n
  BY DEF Bin
<1>2. WithInitial(bins, i, content) = IF i \in DOMAIN bins THEN [bins EXCEPT ![i] = file] ELSE Append(bins, file)
  BY DEF WithInitial
<1>3. i \in Nat \ {0} /\ (done >= 1 => i # 1) /\ (done = 0 => i = 1)
  OBVIOUS
<1> HIDE DEF file, i
<1>4. CASE i \in DOMAIN bins
  <2>1. [bins EXCEPT ![i] = file] \in Seq(Bin) /\ [bins EXCEPT ![i] = file][i] = file
    BY <1>1, <1>4
  <2>2. Len([bins EXCEPT ![i] = file]) = Len(bins) /\ Len(bins) >= 1
    BY <1>3, <1>4
  <2>3. i # 1 => [bins EXCEPT ![i] = file][1] = bins[1]
    BY <1>4, <2>2
  <2>4. [bins EXCEPT ![i] = file] # <<>>
    BY <2>1, <2>2
  <2> QED
    BY <1>1, <1>2, <1>3, <1>4, <2>1, <2>3, <2>4 DEF i
<1>5. CASE i \notin DOMAIN bins
  <2>1. Append(bins, file) \in Seq(Bin) /\ Append(bins, file) # <<>>
    BY <1>1
  <2>2. i = 1 => bins = <<>> /\ Append(bins, file)[1] = file
    BY <1>1, <1>5
  <2>3. bins # <<>> => Append(bins, file)[1] = bins[1]
    BY <1>1
  <2> QED
    BY <1>1, <1>2, <1>3, <1>5, <2>1, <2>2, <2>3 DEF i
<1> QED
  BY <1>4, <1>5

\* What a write does to a directory.
Written(dir, p, content, new) ==
  /\ DirTyped(new)
  /\ FileAt(p) # "initial" => new.bins = dir.bins
  /\ FileAt(p) = "initial" /\ p.done = 0 => new.bins # <<>> /\ new.bins[1].n = content.n
  /\ FileAt(p) = "initial" /\ p.done >= 1 /\ dir.bins # <<>> =>
       new.bins # <<>> /\ new.bins[1] = dir.bins[1]
  /\ FileAt(p) # "profile" =>
       new.profile = dir.profile /\ new.manifest = dir.manifest /\ new.ja4 = dir.ja4
  /\ FileAt(p) = "profile" =>
       new.profile = TRUE /\ new.manifest = content /\ new.ja4 = NoFlight.n
  /\ new.header \in {dir.header, content}

LEMMA FileWritten ==
  ASSUME NEW dir, NEW p, NEW content, DirTyped(dir), PromotionTyped(p),
         content.n \in Dials \cup {Broken.n}, content.count \in Nat
  PROVE  Written(dir, p, content, WithFile(dir, p, content))
<1> DEFINE new == WithFile(dir, p, content) bins == WithInitial(dir.bins, p.done + 1, content)
<1>1. FileAt(p) \in {"initial", "meta", "header", "tp", "hello", "profile"}
  BY FilesInOrder DEF Ignored
<1>2. DOMAIN dir = Fields /\ dir.bins \in Seq(Bin)
  BY DEF DirTyped
<1>3. CASE FileAt(p) = "initial"
  <2>1. new = [dir EXCEPT !.bins = bins]
    BY <1>3 DEF WithFile
  <2>2. /\ bins \in Seq(Bin) /\ bins # <<>>
        /\ p.done = 0 => bins[1].n = content.n
        /\ p.done >= 1 /\ dir.bins # <<>> => bins[1] = dir.bins[1]
    BY <1>2, FirstAfterInitial DEF PromotionTyped
  <2> HIDE DEF new, bins
  <2>3. /\ DOMAIN new = Fields /\ new.bins = bins /\ new.profile = dir.profile
        /\ new.manifest = dir.manifest /\ new.ja4 = dir.ja4 /\ new.header = dir.header
    BY <1>2, <2>1 DEF Fields
  <2>4. DirTyped(new)
    BY <2>2, <2>3 DEF DirTyped
  <2> QED
    BY <1>3, <2>2, <2>3, <2>4 DEF new, Written
<1>4. CASE FileAt(p) \in {"meta", "header", "tp", "hello"}
  <2>1. \/ new = [dir EXCEPT !.meta = content] \/ new = [dir EXCEPT !.header = content]
        \/ new = [dir EXCEPT !.tp = content] \/ new = [dir EXCEPT !.hello = content]
    BY <1>4 DEF WithFile
  <2> HIDE DEF new, bins
  <2>2. /\ DOMAIN new = Fields /\ new.bins = dir.bins /\ new.profile = dir.profile
        /\ new.manifest = dir.manifest /\ new.ja4 = dir.ja4 /\ new.header \in {dir.header, content}
    BY <1>2, <2>1 DEF Fields
  <2>3. DirTyped(new)
    BY <1>2, <2>2 DEF DirTyped
  <2> QED
    BY <1>4, <2>2, <2>3 DEF new, Written
<1>5. CASE FileAt(p) = "profile"
  <2>1. new = [dir EXCEPT !.profile = TRUE, !.family = Family[p.id], !.manifest = content, !.ja4 = NoFlight.n]
    BY <1>5 DEF WithFile
  <2> HIDE DEF new, bins
  <2>2. /\ DOMAIN new = Fields /\ new.bins = dir.bins /\ new.profile = TRUE
        /\ new.manifest = content /\ new.ja4 = NoFlight.n /\ new.header = dir.header
    BY <1>2, <2>1 DEF Fields
  <2>3. DirTyped(new)
    BY <1>2, <2>2 DEF DirTyped
  <2> QED
    BY <1>5, <2>2, <2>3 DEF new, Written
<1> QED
  BY <1>1, <1>3, <1>4, <1>5

LEMMA AnnotateInit == Init => AnnotateInv
<1> SUFFICES ASSUME Init PROVE AnnotateInv
  OBVIOUS
<1>1. PICK which \in [LabIDs -> UNION {Initially[id] : id \in LabIDs}] :
        /\ \A id \in LabIDs : which[id] \in Initially[id]
        /\ dirs = [id \in LabIDs |-> Before(id, which[id])]
  BY DEF Init
<1>2. ASSUME NEW id \in LabIDs
      PROVE  DirTyped(dirs[id]) /\ OfOneFlight(dirs[id]) /\ dirs[id].ja4 = NoFlight.n
  <2>1. dirs[id] = Before(id, which[id])
    BY <1>1
  <2>2. CASE which[id] = 0
    <3>1. dirs[id] = Absent
      BY <2>1, <2>2 DEF Before
    <3>2. Absent.bins = <<>> /\ DOMAIN Absent = Fields /\ Absent.ja4 = NoFlight.n
      BY DEF Absent, Fields
    <3> QED
      BY <3>1, <3>2 DEF DirTyped, OfOneFlight
  <2>3. CASE which[id] # 0
    <3> DEFINE c == ClientsOf(id)[which[id]] n == <<id, 0>> f == Flight(c, n)
               bins == [i \in 1 .. f.count |-> [n |-> f.n, of |-> f.count]]
    <3>1. c.count \in Nat \ {0} /\ n \in Dials
      BY <1>1, <2>3, ClientAssumption DEF Dials
    <3>2. f.n = n /\ f.count = c.count
      BY DEF Flight
    <3>3. dirs[id] = [exists |-> TRUE, profile |-> TRUE, family |-> Family[id], manifest |-> f,
                      ja4 |-> NoFlight.n, meta |-> f, header |-> f, tp |-> f, hello |-> f, bins |-> bins]
      BY <2>1, <2>3 DEF Before
    <3> HIDE DEF c, n, f
    <3>4. bins \in Seq(Bin) /\ bins[1].n = f.n
      <4>1. [n |-> f.n, of |-> f.count] \in Bin
        BY <3>1, <3>2 DEF Bin
      <4> QED
        BY <3>1, <3>2, <4>1
    <3> HIDE DEF bins
    <3>5. /\ DOMAIN dirs[id] = Fields /\ dirs[id].bins = bins /\ dirs[id].manifest = f
          /\ dirs[id].ja4 = NoFlight.n
      BY <3>3 DEF Fields
    <3> QED
      BY <3>4, <3>5 DEF DirTyped, OfOneFlight
  <2> QED
    BY <2>2, <2>3
<1>3. promotions = {} /\ held = Nothing /\ dials = 0 /\ DOMAIN dirs = LabIDs
  BY <1>1 DEF Init
<1> QED
  BY <1>2, <1>3 DEF AnnotateInv, LabTyped, PromotionsInv, FirstInitial, HeldInv, JA4IsOfItsFlight

\* What a promotion leaves to show: the rest is of other directories, or of those
\* annotate is not at.
LEMMA ElsewhereKept ==
  ASSUME AnnotateInv, NEW id \in LabIDs, UNCHANGED <<held, at>>,
         DOMAIN dirs' = LabIDs, \A x \in LabIDs \ {id} : dirs'[x] = dirs[x],
         raced \ {id} \subseteq raced', UnderAnnotate(id) => id \in raced',
         torn' \subseteq torn \cup {id}, torn \ {id} \subseteq torn',
         id \notin torn' => OfOneFlight(dirs'[id]),
         id \notin raced' /\ dirs'[id].ja4 # NoFlight.n => dirs'[id].ja4 = dirs'[id].manifest.n
  PROVE  FirstInitial' /\ HeldInv' /\ JA4IsOfItsFlight'
<1> USE DEF AnnotateInv
<1>1. FirstInitial'
  BY DEF FirstInitial
<1>2. JA4IsOfItsFlight'
  BY DEF JA4IsOfItsFlight
<1>3. HeldInv'
  <2>1. CASE held # Nothing
    <3>1. DirOrder[at] \in LabIDs
      BY <2>1 DEF HeldInv, LabIDs
    <3>2. DirOrder[at] \notin raced' => DirOrder[at] # id /\ DirOrder[at] \notin raced
      BY <2>1, <3>1 DEF UnderAnnotate
    <3> QED
      BY <2>1, <3>1, <3>2 DEF HeldInv
  <2>2. CASE held = Nothing
    BY <2>2 DEF HeldInv
  <2> QED
    BY <2>1, <2>2
<1> QED
  BY <1>1, <1>2, <1>3

LEMMA DialStep ==
  ASSUME AnnotateInv, NEW id \in LabIDs, Dial(id)
  PROVE  AnnotateInv'
<1> USE DEF AnnotateInv
<1>1. PICK k \in DOMAIN ClientsOf(id) :
        promotions' = {[p EXCEPT !.alone = @ /\ p.id # id] : p \in promotions} \cup
          {[id |-> id, flight |-> Flight(ClientsOf(id)[k], <<id, dials'>>), done |-> 0,
            alone |-> \A p \in promotions : p.id # id]}
  BY DEF Dial
<1> DEFINE f == Flight(ClientsOf(id)[k], <<id, dials'>>)
           new == [id |-> id, flight |-> f, done |-> 0, alone |-> \A p \in promotions : p.id # id]
           met(p) == [p EXCEPT !.alone = @ /\ p.id # id]
<1>2. dials' \in Nat /\ f.n \in Dials /\ f.count \in Nat \ {0}
  <2>1. dials' \in Nat /\ <<id, dials'>> \in Dials
    BY DEF Dial, LabTyped, Dials
  <2> QED
    BY <2>1, ClientAssumption DEF Flight
<1>3. promotions' = {met(p) : p \in promotions} \cup {new}
  BY <1>1
<1> HIDE DEF f
<1>4. PromotionTyped(new) /\ new.id = id /\ new.done = 0 /\ (new.alone <=> \A p \in promotions : p.id # id)
  BY <1>2 DEF PromotionTyped
<1> HIDE DEF new
<1>5. \A p \in promotions :
        /\ PromotionTyped(met(p)) /\ met(p).id = p.id /\ met(p).done = p.done /\ met(p).flight = p.flight
        /\ met(p).alone <=> p.alone /\ p.id # id
  BY DEF LabTyped, PromotionTyped
<1> HIDE DEF met
<1>6. /\ DOMAIN dirs' = LabIDs
      /\ \A x \in LabIDs \ {id} : dirs'[x] = dirs[x]
      /\ dirs'[id] = [dirs[id] EXCEPT !.exists = TRUE]
  BY DEF Dial, LabTyped
<1>7. DirTyped(dirs'[id]) /\ dirs'[id].bins = dirs[id].bins /\ dirs'[id].ja4 = dirs[id].ja4
      /\ dirs'[id].manifest = dirs[id].manifest
  BY <1>6 DEF LabTyped, DirTyped, Fields
<1>8. LabTyped'
  <2>1. \A x \in LabIDs : DirTyped(dirs'[x])
    BY <1>6, <1>7 DEF LabTyped
  <2>2. \A p \in promotions' : PromotionTyped(p)
    BY <1>3, <1>4, <1>5
  <2> QED
    BY <1>2, <1>6, <2>1, <2>2 DEF LabTyped, DirTyped, PromotionTyped
<1>9. PromotionsInv'
  <2>1. torn' = torn \cup {id}
    BY DEF Dial
  <2>2. \A p \in promotions' : p.id \in torn'
    BY <1>3, <1>4, <1>5, <2>1 DEF PromotionsInv
  <2>3. ASSUME NEW p \in promotions', p.alone, p.done >= 1
        PROVE  Begun(p)'
    <3>1. p # new
      BY <1>4, <2>3
    <3>2. PICK q \in promotions : p = met(q)
      BY <1>3, <3>1
    <3>3. q.alone /\ q.id # id /\ q.done >= 1 /\ p.id = q.id /\ p.flight = q.flight /\ q.id \in LabIDs
      BY <1>5, <2>3, <3>2 DEF LabTyped, PromotionTyped
    <3>4. Begun(q)
      BY <3>3 DEF PromotionsInv
    <3> QED
      BY <1>6, <3>3, <3>4 DEF Begun
  <2>4. ASSUME NEW p \in promotions', NEW q \in promotions', p.alone, p.id = q.id
        PROVE  p = q
    <3>1. CASE p = new
      BY <1>3, <1>4, <1>5, <2>4, <3>1
    <3>2. CASE p # new
      <4>1. PICK p0 \in promotions : p = met(p0)
        BY <1>3, <3>2
      <4>2. p0.alone /\ p0.id # id /\ p0.id = q.id
        BY <1>5, <2>4, <4>1
      <4>3. PICK q0 \in promotions : q = met(q0)
        BY <1>3, <1>4, <4>2
      <4>4. p0 = q0
        BY <1>5, <4>2, <4>3 DEF PromotionsInv
      <4> QED
        BY <4>1, <4>3, <4>4
    <3> QED
      BY <3>1, <3>2
  <2> QED
    BY <2>2, <2>3, <2>4 DEF PromotionsInv
<1>10. FirstInitial' /\ HeldInv' /\ JA4IsOfItsFlight'
  <2>1. /\ UNCHANGED <<held, at>> /\ torn' = torn \cup {id} /\ raced \subseteq raced'
        /\ UnderAnnotate(id) => id \in raced'
    BY DEF Dial, work
  <2>2. id \notin raced /\ dirs[id].ja4 # NoFlight.n => dirs[id].ja4 = dirs[id].manifest.n
    BY DEF JA4IsOfItsFlight
  <2> QED
    BY <1>6, <1>7, <2>1, <2>2, ElsewhereKept
<1> QED
  BY <1>8, <1>9, <1>10

\* A promotion that went on to its next file, or is no longer under way.
LEMMA PromotionsKept ==
  ASSUME AnnotateInv, NEW p \in promotions, DOMAIN dirs' = LabIDs,
         \A x \in LabIDs \ {p.id} : dirs'[x] = dirs[x], DirTyped(dirs'[p.id]), dials' = dials,
         \/ /\ Advance(p) /\ FileAt(p) # "profile" /\ torn' = torn
            /\ p.alone => dirs'[p.id].bins # <<>> /\ dirs'[p.id].bins[1].n = p.flight.n
         \/ /\ promotions' = promotions \ {p}
            /\ torn' = torn \/ (p.alone /\ torn' = torn \ {p.id})
  PROVE  LabTyped' /\ PromotionsInv'
<1> USE DEF AnnotateInv
<1> DEFINE next == [p EXCEPT !.done = @ + 1]
<1>1. PromotionTyped(p)
  BY DEF LabTyped
<1>2. /\ next.id = p.id /\ next.flight = p.flight /\ next.alone = p.alone /\ next.done = p.done + 1
      /\ DOMAIN next = DOMAIN p
  BY <1>1 DEF PromotionTyped
<1>3. FileAt(p) # "profile" => PromotionTyped(next)
  <2>1. FileAt(p) # "profile" => p.done + 1 <= p.flight.count + 4
    BY <1>1, FilesInOrder
  <2> HIDE DEF next
  <2> QED
    BY <1>1, <1>2, <2>1 DEF PromotionTyped
<1>4. ASSUME NEW q \in promotions, q # p
      PROVE  /\ q.alone => q.id # p.id /\ dirs'[q.id] = dirs[q.id]
             /\ p.alone => q.id # p.id
             /\ q.id \in torn'
  <2>1. q.id \in LabIDs
    BY DEF LabTyped, PromotionTyped
  <2>2. (q.alone \/ p.alone) => q.id # p.id
    BY <1>4 DEF PromotionsInv
  <2> QED
    BY <2>1, <2>2 DEF PromotionsInv
<1>5. CASE Advance(p) /\ FileAt(p) # "profile" /\ torn' = torn
           /\ (p.alone => dirs'[p.id].bins # <<>> /\ dirs'[p.id].bins[1].n = p.flight.n)
  <2>1. promotions' = (promotions \ {p}) \cup {next}
    BY <1>5 DEF Advance
  <2> HIDE DEF next
  <2>2. LabTyped'
    BY <1>3, <1>5, <2>1 DEF LabTyped, DirTyped, PromotionTyped
  <2>3. \A q \in promotions' : q.id \in torn'
    BY <1>2, <1>4, <1>5, <2>1 DEF PromotionsInv
  <2>4. ASSUME NEW q \in promotions', q.alone, q.done >= 1 PROVE Begun(q)'
    <3>1. CASE q = next
      BY <1>2, <1>5, <2>4, <3>1 DEF Begun
    <3>2. CASE q # next
      <4>1. q \in promotions /\ q # p
        BY <2>1, <3>2
      <4>2. Begun(q) /\ dirs'[q.id] = dirs[q.id]
        BY <1>4, <2>4, <4>1 DEF PromotionsInv
      <4> QED
        BY <4>2 DEF Begun
    <3> QED
      BY <3>1, <3>2
  <2>5. ASSUME NEW q \in promotions', NEW r \in promotions', q.alone, q.id = r.id PROVE q = r
    BY <1>2, <1>4, <2>1, <2>5 DEF PromotionsInv
  <2> QED
    BY <2>2, <2>3, <2>4, <2>5 DEF PromotionsInv
<1>6. CASE promotions' = promotions \ {p} /\ (torn' = torn \/ (p.alone /\ torn' = torn \ {p.id}))
  <2>1. LabTyped'
    BY <1>6 DEF LabTyped, DirTyped, PromotionTyped
  <2>2. ASSUME NEW q \in promotions', q.alone, q.done >= 1 PROVE Begun(q)'
    <3>1. Begun(q) /\ dirs'[q.id] = dirs[q.id]
      BY <1>4, <1>6, <2>2 DEF PromotionsInv
    <3> QED
      BY <3>1 DEF Begun
  <2>3. \A q \in promotions' : q.id \in torn'
    BY <1>4, <1>6
  <2>4. ASSUME NEW q \in promotions', NEW r \in promotions', q.alone, q.id = r.id PROVE q = r
    BY <1>6, <2>4 DEF PromotionsInv
  <2> QED
    BY <2>1, <2>2, <2>3, <2>4 DEF PromotionsInv
<1> QED
  BY <1>5, <1>6

LEMMA WriteStep ==
  ASSUME AnnotateInv, NEW p \in promotions, Write(p)
  PROVE  AnnotateInv'
<1> USE DEF AnnotateInv
<1> DEFINE id == p.id dir == dirs[p.id] new == WithFile(dirs[p.id], p, p.flight)
<1>1. PromotionTyped(p) /\ id \in LabIDs /\ DirTyped(dir) /\ id \in torn
  BY DEF LabTyped, PromotionTyped, PromotionsInv
<1>2. p.flight.n \in Dials \cup {Broken.n} /\ p.flight.count \in Nat
  BY <1>1 DEF PromotionTyped
<1>3. /\ DOMAIN dirs' = LabIDs /\ dirs'[id] = new
      /\ \A x \in LabIDs \ {id} : dirs'[x] = dirs[x]
  BY <1>1 DEF Write, LabTyped
<1>4. /\ DirTyped(new)
      /\ FileAt(p) # "initial" => new.bins = dir.bins
      /\ FileAt(p) = "initial" /\ p.done = 0 => new.bins # <<>> /\ new.bins[1].n = p.flight.n
      /\ FileAt(p) = "initial" /\ p.done >= 1 /\ dir.bins # <<>> =>
           new.bins # <<>> /\ new.bins[1] = dir.bins[1]
      /\ FileAt(p) # "profile" => new.manifest = dir.manifest /\ new.ja4 = dir.ja4
      /\ FileAt(p) = "profile" => new.manifest = p.flight /\ new.ja4 = NoFlight.n
  <2>1. Written(dir, p, p.flight, new)
    BY <1>1, <1>2, FileWritten
  <2> HIDE DEF new, dir
  <2> QED
    BY <2>1 DEF Written
<1>5. p.alone => new.bins # <<>> /\ new.bins[1].n = p.flight.n
  <2>1. p.alone /\ p.done >= 1 => dir.bins # <<>> /\ dir.bins[1].n = p.flight.n
    BY DEF PromotionsInv, Begun
  <2>2. FileAt(p) # "initial" => p.done >= 1
    BY <1>1, FilesInOrder
  <2>3. p.done = 0 \/ p.done >= 1
    BY <1>1 DEF PromotionTyped
  <2> HIDE DEF new, dir
  <2> QED
    BY <1>4, <2>1, <2>2, <2>3
<1> HIDE DEF id, dir, new
<1>6. LabTyped' /\ PromotionsInv'
  <2>1. dials' = dials
    BY DEF Write
  <2>2. \/ Advance(p) /\ FileAt(p) # "profile" /\ torn' = torn
        \/ promotions' = promotions \ {p} /\ (torn' = torn \/ (p.alone /\ torn' = torn \ {id}))
    BY DEF Write, id
  <2> QED
    BY <1>3, <1>4, <1>5, <2>1, <2>2, PromotionsKept DEF id
<1>7. /\ UNCHANGED <<held, at>> /\ raced \ {id} \subseteq raced' /\ torn' \subseteq torn /\ torn \ {id} \subseteq torn'
      /\ UnderAnnotate(id) => id \in raced'
      /\ id \in torn' \/ (p.alone /\ FileAt(p) = "profile")
      /\ FileAt(p) # "profile" => raced \subseteq raced'
  BY <1>1 DEF Write, work, id
<1>8. id \notin torn' => OfOneFlight(new)
  BY <1>4, <1>5, <1>7 DEF OfOneFlight
<1>9. id \notin raced /\ dir.ja4 # NoFlight.n => dir.ja4 = dir.manifest.n
  BY <1>1 DEF JA4IsOfItsFlight, dir, id
<1>10. id \notin raced' /\ new.ja4 # NoFlight.n => new.ja4 = new.manifest.n
  BY <1>4, <1>7, <1>9
<1> QED
  BY <1>1, <1>3, <1>6, <1>7, <1>8, <1>10, ElsewhereKept

LEMMA NotWrittenStep ==
  ASSUME AnnotateInv, NEW p \in promotions, WriteFails(p) \/ WritesOver(p) \/ BreaksOff(p)
  PROVE  AnnotateInv'
<1> USE DEF AnnotateInv
<1> DEFINE id == p.id dir == dirs[p.id]
<1>1. PromotionTyped(p) /\ id \in LabIDs /\ DirTyped(dir) /\ id \in torn
  BY DEF LabTyped, PromotionTyped, PromotionsInv
<1>2. Broken.n \in Dials \cup {Broken.n} /\ Broken.count \in Nat
  BY DEF Broken, NoFlight
<1>3. /\ DOMAIN dirs' = LabIDs /\ dirs'[id] \in {dir, WithFile(dir, p, Broken)}
      /\ \A x \in LabIDs \ {id} : dirs'[x] = dirs[x]
  BY <1>1 DEF WriteFails, WritesOver, BreaksOff, NotWritten, LabTyped
<1>4. /\ DirTyped(dirs'[id])
      /\ FileAt(p) # "initial" => dirs'[id].bins = dir.bins
      /\ \/ dirs'[id].manifest = dir.manifest /\ dirs'[id].ja4 = dir.ja4
         \/ dirs'[id].ja4 = NoFlight.n
  <2> HIDE DEF id, dir
  <2>1. CASE dirs'[id] = dir
    BY <1>1, <2>1
  <2>2. CASE dirs'[id] = WithFile(dir, p, Broken)
    <3>1. Written(dir, p, Broken, dirs'[id])
      BY <1>1, <1>2, <2>2, FileWritten
    <3> QED
      BY <3>1 DEF Written
  <2> QED
    BY <1>3, <2>1, <2>2
<1>5. UNCHANGED <<torn, held, at, dials>> /\ raced \subseteq raced' /\ (UnderAnnotate(id) => id \in raced')
  BY DEF WriteFails, WritesOver, BreaksOff, NotWritten, work
<1> HIDE DEF id, dir
<1>6. LabTyped' /\ PromotionsInv'
  <2>1. CASE WriteFails(p) \/ WritesOver(p)
    <3>1. Advance(p) /\ FileAt(p) # "profile" /\ (p.alone => FileAt(p) # "initial")
      BY <2>1 DEF WriteFails, WritesOver, Ignored
    <3>2. p.alone => dirs'[id].bins # <<>> /\ dirs'[id].bins[1].n = p.flight.n
      <4>1. p.alone => p.done >= 1
        BY <1>1, <3>1, FilesInOrder
      <4>2. p.alone => dir.bins # <<>> /\ dir.bins[1].n = p.flight.n
        BY <4>1 DEF PromotionsInv, Begun, dir
      <4> QED
        BY <1>4, <3>1, <4>2
    <3> QED
      BY <1>3, <1>4, <1>5, <3>1, <3>2, PromotionsKept DEF id
  <2>2. CASE BreaksOff(p)
    BY <1>3, <1>4, <1>5, <2>2, PromotionsKept DEF id, BreaksOff
  <2> QED
    BY <2>1, <2>2
<1>7. id \notin raced /\ dir.ja4 # NoFlight.n => dir.ja4 = dir.manifest.n
  BY <1>1 DEF JA4IsOfItsFlight, dir, id
<1> QED
  BY <1>1, <1>3, <1>4, <1>5, <1>6, <1>7, ElsewhereKept

\* annotate writes a profile, or breaks off doing so.
LEMMA AnnotateWritesStep ==
  ASSUME AnnotateInv, AnnotateWrites \/ AnnotateBreaksOff
  PROVE  AnnotateInv'
<1> USE DEF AnnotateInv
<1> DEFINE id == DirOrder[at]
<1>1. /\ held # Nothing /\ held.manifest # NoFlight /\ held' = Nothing
      /\ UNCHANGED <<raced, torn, promotions, dials>>
  BY DEF AnnotateWrites, AnnotateBreaksOff, End, lab
<1>2. id \in LabIDs
  BY <1>1 DEF HeldInv, LabIDs
<1>3. /\ DOMAIN dirs' = LabIDs
      /\ \A x \in LabIDs \ {id} : dirs'[x] = dirs[x]
      /\ \/ dirs'[id] = [dirs[id] EXCEPT !.manifest = held.manifest, !.ja4 = held.ja4]
         \/ dirs'[id] = [dirs[id] EXCEPT !.manifest = Broken, !.ja4 = NoFlight.n]
  BY <1>2 DEF AnnotateWrites, AnnotateBreaksOff, LabTyped
<1> HIDE DEF id
<1>4. /\ DOMAIN dirs'[id] = Fields /\ dirs'[id].bins = dirs[id].bins
      /\ \/ dirs'[id].manifest = held.manifest /\ dirs'[id].ja4 = held.ja4
         \/ dirs'[id].manifest = Broken /\ dirs'[id].ja4 = NoFlight.n
  BY <1>2, <1>3 DEF LabTyped, DirTyped, Fields
<1>5. LabTyped'
  BY <1>1, <1>2, <1>3, <1>4 DEF LabTyped, DirTyped, PromotionTyped
<1>6. PromotionsInv'
  <2>1. \A x \in LabIDs : dirs'[x].bins = dirs[x].bins
    BY <1>3, <1>4
  <2>2. \A p \in promotions : p.id \in LabIDs
    BY DEF LabTyped, PromotionTyped
  <2> QED
    BY <1>1, <2>1, <2>2 DEF PromotionsInv, Begun
<1>7. id \notin raced =>
        id \notin torn /\ held.manifest = dirs[id].manifest /\ held.ja4 = dirs[id].manifest.n
  BY <1>1 DEF HeldInv, id
<1>8. FirstInitial'
  <2> SUFFICES ASSUME NEW x \in LabIDs \ (torn \cup raced) PROVE OfOneFlight(dirs'[x])
    BY <1>1 DEF FirstInitial
  <2>1. CASE x = id
    BY <1>4, <1>7, <2>1 DEF FirstInitial, OfOneFlight
  <2>2. CASE x # id
    BY <1>3, <2>2 DEF FirstInitial
  <2> QED
    BY <2>1, <2>2
<1>9. JA4IsOfItsFlight'
  <2> SUFFICES ASSUME NEW x \in LabIDs \ raced, dirs'[x].ja4 # NoFlight.n
               PROVE  dirs'[x].ja4 = dirs'[x].manifest.n
    BY <1>1 DEF JA4IsOfItsFlight
  <2>1. CASE x = id
    BY <1>4, <1>7, <2>1
  <2>2. CASE x # id
    BY <1>3, <2>2 DEF JA4IsOfItsFlight
  <2> QED
    BY <2>1, <2>2
<1> QED
  BY <1>1, <1>5, <1>6, <1>8, <1>9 DEF HeldInv

\* A step that changes no directory, and leaves annotate what it holds, or nothing.
LEMMA LabKept ==
  ASSUME AnnotateInv, UNCHANGED <<dirs, promotions, torn, dials>>, raced \subseteq raced'
  PROVE  LabTyped' /\ PromotionsInv' /\ FirstInitial' /\ JA4IsOfItsFlight'
<1> USE DEF AnnotateInv
<1>1. LabTyped'
  BY DEF LabTyped, DirTyped, PromotionTyped
<1>2. PromotionsInv'
  BY DEF PromotionsInv, Begun
<1>3. FirstInitial' /\ JA4IsOfItsFlight'
  BY DEF FirstInitial, JA4IsOfItsFlight
<1> QED
  BY <1>1, <1>2, <1>3

LEMMA AnnotateStep == ScriptsInv /\ AnnotateInv /\ [Next]_vars => AnnotateInv'
<1> SUFFICES ASSUME ScriptsInv, AnnotateInv, [Next]_vars PROVE AnnotateInv'
  OBVIOUS
<1> USE DEF AnnotateInv
<1>1. CASE \E id \in LabIDs : Dial(id)
  BY <1>1, DialStep
<1>2. CASE Promoting
  BY <1>2, WriteStep, NotWrittenStep DEF Promoting
<1>3. CASE AnnotateInitials
  <2>1. UNCHANGED <<dirs, promotions, torn, dials>> /\ raced \subseteq raced'
    BY <1>3 DEF AnnotateInitials, lab
  <2>2. LabTyped' /\ PromotionsInv' /\ FirstInitial' /\ JA4IsOfItsFlight'
    BY <2>1, LabKept
  <2>3. held = Nothing /\ at \in DOMAIN DirOrder
    BY <1>3 DEF AnnotateInitials
  <2> DEFINE id == DirOrder[at]
  <2>4. CASE Unannotated(id)
    BY <1>3, <2>2, <2>3, <2>4 DEF AnnotateInitials, HeldInv
  <2>5. CASE ~Unannotated(id)
    <3>1. /\ held' = [ja4 |-> JA4FromInitials(dirs[id].bins), manifest |-> NoFlight] /\ at' = at
          /\ id \in torn => id \in raced'
      BY <1>3, <2>5 DEF AnnotateInitials
    <3>2. id \in LabIDs
      BY <2>3 DEF LabIDs
    <3>3. JA4FromInitials(dirs[id].bins) # NoFlight.n
      BY <2>5 DEF Unannotated
    <3>4. dirs[id].bins # <<>> /\ JA4FromInitials(dirs[id].bins) = dirs[id].bins[1].n
      BY <3>2, <3>3, JA4IsOfTheFirstInitial DEF LabTyped, DirTyped
    <3>5. id \notin raced' =>
            id \notin torn /\ (dirs[id].manifest = Broken \/ JA4FromInitials(dirs[id].bins) = dirs[id].manifest.n)
      BY <2>1, <3>1, <3>2, <3>4 DEF FirstInitial, OfOneFlight
    <3>6. HeldInv'
      <4>1. /\ DOMAIN held' = {"ja4", "manifest"} /\ held'.manifest = NoFlight
            /\ held'.ja4 = JA4FromInitials(dirs[id].bins)
        BY <3>1
      <4> QED
        BY <2>1, <2>3, <3>1, <3>5, <4>1 DEF HeldInv
    <3> QED
      BY <2>2, <3>6
  <2> QED
    BY <2>4, <2>5
<1>4. CASE AnnotateReads
  <2>1. held # Nothing /\ UNCHANGED <<dirs, promotions, torn, dials, raced>>
    BY <1>4 DEF AnnotateReads, lab
  <2>2. LabTyped' /\ PromotionsInv' /\ FirstInitial' /\ JA4IsOfItsFlight'
    BY <2>1, LabKept
  <2> DEFINE manifest == dirs[DirOrder[at]].manifest
  <2>3. CASE manifest = Broken
    BY <1>4, <2>2, <2>3 DEF AnnotateReads, End, HeldInv
  <2>4. CASE manifest # Broken
    <3>1. held' = [held EXCEPT !.manifest = manifest] /\ at' = at
      BY <1>4, <2>4 DEF AnnotateReads
    <3>2. DOMAIN held' = {"ja4", "manifest"} /\ held'.ja4 = held.ja4 /\ held'.manifest = manifest
      BY <2>1, <3>1 DEF HeldInv
    <3> QED
      BY <2>1, <2>2, <2>4, <3>1, <3>2 DEF HeldInv
  <2> QED
    BY <2>3, <2>4
<1>5. CASE AnnotateWrites \/ AnnotateBreaksOff
  BY <1>5, AnnotateWritesStep
<1>6. ASSUME UNCHANGED <<dirs, promotions, torn, dials, raced>>,
             held' = Nothing \/ UNCHANGED <<held, at>>
      PROVE  AnnotateInv'
  BY <1>6, LabKept DEF HeldInv
<1>7. CASE \/ \E s \in {"annotate", "extract", "experiment"} : Start(s, FALSE)
           \/ \E all \in BOOLEAN : Start("match", all)
  <2>1. PICK s \in {"annotate", "extract", "match", "experiment"}, opt \in BOOLEAN : Start(s, opt)
    BY <1>7
  <2>2. script = "idle" /\ UNCHANGED <<dirs, promotions, torn, dials, raced, held>>
    BY <2>1 DEF Start, lab
  <2>3. held' = Nothing
    BY <2>2 DEF ScriptsInv
  <2> QED
    BY <1>6, <2>2, <2>3
<1>8. CASE AnnotateEnds \/ ExtractDir \/ ExtractEnds \/ MatchDir \/ MatchEnds \/ Experiment \/ ExperimentEnds
  <2>1. UNCHANGED <<dirs, promotions, torn, dials, raced>>
    BY <1>8 DEF AnnotateEnds, ExtractDir, ExtractEnds, MatchDir, MatchEnds, Experiment, ExperimentEnds, lab
  <2>2. AnnotateEnds => held' = Nothing
    BY DEF AnnotateEnds, End
  <2>3. held' \in {held, Nothing}
    BY <1>8 DEF AnnotateEnds, ExtractDir, ExtractEnds, MatchDir, MatchEnds, Experiment, ExperimentEnds, End
  <2>4. ~AnnotateEnds => held = Nothing
    BY <1>8 DEF ExtractDir, ExtractEnds, MatchDir, MatchEnds, Experiment, ExperimentEnds, ScriptsInv
  <2> QED
    BY <1>6, <2>1, <2>2, <2>3, <2>4
<1>9. CASE UNCHANGED vars
  BY <1>6, <1>9 DEF vars, work, lab
<1> QED
  BY <1>1, <1>2, <1>3, <1>4, <1>5, <1>7, <1>8, <1>9 DEF Next, Promoting

\* An annotated profile expects the JA4 of its own flight, for any clients, flights
\* of any lengths and any order of scripts and promotions, which may fail, be killed
\* and overlap at every file, unless annotate came to a directory left like that, or
\* that was promoted while it was there (annotate_ja4.py:25-62,
\* capture/main.go:213-217, 352).
THEOREM AnnotatedJA4IsOfItsFlight == Spec => []JA4IsOfItsFlight
<1>1. Init => GateInv /\ AnnotateInv
  BY GateInit, AnnotateInit
<1>2. GateInv /\ AnnotateInv /\ [Next]_vars => GateInv' /\ AnnotateInv'
  BY GateStep, AnnotateStep DEF GateInv
<1>3. AnnotateInv => JA4IsOfItsFlight
  BY DEF AnnotateInv
<1> QED
  BY <1>1, <1>2, <1>3, PTL DEF Spec

-----------------------------------------------------------------------------
(* compare_structural.py and the matcher                                   *)

\* What score_match rejects does not depend on an observation's name, family and
\* datagrams, and neither does the short classify finds.
LEMMA SameShort ==
  ASSUME NEW a, NEW b, a.tp = b.tp, a.markers = b.markers, a.scid = b.scid
  PROVE  Classify(a, Catalog).short = Classify(b, Catalog).short
<1>1. \A doc : Rejected(a, doc) <=> Rejected(b, doc)
  BY DEF Rejected
<1>2. CASE \E c \in DOMAIN Catalog : ~Rejected(a, Catalog[c])
  <2>1. PICK c \in DOMAIN Catalog : ~Rejected(a, Catalog[c])
    BY <1>2
  <2>2. ~Rejected(b, Catalog[c])
    BY <1>1, <2>1
  <2> QED
    BY <2>1, <2>2, OnlyCandidate
<1>3. CASE \A c \in DOMAIN Catalog : Rejected(a, Catalog[c])
  <2>1. Candidates(a, Catalog) = {} /\ Candidates(b, Catalog) = {}
    BY <1>1, <1>3, ScoreOfAccepted DEF Candidates
  <2> QED
    BY <2>1 DEF Classify
<1> QED
  BY <1>2, <1>3

\* What compare_structural keeps of the ids as they are written is enough to
\* normalize them.
LEMMA StructureTellsTP ==
  ASSUME NEW dir
  PROVE  TPSet(dir.manifest.tokens) = {NormID(t) : t \in Structure(dir).tp}
<1>1. \A t : NormID(StructuralToken(t)) = NormID(t)
  BY DEF NormID, StructuralToken, Token
<1>2. Structure(dir).tp = {StructuralToken(t) : t \in dir.manifest.tokens}
  BY DEF Structure
<1> QED
  BY <1>1, <1>2 DEF TPSet

\* Directories of one structure and one source connection id length match one
\* short, however their ids are written and whatever they are called
\* (compare_structural.py:10-35, match_utls_catalog.py:31-98).
THEOREM EqualStructureIsOneIdentity == Spec => []ParityIsIdentity
<1>1. ParityIsIdentity
  <2> SUFFICES ASSUME NEW a \in LabIDs, NEW b \in LabIDs \ {a},
                      StructuralMatch(dirs[a], dirs[b]), Obs(a).scid = Obs(b).scid
               PROVE  Classify(Obs(a), Catalog).short = Classify(Obs(b), Catalog).short
    BY DEF ParityIsIdentity
  <2>1. TPSet(dirs[a].manifest.tokens) = TPSet(dirs[b].manifest.tokens)
    BY StructureTellsTP DEF StructuralMatch
  <2>2. Obs(a).tp = Obs(b).tp /\ Obs(a).markers = Obs(b).markers
    BY <2>1 DEF Obs, Observation
  <2> QED
    BY <2>2, SameShort
<1> QED
  BY <1>1, PTL

-----------------------------------------------------------------------------
(* What can be dialed                                                      *)

Dialable == {Chrome, QuicGo, QuicGoDatagram}

\* Whatever else is in the catalog is an observation or a preset of uquic.
LEMMA OthersAreNotDialed ==
  ASSUME NEW doc \in Docs, doc \notin Dialable
  PROVE  doc.status # "emit_ready" /\ FromProfileExit(doc) # 0
<1> DEFINE refused(d) == \/ d.status = "observation_only"
                         \/ d.status = "experimental" /\ d.emit.kind = "uquic_preset"
<1>1. refused(AioQuic) /\ refused(ChromiumStale) /\ refused(CurlQuiche) /\ refused(Firefox)
  BY DEF AioQuic, ChromiumStale, CurlQuiche, Firefox, Profile
<1>2. refused(UquicChrome115) /\ refused(UquicChrome146) /\ refused(UquicFirefox116)
  BY DEF UquicChrome115, UquicChrome146, UquicFirefox116, Profile, Emit
<1>3. refused(Yandex)
  BY DEF Yandex, Profile
<1>4. doc \in {AioQuic, Chrome, ChromiumStale, CurlQuiche, Firefox, QuicGoDatagram, QuicGo,
               UquicChrome115, UquicChrome146, UquicFirefox116, Yandex}
  <2>1. /\ Catalog[1] = AioQuic /\ Catalog[2] = Chrome /\ Catalog[3] = ChromiumStale
        /\ Catalog[4] = CurlQuiche /\ Catalog[5] = Firefox /\ Catalog[6] = QuicGoDatagram
        /\ Catalog[7] = QuicGo /\ Catalog[8] = UquicChrome115 /\ Catalog[9] = UquicChrome146
        /\ Catalog[10] = UquicFirefox116 /\ Catalog[11] = Yandex
    BY DEF Catalog, SortedCatalog
  <2>2. PICK i \in 1 .. 11 : doc = Catalog[i]
    BY ShortsAreKeys DEF Docs
  <2>3. \/ i = 1 \/ i = 2 \/ i = 3 \/ i = 4 \/ i = 5 \/ i = 6
        \/ i = 7 \/ i = 8 \/ i = 9 \/ i = 10 \/ i = 11
    BY <2>2
  <2> HIDE DEF refused
  <2> QED
    BY <2>1, <2>2, <2>3
<1>5. refused(doc)
  <2> HIDE DEF refused
  <2> QED
    BY <1>1, <1>2, <1>3, <1>4 DEF Dialable
<1> QED
  BY <1>5 DEF FromProfileExit

\* Doc finds an entry by its short.
LEMMA DocOfShort ==
  ASSUME NEW doc \in Docs
  PROVE  Doc(doc.short) = doc
<1>1. \A d \in Docs : d.short = doc.short => d = doc
  BY ShortsAreKeys DEF Docs
<1> QED
  BY <1>1 DEF Doc

-----------------------------------------------------------------------------
(* The live experiment                                                     *)

\* An engine sends the ids and the length its entry pins, GREASE among them.
SendsIdentity(doc) ==
  LET c == EngineClient(doc.emit.engine) IN
  /\ TPSet(c.tokens) = doc.identity.tp
  /\ MarkersFromTP(doc.identity.tp) = doc.identity.markers
  /\ doc.identity.scid = None \/ (doc.identity.scid = 0 /\ c.scid = 0 /\ "0x3128" \in doc.identity.markers)

LEMMA EnginesSendIdentities == \A doc \in Dialable : SendsIdentity(doc)
<1>1. ASSUME NEW ids PROVE TPSet({Token("hex", id) : id \in ids}) = ids
  <2> DEFINE tokens == {Token("hex", id) : id \in ids}
  <2>1. \A id : NormID(Token("hex", id)) = id
    BY DEF NormID, Token
  <2>2. ASSUME NEW x \in TPSet(tokens) PROVE x \in ids
    BY <2>1 DEF TPSet
  <2>3. ASSUME NEW x \in ids PROVE x \in TPSet(tokens)
    <3>1. Token("hex", x) \in tokens
      OBVIOUS
    <3> HIDE DEF tokens
    <3> QED
      BY <2>1, <3>1 DEF TPSet
  <2> QED
    BY <2>2, <2>3
<1>2. ASSUME NEW engine
      PROVE  /\ TPSet(EngineClient(engine).tokens) =
                  CommonTP \cup {"0x3", "GREASE"}
                    \cup (IF engine.parrot THEN {"0x11", "0x3128"} ELSE {"0xb", "0xe"})
                    \cup (IF engine.datagrams THEN {"0x20"} ELSE {})
             /\ EngineClient(engine).scid = IF engine.zeroSCID \/ engine.parrot THEN 0 ELSE 4
  BY <1>1 DEF EngineClient
<1>3. SendsIdentity(Chrome)
  <2>1. Chrome.emit.engine = Engine(TRUE, TRUE, TRUE) /\ Chrome.identity.scid = 0
        /\ Chrome.identity.tp = CommonTP \cup {"0x3", "0x11", "GREASE", "0x20", "0x3128"}
        /\ Chrome.identity.markers = {"0x11", "0x3128", "0x20"}
    BY DEF Chrome, Profile, Identity, Emit
  <2> QED
    BY <1>2, <2>1 DEF SendsIdentity, Engine, MarkersFromTP, MarkerIDs, CommonTP
<1>4. SendsIdentity(QuicGo)
  <2>1. QuicGo.emit.engine = Engine(FALSE, FALSE, FALSE) /\ QuicGo.identity.scid = None
        /\ QuicGo.identity.tp = CommonTP \cup {"0x3", "0xb", "0xe", "GREASE"}
        /\ QuicGo.identity.markers = {}
    BY DEF QuicGo, Profile, Identity, Emit
  <2> QED
    BY <1>2, <2>1 DEF SendsIdentity, Engine, MarkersFromTP, MarkerIDs, CommonTP
<1>5. SendsIdentity(QuicGoDatagram)
  <2>1. QuicGoDatagram.emit.engine = Engine(FALSE, TRUE, FALSE) /\ QuicGoDatagram.identity.scid = None
        /\ QuicGoDatagram.identity.tp = CommonTP \cup {"0x3", "0xb", "0xe", "GREASE", "0x20"}
        /\ QuicGoDatagram.identity.markers = {"0x20"}
    BY DEF QuicGoDatagram, Profile, Identity, Emit
  <2> QED
    BY <1>2, <2>1 DEF SendsIdentity, Engine, MarkersFromTP, MarkerIDs, CommonTP
<1> QED
  BY <1>3, <1>4, <1>5 DEF Dialable

\* The one client of a live directory is that of the entry it is named after.
LEMMA LiveClient ==
  ASSUME NEW id \in DOMAIN LiveShort, NEW k \in DOMAIN ClientsOf(id)
  PROVE  /\ k = 1 /\ Doc(LiveShort[id]) \in Dialable /\ Doc(LiveShort[id]) \in Docs
         /\ Doc(LiveShort[id]).short = LiveShort[id]
         /\ ClientsOf(id)[k] = EngineClient(Doc(LiveShort[id]).emit.engine)
<1>1. PICK doc \in Docs : doc.short = LiveShort[id] /\ FromProfileExit(doc) = 0
  BY DEF ClientsOf
<1>2. ClientsOf(id) = <<EngineClient(Doc(LiveShort[id]).emit.engine)>>
  BY <1>1 DEF ClientsOf
<1>3. Doc(LiveShort[id]) = doc
  BY <1>1, DocOfShort
<1>4. doc \in Dialable
  BY <1>1, OthersAreNotDialed
<1> QED
  BY <1>1, <1>2, <1>3, <1>4

\* A flight is of the client of a live directory.
OfEngine(id, flight) ==
  LET doc == Doc(LiveShort[id]) IN
  /\ doc \in Dialable /\ doc \in Docs /\ doc.short = LiveShort[id]
  /\ flight.tokens = EngineClient(doc.emit.engine).tokens
  /\ flight.scid = EngineClient(doc.emit.engine).scid

\* What can be read in a live directory is of its client, and so is what a promotion
\* will write there and what annotate holds of it.
LiveDir(id, dir) ==
  /\ dir.profile /\ dir.manifest # Broken => OfEngine(id, dir.manifest)
  /\ dir.header \in {NoFlight, Broken} \/ OfEngine(id, dir.header)
LiveInv ==
  /\ \A id \in DOMAIN LiveShort : LiveDir(id, dirs[id])
  /\ \A p \in promotions : p.id \in DOMAIN LiveShort => OfEngine(p.id, p.flight)
  /\ held # Nothing => dirs[DirOrder[at]].profile
  /\ held # Nothing /\ held.manifest # NoFlight /\ DirOrder[at] \in DOMAIN LiveShort =>
       OfEngine(DirOrder[at], held.manifest)

LEMMA LiveFlight ==
  ASSUME NEW id \in DOMAIN LiveShort, NEW k \in DOMAIN ClientsOf(id), NEW n
  PROVE  OfEngine(id, Flight(ClientsOf(id)[k], n))
<1> DEFINE c == ClientsOf(id)[k]
<1>1. Flight(c, n).tokens = c.tokens /\ Flight(c, n).scid = c.scid
  BY DEF Flight
<1> HIDE DEF c
<1>2. c = EngineClient(Doc(LiveShort[id]).emit.engine)
  BY LiveClient DEF c
<1>3. OfEngine(id, Flight(c, n))
  BY <1>1, <1>2, LiveClient DEF OfEngine
<1> QED
  BY <1>3 DEF c

LEMMA LiveInit == Init => LiveInv
<1> SUFFICES ASSUME Init PROVE LiveInv
  OBVIOUS
<1>1. PICK which \in [LabIDs -> UNION {Initially[id] : id \in LabIDs}] :
        /\ \A id \in LabIDs : which[id] \in Initially[id]
        /\ dirs = [id \in LabIDs |-> Before(id, which[id])]
  BY DEF Init
<1>2. ASSUME NEW id \in DOMAIN LiveShort
      PROVE  LiveDir(id, dirs[id])
  <2>1. id \in LabIDs
    BY GateAssumption
  <2>2. dirs[id] = Before(id, which[id])
    BY <1>1, <2>1
  <2>3. CASE which[id] = 0
    <3>1. ~dirs[id].profile /\ dirs[id].header = NoFlight
      BY <2>2, <2>3 DEF Before, Absent
    <3> QED
      BY <3>1 DEF LiveDir
  <2>4. CASE which[id] # 0
    <3>1. which[id] \in DOMAIN ClientsOf(id)
      BY <1>1, <2>1, <2>4, ClientAssumption
    <3> DEFINE f == Flight(ClientsOf(id)[which[id]], <<id, 0>>)
    <3>2. OfEngine(id, f)
      BY <3>1, LiveFlight
    <3>3. dirs[id].manifest = f /\ dirs[id].header = f
      BY <2>2, <2>4 DEF Before
    <3> HIDE DEF f
    <3> QED
      BY <3>2, <3>3 DEF LiveDir
  <2> QED
    BY <2>3, <2>4
<1>3. promotions = {} /\ held = Nothing
  BY DEF Init
<1> QED
  BY <1>2, <1>3 DEF LiveInv

\* A step of a promotion: where it wrote, the directory is of the client again.
LEMMA LiveKept ==
  ASSUME AnnotateInv, LiveInv, NEW id \in LabIDs, UNCHANGED <<held, at>>,
         \A x \in LabIDs \ {id} : dirs'[x] = dirs[x],
         id \in DOMAIN LiveShort => LiveDir(id, dirs'[id]),
         dirs[id].profile => dirs'[id].profile,
         \A p \in promotions' : p.id \in DOMAIN LiveShort => OfEngine(p.id, p.flight)
  PROVE  LiveInv'
<1>1. DOMAIN LiveShort \subseteq LabIDs
  BY GateAssumption
<1>2. \A x \in DOMAIN LiveShort : LiveDir(x, dirs'[x])
  BY <1>1 DEF LiveInv
<1>3. held # Nothing => dirs'[DirOrder[at]].profile
  <2>1. held # Nothing => DirOrder[at] \in LabIDs
    BY DEF AnnotateInv, HeldInv, LabIDs
  <2> QED
    BY <2>1 DEF LiveInv
<1> QED
  BY <1>2, <1>3 DEF LiveInv, LiveDir, OfEngine

LEMMA LiveDial ==
  ASSUME AnnotateInv, LiveInv, NEW id \in LabIDs, Dial(id)
  PROVE  LiveInv'
<1>1. PICK k \in DOMAIN ClientsOf(id) :
        promotions' = {[p EXCEPT !.alone = @ /\ p.id # id] : p \in promotions} \cup
          {[id |-> id, flight |-> Flight(ClientsOf(id)[k], <<id, dials'>>), done |-> 0,
            alone |-> \A p \in promotions : p.id # id]}
  BY DEF Dial
<1> DEFINE f == Flight(ClientsOf(id)[k], <<id, dials'>>)
           new == [id |-> id, flight |-> f, done |-> 0, alone |-> \A p \in promotions : p.id # id]
           met(p) == [p EXCEPT !.alone = @ /\ p.id # id]
<1>2. id \in DOMAIN LiveShort => OfEngine(id, f)
  BY LiveFlight
<1> HIDE DEF f
<1>3. new.id = id /\ new.flight = f
  OBVIOUS
<1>4. \A p \in promotions : met(p).id = p.id /\ met(p).flight = p.flight
  BY DEF AnnotateInv, LabTyped, PromotionTyped
<1>5. promotions' = {met(p) : p \in promotions} \cup {new}
  BY <1>1 DEF f
<1> HIDE DEF new, met
<1>6. \A p \in promotions' : p.id \in DOMAIN LiveShort => OfEngine(p.id, p.flight)
  <2> SUFFICES ASSUME NEW p \in promotions', p.id \in DOMAIN LiveShort PROVE OfEngine(p.id, p.flight)
    OBVIOUS
  <2>1. CASE p = new
    BY <1>2, <1>3, <2>1
  <2>2. CASE p # new
    <3>1. PICK q \in promotions : p = met(q)
      BY <1>5, <2>2
    <3> QED
      BY <1>4, <3>1 DEF LiveInv
  <2> QED
    BY <2>1, <2>2
<1>7. /\ \A x \in LabIDs \ {id} : dirs'[x] = dirs[x]
      /\ dirs'[id].profile = dirs[id].profile /\ dirs'[id].manifest = dirs[id].manifest
      /\ dirs'[id].header = dirs[id].header
  BY DEF Dial, AnnotateInv, LabTyped, DirTyped
<1>8. id \in DOMAIN LiveShort => LiveDir(id, dirs'[id])
  BY <1>7 DEF LiveInv, LiveDir
<1>9. UNCHANGED <<held, at>>
  BY DEF Dial, work
<1> QED
  BY <1>6, <1>7, <1>8, <1>9, LiveKept

LEMMA LiveWrite ==
  ASSUME AnnotateInv, LiveInv, NEW p \in promotions,
         Write(p) \/ WriteFails(p) \/ WritesOver(p) \/ BreaksOff(p)
  PROVE  LiveInv'
<1> DEFINE id == p.id
<1>1. PromotionTyped(p) /\ id \in LabIDs /\ DirTyped(dirs[id]) /\ DOMAIN dirs = LabIDs
  BY DEF AnnotateInv, LabTyped, PromotionTyped
<1>2. PICK content \in {p.flight, Broken} :
        dirs' = dirs \/ dirs' = [dirs EXCEPT ![id] = WithFile(@, p, content)]
  BY DEF Write, WriteFails, WritesOver, BreaksOff, NotWritten
<1>3. content.n \in Dials \cup {Broken.n} /\ content.count \in Nat
  BY <1>1, <1>2 DEF PromotionTyped, Broken, NoFlight
<1>4. /\ \A x \in LabIDs \ {id} : dirs'[x] = dirs[x]
      /\ dirs'[id] \in {dirs[id], WithFile(dirs[id], p, content)}
  BY <1>1, <1>2
<1>5. id \in DOMAIN LiveShort => content = Broken \/ OfEngine(id, content)
  BY <1>2 DEF LiveInv
<1>6. Written(dirs[id], p, content, WithFile(dirs[id], p, content))
  BY <1>1, <1>3, FileWritten
<1> DEFINE new == dirs'[id]
<1>7. /\ \/ new.profile = dirs[id].profile /\ new.manifest = dirs[id].manifest
         \/ new.profile = TRUE /\ new.manifest = content
      /\ new.header \in {dirs[id].header, content}
  BY <1>4, <1>6 DEF Written
<1> HIDE DEF new
<1>8. id \in DOMAIN LiveShort => LiveDir(id, new)
  BY <1>5, <1>7 DEF LiveInv, LiveDir
<1>9. \A q \in promotions' : q.id \in DOMAIN LiveShort => OfEngine(q.id, q.flight)
  <2> DEFINE next == [p EXCEPT !.done = @ + 1]
  <2>1. next.id = p.id /\ next.flight = p.flight
    BY <1>1 DEF PromotionTyped
  <2>2. promotions' \subseteq promotions \cup {next}
    BY DEF Write, WriteFails, WritesOver, BreaksOff, Advance
  <2> HIDE DEF next
  <2> QED
    BY <2>1, <2>2 DEF LiveInv
<1>10. UNCHANGED <<held, at>>
  BY DEF Write, WriteFails, WritesOver, BreaksOff, NotWritten, work
<1>11. dirs[id].profile => new.profile
  BY <1>7
<1> QED
  BY <1>1, <1>4, <1>8, <1>9, <1>10, <1>11, LiveKept DEF new

LEMMA LiveAnnotateWrites ==
  ASSUME AnnotateInv, LiveInv, AnnotateWrites \/ AnnotateBreaksOff
  PROVE  LiveInv'
<1> DEFINE id == DirOrder[at]
<1>1. held # Nothing /\ held.manifest # NoFlight /\ held' = Nothing /\ UNCHANGED promotions
  BY DEF AnnotateWrites, AnnotateBreaksOff, End, lab
<1>2. id \in LabIDs /\ DOMAIN dirs = LabIDs /\ DirTyped(dirs[id])
  BY <1>1 DEF AnnotateInv, HeldInv, LabTyped, LabIDs
<1>3. /\ \A x \in LabIDs \ {id} : dirs'[x] = dirs[x]
      /\ \/ dirs'[id] = [dirs[id] EXCEPT !.manifest = held.manifest, !.ja4 = held.ja4]
         \/ dirs'[id] = [dirs[id] EXCEPT !.manifest = Broken, !.ja4 = NoFlight.n]
  BY <1>2 DEF AnnotateWrites, AnnotateBreaksOff
<1> HIDE DEF id
<1>4. /\ dirs'[id].manifest \in {held.manifest, Broken} /\ dirs'[id].header = dirs[id].header
  BY <1>2, <1>3 DEF DirTyped, Fields
<1>5. id \in DOMAIN LiveShort => LiveDir(id, dirs'[id])
  <2>1. id \in DOMAIN LiveShort => OfEngine(id, held.manifest)
    BY <1>1 DEF LiveInv, id
  <2> QED
    BY <1>4, <2>1 DEF LiveInv, LiveDir
<1>6. DOMAIN LiveShort \subseteq LabIDs
  BY GateAssumption
<1>7. \A x \in DOMAIN LiveShort : LiveDir(x, dirs'[x])
  BY <1>3, <1>5, <1>6 DEF LiveInv
<1> QED
  BY <1>1, <1>7 DEF LiveInv, LiveDir, OfEngine

LEMMA LiveStep == ScriptsInv /\ AnnotateInv /\ LiveInv /\ [Next]_vars => LiveInv'
<1> SUFFICES ASSUME ScriptsInv, AnnotateInv, LiveInv, [Next]_vars PROVE LiveInv'
  OBVIOUS
<1>1. CASE \E id \in LabIDs : Dial(id)
  BY <1>1, LiveDial
<1>2. CASE Promoting
  BY <1>2, LiveWrite DEF Promoting
<1>3. CASE AnnotateInitials
  <2>1. UNCHANGED <<dirs, promotions>> /\ held = Nothing /\ at \in DOMAIN DirOrder
    BY <1>3 DEF AnnotateInitials, lab
  <2>2. CASE Unannotated(DirOrder[at])
    BY <1>3, <2>1, <2>2 DEF AnnotateInitials, LiveInv, LiveDir, OfEngine
  <2>3. CASE ~Unannotated(DirOrder[at])
    <3>1. held' = [ja4 |-> JA4FromInitials(dirs[DirOrder[at]].bins), manifest |-> NoFlight] /\ at' = at
      BY <1>3, <2>3 DEF AnnotateInitials
    <3>2. held'.manifest = NoFlight /\ dirs[DirOrder[at]].profile
      BY <2>3, <3>1 DEF Unannotated
    <3> QED
      BY <2>1, <3>1, <3>2 DEF LiveInv, LiveDir, OfEngine
  <2> QED
    BY <2>2, <2>3
<1>4. CASE AnnotateReads
  <2>1. held # Nothing /\ UNCHANGED <<dirs, promotions>>
    BY <1>4 DEF AnnotateReads, lab
  <2> DEFINE manifest == dirs[DirOrder[at]].manifest
  <2>2. CASE manifest = Broken
    <3>1. held' = Nothing
      BY <1>4, <2>2 DEF AnnotateReads, End
    <3> QED
      BY <2>1, <3>1 DEF LiveInv, LiveDir, OfEngine
  <2>3. CASE manifest # Broken
    <3>1. held' = [held EXCEPT !.manifest = manifest] /\ at' = at
      BY <1>4, <2>3 DEF AnnotateReads
    <3>2. held'.manifest = manifest
      BY <2>1, <3>1 DEF AnnotateInv, HeldInv
    <3>3. DirOrder[at] \in DOMAIN LiveShort => OfEngine(DirOrder[at], manifest)
      BY <2>1, <2>3 DEF LiveInv, LiveDir
    <3> QED
      BY <2>1, <3>1, <3>2, <3>3 DEF LiveInv, LiveDir, OfEngine
  <2> QED
    BY <2>2, <2>3
<1>5. CASE AnnotateWrites \/ AnnotateBreaksOff
  BY <1>5, LiveAnnotateWrites
<1>6. ASSUME UNCHANGED <<dirs, promotions>>, held' = Nothing \/ UNCHANGED <<held, at>>
      PROVE  LiveInv'
  BY <1>6 DEF LiveInv, LiveDir, OfEngine
<1>7. CASE \/ \E s \in {"annotate", "extract", "experiment"} : Start(s, FALSE)
           \/ \E all \in BOOLEAN : Start("match", all)
  <2>1. PICK s \in {"annotate", "extract", "match", "experiment"}, opt \in BOOLEAN : Start(s, opt)
    BY <1>7
  <2>2. script = "idle" /\ UNCHANGED <<dirs, promotions, held>>
    BY <2>1 DEF Start, lab
  <2> QED
    BY <1>6, <2>2 DEF ScriptsInv
<1>8. CASE AnnotateEnds \/ ExtractDir \/ ExtractEnds \/ MatchDir \/ MatchEnds \/ Experiment \/ ExperimentEnds
  <2>1. UNCHANGED <<dirs, promotions>>
    BY <1>8 DEF AnnotateEnds, ExtractDir, ExtractEnds, MatchDir, MatchEnds, Experiment, ExperimentEnds, lab
  <2>2. AnnotateEnds => held' = Nothing
    BY DEF AnnotateEnds, End
  <2>3. held' \in {held, Nothing}
    BY <1>8 DEF AnnotateEnds, ExtractDir, ExtractEnds, MatchDir, MatchEnds, Experiment, ExperimentEnds, End
  <2>4. ~AnnotateEnds => held = Nothing
    BY <1>8 DEF ExtractDir, ExtractEnds, MatchDir, MatchEnds, Experiment, ExperimentEnds, ScriptsInv
  <2> QED
    BY <1>6, <2>1, <2>2, <2>3, <2>4
<1>9. CASE UNCHANGED vars
  BY <1>6, <1>9 DEF vars, work, lab
<1> QED
  BY <1>1, <1>2, <1>3, <1>4, <1>5, <1>7, <1>8, <1>9 DEF Next, Promoting

\* What the catalog calls emit_ready, emitted by fromprofile, captured, promoted
\* and read again, matches the short it was emitted from, whatever scripts and
\* promotions came between, annotate's included, and those that failed, were killed
\* or overlapped and left what can be read
\* (exp-stable-random.ps1, experiment_stable_random.py:367-384).
THEOREM EmittedComesBack == Spec => []LiveRoundTrip
<1>1. Init => GateInv /\ AnnotateInv /\ LiveInv
  BY GateInit, AnnotateInit, LiveInit
<1>2. GateInv /\ AnnotateInv /\ LiveInv /\ [Next]_vars => GateInv' /\ AnnotateInv' /\ LiveInv'
  BY GateStep, AnnotateStep, LiveStep DEF GateInv
<1>3. LiveInv => LiveRoundTrip
  <2> SUFFICES ASSUME LiveInv, NEW id \in DOMAIN LiveShort, Observable(id)
               PROVE  Classify(Obs(id), Catalog).short = LiveShort[id]
    BY DEF LiveRoundTrip
  <2> DEFINE doc == Doc(LiveShort[id])
  <2>1. /\ doc \in Dialable /\ doc \in Docs /\ doc.short = LiveShort[id]
        /\ dirs[id].manifest.tokens = EngineClient(doc.emit.engine).tokens
        /\ dirs[id].header = NoFlight \/ dirs[id].header.scid = EngineClient(doc.emit.engine).scid
    BY DEF LiveInv, LiveDir, OfEngine, Observable
  <2> HIDE DEF doc
  <2>2. SendsIdentity(doc)
    BY <2>1, EnginesSendIdentities
  <2>3. Obs(id).tp = doc.identity.tp /\ Obs(id).markers = doc.identity.markers
    BY <2>1, <2>2 DEF SendsIdentity, Obs, Observation
  <2>4. doc.identity.scid # None => doc.identity.scid = 0 /\ Obs(id).scid \in {0, None}
    <3>1. ASSUME doc.identity.scid # None PROVE Obs(id).scid \in {0, None}
      <4>1. Obs(id).scid = InferSCIDLen(Header(dirs[id].header), None, doc.identity.markers)
        BY <2>3 DEF Obs, Observation
      <4>2. CASE dirs[id].header = NoFlight
        <5>1. Header(dirs[id].header) = [source |-> None, dest |-> None]
          BY <4>2 DEF Header, NoFlight
        <5> QED
          BY <4>1, <5>1 DEF InferSCIDLen
      <4>3. CASE dirs[id].header # NoFlight
        <5>1. dirs[id].header.scid = 0 /\ "0x3128" \in doc.identity.markers
          BY <2>1, <2>2, <3>1, <4>3 DEF SendsIdentity
        <5>2. Header(dirs[id].header) = [source |-> None, dest |-> 8]
          BY <4>3, <5>1 DEF Header
        <5> QED
          BY <4>1, <5>1, <5>2 DEF InferSCIDLen, None
      <4> QED
        BY <4>2, <4>3
    <3> QED
      BY <2>2, <3>1 DEF SendsIdentity
  <2>5. ~Rejected(Obs(id), doc)
    BY <2>3, <2>4 DEF Rejected
  <2>6. PICK i \in DOMAIN Catalog : Catalog[i] = doc
    BY <2>1 DEF Docs
  <2> QED
    BY <2>1, <2>5, <2>6, OnlyCandidate
<1> QED
  BY <1>1, <1>2, <1>3, PTL DEF Spec

-----------------------------------------------------------------------------
(* Drafts                                                                  *)

\* Every draft was built of an observation.
DraftInv ==
  /\ DOMAIN drafts = LabIDs
  /\ \A id \in LabIDs : drafts[id] # NoDraft => \E obs : drafts[id] = BuildDraft(obs)

LEMMA DraftStep == DraftInv /\ [Next]_vars => DraftInv'
<1> SUFFICES ASSUME DraftInv, [Next]_vars PROVE DraftInv'
  OBVIOUS
<1>1. CASE ExtractDir
  <2> DEFINE id == DirOrder[at]
  <2>1. CASE UNCHANGED drafts
    BY <2>1 DEF DraftInv
  <2>2. CASE drafts' = [drafts EXCEPT ![id] = BuildDraft(Obs(id))]
    <3> HIDE DEF id
    <3> QED
      BY <2>2 DEF DraftInv
  <2> QED
    BY <1>1, <2>1, <2>2 DEF ExtractDir
<1>2. CASE UNCHANGED drafts
  BY <1>2 DEF DraftInv
<1>3. [Next]_vars => ExtractDir \/ UNCHANGED drafts
  BY DEF Next, vars, Dial, Write, WriteFails, WritesOver, BreaksOff, NotWritten, Start, AnnotateInitials,
         AnnotateReads, AnnotateWrites, AnnotateBreaksOff, AnnotateEnds, ExtractEnds, MatchDir, MatchEnds, Experiment, ExperimentEnds
<1> QED
  BY <1>1, <1>2, <1>3

\* A draft of what matches a dialable entry has that entry's name and engine.
LEMMA DraftIsDialable ==
  ASSUME NEW obs, NEW doc \in Dialable, obs.markers = doc.identity.markers
  PROVE  /\ BuildDraft(obs).short = doc.short
         /\ BuildDraft(obs).emit = doc.emit
         /\ IsDialable(BuildDraft(obs))
<1>1. /\ BuildDraft(obs).short = InferEmit(obs).short
      /\ BuildDraft(obs).emit = InferEmit(obs).emit
      /\ BuildDraft(obs).status = InferEmit(obs).status
  BY DEF BuildDraft, Profile
<1>2. CASE doc = Chrome
  <2>1. /\ doc.short = "chrome" /\ doc.emit = Emit("sagernet_chrome_parrot", Engine(TRUE, TRUE, TRUE))
        /\ doc.identity.markers = {"0x11", "0x3128", "0x20"}
    BY <1>2 DEF Chrome, Profile, Identity
  <2>2. InferEmit(obs) = Inferred("sagernet_chrome_parrot", Engine(TRUE, TRUE, TRUE), "emit_ready", "chrome")
    BY <2>1 DEF InferEmit
  <2> QED
    BY <1>1, <2>1, <2>2 DEF Inferred, IsDialable, Emit
<1>3. CASE doc = QuicGoDatagram
  <2>1. /\ doc.short = "quic-go-datagram" /\ doc.emit = Emit("sagernet_plain", Engine(FALSE, TRUE, FALSE))
        /\ doc.identity.markers = {"0x20"}
    BY <1>3 DEF QuicGoDatagram, Profile, Identity
  <2>2. InferEmit(obs) = Inferred("sagernet_plain", Engine(FALSE, TRUE, FALSE), "emit_ready", "quic-go-datagram")
    BY <2>1 DEF InferEmit
  <2> QED
    BY <1>1, <2>1, <2>2 DEF Inferred, IsDialable, Emit
<1>4. CASE doc = QuicGo
  <2>1. /\ doc.short = "quic-go" /\ doc.emit = Emit("sagernet_plain", Engine(FALSE, FALSE, FALSE))
        /\ doc.identity.markers = {}
    BY <1>4 DEF QuicGo, Profile, Identity
  <2>2. InferEmit(obs) = Inferred("sagernet_plain", Engine(FALSE, FALSE, FALSE), "emit_ready", "quic-go")
    BY <2>1 DEF InferEmit
  <2> QED
    BY <1>1, <2>1, <2>2 DEF Inferred, IsDialable, Emit
<1> QED
  BY <1>2, <1>3, <1>4 DEF Dialable

\* A draft describes what it was extracted from, and where that matches a dialable
\* short it is that short: infer_emit, which looks at three markers, and the
\* catalog, which names whole id sets, agree there for every flight
\* (extract_utls_profile.py:19-79, 82-158).
THEOREM DraftsAlwaysKeepDialable == Spec => []DraftsKeepDialable
<1>1. Init => DraftInv
  BY DEF Init, DraftInv
<1>2. DraftInv => DraftsKeepDialable
  <2> SUFFICES ASSUME DraftInv, NEW id \in LabIDs, drafts[id] # NoDraft
               PROVE  LET short == Classify(DraftObs(id), Catalog).short IN
                      /\ ~Rejected(DraftObs(id), drafts[id])
                      /\ short # "none" /\ IsDialable(Doc(short)) =>
                           /\ drafts[id].short = short /\ drafts[id].emit = Doc(short).emit
                           /\ IsDialable(drafts[id])
    BY DEF DraftsKeepDialable
  <2>1. PICK obs : drafts[id] = BuildDraft(obs)
    BY DEF DraftInv
  <2> DEFINE d == DraftObs(id) short == Classify(d, Catalog).short
  <2>2. ~Rejected(d, drafts[id])
    BY DEF Rejected, DraftObs
  <2>3. d.markers = obs.markers
    BY <2>1 DEF DraftObs, BuildDraft, Profile, Identity
  <2>4. ASSUME short # "none", IsDialable(Doc(short))
        PROVE  drafts[id].short = short /\ drafts[id].emit = Doc(short).emit /\ IsDialable(drafts[id])
    <3> HIDE DEF d
    <3>1. PICK c \in Candidates(d, Catalog) : TRUE
      BY <2>4 DEF Classify, NoMatch
    <3>2. c \in DOMAIN Catalog /\ ~Rejected(d, Catalog[c])
      BY ScoreOfAccepted DEF Candidates
    <3>3. short = Catalog[c].short /\ Catalog[c] \in Docs
      BY <3>2, OnlyCandidate DEF Docs
    <3> HIDE DEF short
    <3>4. Doc(short) = Catalog[c]
      BY <3>3, DocOfShort
    <3>5. Catalog[c] \in Dialable
      BY <2>4, <3>3, <3>4, OthersAreNotDialed DEF IsDialable
    <3>6. obs.markers = Catalog[c].identity.markers
      BY <2>3, <3>2 DEF Rejected
    <3> QED
      BY <2>1, <3>3, <3>4, <3>5, <3>6, DraftIsDialable
  <2> QED
    BY <2>2, <2>4
<1> QED
  BY <1>1, <1>2, DraftStep, PTL DEF Spec
====
