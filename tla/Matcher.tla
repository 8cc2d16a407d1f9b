------------------------------ MODULE Matcher ------------------------------
(***************************************************************************)
(* Which of the drivers found for a device is recommended: the scores      *)
(* (matcher.cpp, enum.cpp), the order and the duplicates (matcher.cpp,     *)
(* MatcherImp::sort), the display filter (manager.cpp, Manager::filter),   *)
(* and what happens when the user installs what is recommended and the     *)
(* device is matched again.                                                *)
(*                                                                         *)
(* One device: devices do not share anything here.  An offer is a          *)
(* Hwidmatch; texts (paths, section names, catalogs) are reduced to what   *)
(* the code finds in them.  FLAG_FILTERSP and FILTER_SHOW_DUP are off.     *)
(***************************************************************************)
EXTENDS Integers, Sequences

CONSTANTS
  Offers,       \* the drivers that packs offer for the device
  Currents,     \* the drivers the device may have at first
  NoDriver,     \* no driver: Devicematch::driver = nullptr
  OptionSets,   \* the display filters of the user
  MaxFound,     \* bound: drivers found for the device
  Printer,      \* the device is one of those that need a driver (USBPRINT, DOT4PRT, BTHENUM)
  Major, Minor, Build, Arch   \* Windows' version; Arch: 0 is x86, 1 amd64, ...

StatusNames == {"BETTER", "SAME", "WORSE", "INVALID", "MISSING", "NEW", "CURRENT", "OLD"}

Catalogs == {"any", "nt", "ntx86", "ntamd64", "ntarm64"}

\* A [Manufacturer] section decoration: nts_version, nts_arch, nts_build, nts_score
Section == [version : Nat, arch : Nat, build : Nat, score : Nat]

NoFeature == -1

Offer == [id : STRING,
          pos : Nat, hw : BOOLEAN, infpos : Nat,    \* which id of the device, which of the INF
          cats : SUBSET Catalogs, nt : BOOLEAN,     \* catalog files named, section is .nt
          feature : 0..255,                         \* FeatureScore of the INF
          path : {NoFeature} \cup 0..255,           \* the number in a "feature_" path
          date : Nat,
          section : Section, sections : SUBSET Section,   \* its section, and all of the same maker
          extension : BOOLEAN,                      \* a "deviceextension" section
          suits : BOOLEAN,                          \* notebook, hub, version and blacklist tests
          tweak : BOOLEAN, catok : BOOLEAN,         \* "tweak" path, catalog names this Windows
          marker : Nat,                             \* markerscore
          twin : Nat,                               \* CRC of the INF, HWID and section
          torrent : BOOLEAN]                        \* its pack has to be downloaded

Driver == [rank : Nat, cats : SUBSET Catalogs, nt : BOOLEAN, feature : 0..255,
           date : Nat, generic : BOOLEAN]           \* generic: the VGA driver, PCI\CC_0300

ASSUME OfferAssumption ==
  /\ Offers \subseteq Offer
  /\ Currents \subseteq Driver \cup {NoDriver}
  /\ NoDriver \notin Driver
  /\ OptionSets \subseteq SUBSET (StatusNames \ {"SAME"})

ASSUME WindowsAssumption ==
  /\ {Major, Minor, Build, Arch} \subseteq Nat
  /\ Printer \in BOOLEAN
  /\ MaxFound \in Nat

VARIABLES
  found,      \* the offers, in the order findHWIDs finds them
  installed,  \* the driver of the device
  problem,    \* "none", "disabled" (CM_PROB_DISABLED) or "error"
  options,    \* Settings.filters
  phase,      \* "find", "sort", "filter", "shown"
  list,       \* hwidmatch_list from start_matches on
  i, j, best, \* loop variables of sort and filter; best: bestmatch
  dups,       \* positions with STATUS_DUP
  active,     \* positions whose row is active
  counted,    \* cnt[NUM_STATUS] is not 0
  ontorrent   \* an active row of a pack to download was let through

matchVars == <<found, options, installed, problem>>
rowVars   == <<dups, active, counted, ontorrent>>
vars == <<matchVars, rowVars, phase, list, i, j, best>>

----------------------------------------------------------------------------
(* Scores: enum.cpp, matcher.cpp *)

IdentifierScore(pos, hw, infpos) ==
  (IF hw THEN 0 ELSE 8192) + (IF infpos = 0 THEN 0 ELSE 4096 + 256 * infpos) + pos

Signature(cats, nt) ==
  LET signed == {"any", "nt"} \cup (IF Arch # 0 THEN {"ntamd64", "ntarm64"} ELSE {"ntx86"})
  IN  IF cats \cap signed # {} THEN 0 ELSE IF nt THEN 32768 ELSE 49152

\* calc_score: the upper and the lower half of the number, which is unsigned
Score(cats, feature, rank, nt) ==
  IF Major >= 6
  THEN [hi |-> Signature(cats, nt) + feature, lo |-> rank]
  ELSE [hi |-> 0, lo |-> Signature(cats, nt) + rank]

Less(a, b) == a.hi < b.hi \/ (a.hi = b.hi /\ a.lo < b.lo)

\* getdrp_drvfeature: a number in the path replaces that of the INF
FeatureOf(o) == IF o.path # NoFeature THEN o.path ELSE o.feature

OfferScore(o) ==
  Score(o.cats, FeatureOf(o), IdentifierScore(o.pos, o.hw, o.infpos), o.nt)

DriverScore(d) == Score(d.cats, d.feature, d.rank, d.nt)

\* calc_decorscore: 0 is another Windows
DecorScore(s) ==
  LET version == 10 * (IF Major = 11 THEN 10 ELSE Major) + Minor
  IN  IF \/ version < s.version
         \/ s.arch # 0 /\ s.arch # Arch + 1
         \/ s.version >= 100 /\ s.version = version /\ s.build >= 14310 /\ s.build > Build
      THEN 0
      ELSE s.score

\* Slip: the section of an extension is not looked at
AltScoreOfAny(o) ==
  IF \/ \E s \in o.sections : DecorScore(s) > DecorScore(o.section)
     \/ ~o.suits
  THEN 0
  ELSE IF ~o.tweak /\ o.catok THEN 2 ELSE 1

\* calc_altsectscore, and the constructor's test for an extension
AltScore(o) ==
  IF \/ o.extension
     \/ \E s \in o.sections : DecorScore(s) > DecorScore(o.section)
     \/ ~o.suits
  THEN 0
  ELSE IF ~o.tweak /\ o.catok THEN 2 ELSE 1

----------------------------------------------------------------------------
(* Status of an offer: matcher.cpp *)

\* Devicematch::isMissing
Missing ==
  /\ problem # "disabled"
  /\ \/ problem = "error"
     \/ IF installed = NoDriver THEN Printer ELSE installed.generic

DateStatus(o) ==
  IF installed.date < o.date THEN "NEW" ELSE IF installed.date > o.date THEN "OLD" ELSE "CURRENT"

\* A score without the feature
Unfeatured(s) == [s EXCEPT !.hi = @ - (@ % 256)]

RankStatus(o) ==
  LET masked == o.path # NoFeature /\ DateStatus(o) = "CURRENT"
      mine == IF masked THEN Unfeatured(DriverScore(installed)) ELSE DriverScore(installed)
      its  == IF masked THEN Unfeatured(OfferScore(o)) ELSE OfferScore(o)
  IN  IF Less(its, mine) THEN "BETTER" ELSE IF Less(mine, its) THEN "WORSE" ELSE "SAME"

\* calc_status
Status(o) ==
  IF Missing THEN {"MISSING"}
  ELSE (IF installed = NoDriver THEN {"BETTER"} ELSE {DateStatus(o), RankStatus(o)})
       \cup (IF AltScore(o) = 0 THEN {"INVALID"} ELSE {})

StatusValue(o) ==
  LET bit(s, v) == IF s \in Status(o) THEN v ELSE 0
  IN  bit("BETTER", 1) + bit("SAME", 2) + bit("WORSE", 4) + bit("INVALID", 8)
      + bit("MISSING", 16) + bit("NEW", 32) + bit("CURRENT", 64) + bit("OLD", 128)

----------------------------------------------------------------------------
(* The order: matcher.cpp *)

\* The first difference that is not 0 decides
Then(x, y) == IF x # 0 THEN x ELSE y

\* cmpunsigned of the scores: the lower one is better
ScoreOrder(a, b) ==
  IF Less(OfferScore(a), OfferScore(b)) THEN 1
  ELSE IF Less(OfferScore(b), OfferScore(a)) THEN -1 ELSE 0

\* Slip: the date decides before the score
NewestFirst(a, b) ==
  Then(AltScore(a) - AltScore(b), Then(a.date - b.date, ScoreOrder(a, b)))

\* Hwidmatch::cmp: more than 0 when a is to come before b
Cmp(a, b) ==
  Then(AltScore(a) - AltScore(b),
  Then(ScoreOrder(a, b),
  Then(a.date - b.date,
  Then(DecorScore(a.section) - DecorScore(b.section),
  Then(a.marker - b.marker,
       StatusValue(a) - StatusValue(b))))))

\* isdup
Twin(a, b) == a.twin = b.twin

\* The order in which the ids of a device are looked up: hardware ids first
FoundBefore(a, b) == (a.hw /\ ~b.hw) \/ (a.hw = b.hw /\ a.pos <= b.pos)

\* findHWIDs, for each id of the device and each pack; Init has chosen the outcome
Find ==
  /\ phase = "find"
  /\ phase' = "sort"
  /\ list' = found
  /\ i' = 1 /\ best' = 1 /\ j' = 2
  /\ UNCHANGED <<matchVars, rowVars>>

\* Slip: what is compared is the first of the rest, not the best one so far
CompareFirst ==
  /\ phase = "sort" /\ i < Len(list) /\ j <= Len(list)
  /\ best' = IF Cmp(list[i], list[j]) < 0 THEN j ELSE best
  /\ j' = j + 1
  /\ UNCHANGED <<matchVars, rowVars, phase, list, i>>

\* MatcherImp::sort, the inner loop
Compare ==
  /\ phase = "sort" /\ i < Len(list) /\ j <= Len(list)
  /\ best' = IF Cmp(list[best], list[j]) < 0 THEN j ELSE best
  /\ j' = j + 1
  /\ UNCHANGED <<matchVars, rowVars, phase, list, i>>

\* MatcherImp::sort, the exchange, and on to the next one
Exchange ==
  /\ phase = "sort" /\ i < Len(list) /\ j > Len(list)
  /\ list' = [list EXCEPT ![i] = list[best], ![best] = list[i]]
  /\ i' = i + 1 /\ best' = i + 1 /\ j' = i + 2
  /\ UNCHANGED <<matchVars, rowVars, phase>>

\* Slip: the earlier one of two is marked
EarlierTwins(l) == {k \in DOMAIN l : \E h \in DOMAIN l : k < h /\ Twin(l[h], l[k])}

\* "Mark dups": the later one of two is marked
LaterTwins(l) == {k \in DOMAIN l : \E h \in DOMAIN l : h < k /\ Twin(l[h], l[k])}

MarkDups ==
  /\ phase = "sort" /\ i >= Len(list)
  /\ phase' = "filter"
  /\ dups' = LaterTwins(list)
  /\ j' = 1
  /\ UNCHANGED <<matchVars, list, i, best, active, counted, ontorrent>>

----------------------------------------------------------------------------
(* The display filter: manager.cpp, Manager::filter, on a fresh list *)

\* isdrivervalid
Valid(o) == AltScore(o) > 0 /\ DecorScore(o.section) > 0

Skipped(k) == ("INVALID" \notin options /\ ~Valid(list[k])) \/ k \in dups

\* The user asked for no driver that is worse than the one of a device that works
Careful == {"WORSE", "INVALID"} \cap options = {} /\ problem = "none" /\ installed # NoDriver

\* Slip: a newer driver of a worse rank is shown
HiddenUnlessWorse(o) ==
  \/ Careful /\ AltScore(o) < 2
  \/ "OLD" \in options /\ "BETTER" \in Status(o)

\* The three `continue's of the loop over statustnl
Hidden(o) ==
  \/ Careful /\ AltScore(o) < 2
  \/ "OLD" \in options /\ "BETTER" \in Status(o)
  \/ Careful /\ "NEW" \in options /\ "WORSE" \in Status(o)

\* The statuses asked for; INVALID is not one of statustnl
Wanted(o) == (Status(o) \cap options) \ {"INVALID"}

Shown(o) == Wanted(o) # {} /\ ("MISSING" \in Wanted(o) \/ ~Hidden(o))

\* More than one pass counts the row: MISSING is looked at twice, the other statuses once each
Twice(o) ==
  /\ ~Hidden(o)
  /\ \/ "MISSING" \in Wanted(o)
     \/ \E s, t \in Wanted(o) : s # t

\* Slip: a driver to download is never counted
CountsLocal(o) == ~counted /\ Shown(o) /\ ~o.torrent

\* cnt[NUM_STATUS]++: not for the first driver to download, unless it is counted twice
Counts(o) == ~counted /\ Shown(o) /\ (~o.torrent \/ ontorrent \/ Twice(o))

FilterRow ==
  /\ phase = "filter" /\ j <= Len(list)
  /\ LET o == list[j]
     IN  IF Skipped(j) THEN UNCHANGED <<active, counted, ontorrent>>
         ELSE /\ active' = IF ~counted /\ Shown(o) THEN active \cup {j} ELSE active
              /\ ontorrent' = (ontorrent \/ (~counted /\ Shown(o) /\ o.torrent))
              /\ counted' = (counted \/ Counts(o) \/ (~o.torrent /\ "CURRENT" \in Status(o)))
  /\ j' = j + 1
  /\ UNCHANGED <<matchVars, phase, list, i, best, dups>>

Show ==
  /\ phase = "filter" /\ j > Len(list)
  /\ phase' = "shown"
  /\ UNCHANGED <<matchVars, rowVars, list, i, j, best>>

----------------------------------------------------------------------------
(* What happens to the device *)

\* The driver Windows has after the installation of o, as Driver::scaninf reads it
DriverOf(o) ==
  [rank |-> IdentifierScore(o.pos, o.hw, o.infpos), cats |-> o.cats, nt |-> o.nt,
   feature |-> o.feature, date |-> o.date, generic |-> FALSE]

\* A scan starts with an empty matcher and, in the end, new rows (bundle_init, Manager::populate)
Fresh ==
  /\ phase' = "find" /\ list' = <<>>
  /\ i' = 1 /\ j' = 1 /\ best' = 1
  /\ dups' = {} /\ active' = {} /\ counted' = FALSE /\ ontorrent' = FALSE

\* External: Windows installs the driver of an active row.  An extension leaves the driver of
\* the device alone; the device may keep its problem.
Install(k) ==
  /\ phase = "shown" /\ k \in active
  /\ installed' = IF list[k].extension THEN installed ELSE DriverOf(list[k])
  /\ problem' \in (IF problem = "error" THEN {"error", "none"} ELSE {problem})
  /\ Fresh
  /\ UNCHANGED <<found, options>>

\* A scan for another reason
Rescan ==
  /\ phase = "shown"
  /\ Fresh
  /\ UNCHANGED matchVars

Init ==
  /\ found \in UNION {[1..n -> Offers] : n \in 0..MaxFound}
  /\ \A a, b \in DOMAIN found : a < b => found[a] # found[b] /\ FoundBefore(found[a], found[b])
  /\ installed \in Currents
  /\ problem \in {"none", "disabled", "error"}
  /\ options \in OptionSets
  /\ phase = "find" /\ list = <<>>
  /\ i = 1 /\ j = 1 /\ best = 1
  /\ dups = {} /\ active = {} /\ counted = FALSE /\ ontorrent = FALSE

Next ==
  \/ Find \/ Compare \/ Exchange \/ MarkDups \/ FilterRow \/ Show \/ Rescan
  \/ \E k \in active : Install(k)

Spec == Init /\ [][Next]_vars

----------------------------------------------------------------------------
(* Properties *)

TypeOK ==
  /\ found \in Seq(Offers) /\ list \in Seq(Offers)
  /\ Len(found) <= MaxFound /\ Len(list) <= MaxFound
  /\ installed \in Driver \cup {NoDriver}
  /\ problem \in {"none", "disabled", "error"}
  /\ options \in OptionSets
  /\ phase \in {"find", "sort", "filter", "shown"}
  /\ i \in 1..MaxFound + 1 /\ j \in 1..MaxFound + 2 /\ best \in 1..MaxFound + 1
  /\ dups \subseteq DOMAIN list /\ active \subseteq DOMAIN list \ dups
  /\ counted \in BOOLEAN /\ ontorrent \in BOOLEAN

\* p says where in m the elements of l come from
Reorders(p, l, m) ==
  /\ \A k, h \in DOMAIN l : p[k] = p[h] => k = h
  /\ \A k \in DOMAIN l : l[k] = m[p[k]]

Reordered(l, m) ==
  Len(l) = Len(m) /\ \E p \in [DOMAIN l -> DOMAIN m] : Reorders(p, l, m)

\* After the sort no driver of a device is before one that cmp prefers, and none is lost or twice
\* in the list (matcher.cpp, MatcherImp::sort exchanges them in place with memcpy).
Sorted ==
  phase \in {"filter", "shown"} =>
    /\ Reordered(list, found)
    /\ \A a, b \in DOMAIN list : a < b => Cmp(list[a], list[b]) >= 0

\* A driver hidden as a duplicate (STATUS_DUP) is always represented: one twin of it stays, just
\* one, and cmp does not prefer the hidden one.
DupsRepresented ==
  phase \in {"filter", "shown"} =>
    \A k \in dups :
      \E h \in DOMAIN list \ dups :
        /\ Twin(list[h], list[k]) /\ Cmp(list[h], list[k]) >= 0
        /\ \A g \in DOMAIN list \ dups : Twin(list[g], list[k]) => g = h

\* The filters a new user has (settings.cpp)
Default == {"MISSING", "NEW", "BETTER"}

Working == ~Missing /\ problem = "none" /\ installed # NoDriver

\* What is recommended is an improvement: with the filters a new user has, a device that works is
\* shown no driver that Windows ranks lower than its own, and none of the same rank that is not
\* newer (manager.cpp, Manager::filter).
Improves ==
  phase = "shown" /\ options = Default /\ Working =>
    \A k \in active :
      /\ AltScore(list[k]) = 2
      /\ \/ "BETTER" \in Status(list[k])
         \/ {"NEW", "SAME"} \subseteq Status(list[k])

FeaturePaths == \E k \in DOMAIN found : found[k].path # NoFeature

\* The user would want this driver
Improvement(o) ==
  AltScore(o) = 2 /\ Valid(o) /\ ("BETTER" \in Status(o) \/ {"NEW", "SAME"} \subseteq Status(o))

\* ... or any driver, when the device has none that works
Wished(o) == Improvement(o) \/ (Missing /\ Valid(o))

\* An improvement is never hidden by what is worse than it: with those filters, when a driver
\* that is an improvement was found, a row that cmp does not rank below it is active.  Not the
\* drivers in a "feature_" directory, whose rank is not compared with the one they are sorted by.
RecommendsBest ==
  phase = "shown" /\ options = Default /\ ~FeaturePaths =>
    \A k \in DOMAIN list \ dups :
      Wished(list[k]) => \E a \in active : a <= k

\* One driver is recommended, or two of which one has to be downloaded (manager.cpp, cnt and
\* ontorrent): "select all" never installs two drivers that are at hand on the same device.
OneChoice ==
  /\ \A a, b, c \in active : a = b \/ b = c \/ a = c
  /\ \A a, b \in active : a # b => list[a].torrent \/ list[b].torrent

\* Installing what is recommended comes to an end: with those filters a device that works is not
\* offered drivers for ever (matcher.cpp:1184, on extensions: "causing SDI to endlessly re-offer
\* the same update").  Not with "feature_" directories.
ReofferEnds ==
  options = Default /\ ~FeaturePaths =>
    <>[][~(Working /\ \E k \in active : Install(k))]_vars

=============================================================================
