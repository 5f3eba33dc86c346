-------------------------- MODULE PlanSearch_proofs --------------------------
(***************************************************************************)
(* For every platform, device sweep and reserve grid, and whatever the     *)
(* timing engine answers: the decode loop runs the configuration the       *)
(* winner of the search was timed with, no finalist was faster than the    *)
(* winner, the winner fits the served device, and a larger device is never *)
(* slower.                                                                 *)
(***************************************************************************)
EXTENDS PlanSearch, SequenceTheorems, FiniteSetTheorems, WellFoundedInduction, TLAPS

\* Why PlanFits holds: a candidate's weights and reserve fit what its cache leaves
\* of a device no larger than the served one, a striped cache's reserve fits the
\* whole sizes it is a share of, and so it is for the winner.
ReservedFor(c, t) == CASE t = "gpu" -> 0 [] t = "host" -> c.hr [] t = "cxl" -> c.dr
KvTiers == {"cxl", "host", "stripe", "gpu"}

Fits(c) ==
  /\ c.dev \in Nat /\ c.dev <= Device /\ c.dr \in Nat /\ c.hr \in Nat
  /\ c.tier \in KvTiers /\ c.level \in {1, 2}
  /\ c.tier = "stripe" => c.dr <= c.dev /\ c.hr <= inst.host
  /\ c.plan \in [Tiers -> Nat]
  /\ \A t \in Dram : c.plan[t] + ReservedFor(c, t) <= PlaceOf(c).caps[t]

FitsInv ==
  /\ sweep \in DOMAIN inst.devices
  /\ pc = "reserve" => group < Groups
  /\ pc # "begin" => /\ \A c \in DOMAIN cands : Fits(cands[c])
                     /\ best # << >> => Fits(best.cand)
  /\ pc = "decode" => best # << >>

\* Why WinnerIsLeast holds: the best so far is no slower than what was timed so far.
TimedInv ==
  /\ best # << >> => best.time \in Nat
  /\ pc \in {"time", "decode"} =>
       \A c \in DOMAIN cands : Shortlisted(c) /\ c \notin toTime =>
         best # << >> /\ best.time <= Timed(cands[c]).time

\* The placement TryReserve uses for a reserve.
PlaceAt(dr, hr) == IF Striping THEN _kv_place(inst, caps0, kv_mean, "stripe", dr, hr)
                   ELSE [split |-> kv_split, caps |-> caps]
-----------------------------------------------------------------------------
(* Sequences, least elements, quotients.                                   *)

\* A function on 1 .. n is a sequence of its values.
LEMMA FunctionIsSeq ==
  ASSUME NEW k \in Nat, NEW s, s = [x \in 1 .. k |-> s[x]], NEW S,
         \A x \in 1 .. k : s[x] \in S
  PROVE  s \in Seq(S) /\ Len(s) = k /\ DOMAIN s = 1 .. k
<1>1. s \in [1 .. k -> S]
  OBVIOUS
<1>2. s \in Seq(S)
  BY <1>1, SeqDef
<1>3. Len(s) \in Nat /\ DOMAIN s = 1 .. Len(s) /\ DOMAIN s = 1 .. k
  BY <1>1, <1>2, LenProperties
<1> QED
  BY <1>2, <1>3

LEMMA LeastOf ==
  ASSUME NEW T \in SUBSET Nat, T # {}
  PROVE  \E x \in T : \A y \in T : x <= y
<1>1. PICK x \in T : \A y \in T : ~(<<y, x>> \in OpToRel(<, Nat))
  BY NatLessThanWellFounded, WFMin
<1>2. \A y \in T : ~(y < x)
  BY <1>1 DEF OpToRel
<1>3. x \in Nat /\ \A y \in T : y \in Nat
  OBVIOUS
<1>4. \A y \in T : x <= y
  BY <1>2, <1>3
<1> QED
  BY <1>4

\* What two sequences of values make end to end.
LEMMA Appended ==
  ASSUME NEW s, NEW k \in Nat, s = [x \in 1 .. k |-> s[x]],
         NEW t, NEW l \in Nat, t = [x \in 1 .. l |-> t[x]]
  PROVE  /\ Len(s) = k /\ Len(s \o t) = k + l
         /\ DOMAIN (s \o t) = 1 .. (k + l)
         /\ s \o t = [x \in 1 .. (k + l) |-> (s \o t)[x]]
         /\ \A x \in 1 .. (k + l) : (s \o t)[x] = IF x <= k THEN s[x] ELSE t[x - k]
<1> DEFINE S == {s[x] : x \in 1 .. k} \cup {t[x] : x \in 1 .. l}
<1>1. (\A x \in 1 .. k : s[x] \in S) /\ \A x \in 1 .. l : t[x] \in S
  OBVIOUS
<1> HIDE DEF S
<1>2. s \in Seq(S) /\ t \in Seq(S) /\ Len(s) = k /\ Len(t) = l
  BY <1>1, FunctionIsSeq
<1>3. s \o t \in Seq(S) /\ Len(s \o t) = k + l
      /\ \A x \in 1 .. (k + l) : (s \o t)[x] = IF x <= k THEN s[x] ELSE t[x - k]
  BY <1>2, ConcatProperties
<1>4. DOMAIN (s \o t) = 1 .. (k + l) /\ s \o t \in [1 .. (k + l) -> S]
  BY <1>3, LenProperties
<1> QED
  BY <1>2, <1>3, <1>4

LEMMA QuotientOf ==
  ASSUME NEW m \in Nat, NEW n \in Nat \ {0}
  PROVE  m \div n \in Nat /\ n * (m \div n) <= m
OBVIOUS

LEMMA ProductLeq ==
  ASSUME NEW a \in Nat, NEW b \in Nat, NEW c \in Nat, a <= c
  PROVE  a * b \in Nat /\ c * b \in Nat /\ a * b <= c * b
OBVIOUS

\* A part of b is no more than b.
LEMMA ShareOf ==
  ASSUME NEW a \in Nat, NEW b \in Nat, NEW c \in Nat \ {0}, a <= c
  PROVE  (a * b) \div c \in Nat /\ (a * b) \div c <= b
<1> DEFINE m == a * b
           q == m \div c
<1>1. m \in Nat /\ m <= c * b /\ c * b \in Nat
  BY ProductLeq
<1> HIDE DEF m
<1>2. q \in Nat /\ c * q <= m
  BY <1>1, QuotientOf
<1> HIDE DEF q
<1>3. ~(q > b)
  <2> SUFFICES ASSUME q >= b + 1 PROVE FALSE
    BY <1>2
  <2>1. c * b + c <= c * q
    <3>1. (b + 1) * c <= q * c
      BY <1>2, ProductLeq
    <3> QED
      BY <1>2, <3>1
  <2> QED
    BY <1>1, <1>2, <2>1
<1> QED
  BY <1>2, <1>3 DEF q, m

LEMMA QuotientLess ==
  ASSUME NEW u \in Nat, NEW l \in Nat, NEW w \in Nat \ {0}, u < l * w
  PROVE  u \div w \in Nat /\ u \div w < l
<1> DEFINE q == u \div w
<1>1. q \in Nat /\ w * q <= u
  BY QuotientOf
<1> HIDE DEF q
<1>2. q < l
  <2> SUFFICES ASSUME q >= l PROVE FALSE
    BY <1>1
  <2>1. l * w <= q * w
    BY <1>1, ProductLeq
  <2> QED
    BY <1>1, <2>1
<1> QED
  BY <1>1, <1>2 DEF q
-----------------------------------------------------------------------------
(* The search has groups, turns and finalists.                             *)

LEMMA PlatformTyped ==
  ASSUME inst \in Platforms
  PROVE  /\ inst.gpu \in Nat /\ inst.host \in Nat /\ inst.weights \in Nat \ {0}
         /\ inst.table \in Nat /\ inst.kvPerToken \in Nat /\ inst.prefill \in Nat
         /\ inst.tokens \in Nat /\ inst.devices \in Seq(Nat) \ {<< >>}
  BY SearchConstants DEF PlatformType

LEMMA KvMeanTyped ==
  ASSUME inst \in Platforms, NEW level \in {1, 2}
  PROVE  KvMean(inst, level) \in Nat
<1>1. /\ inst.kvPerToken \in Nat /\ 2 * inst.prefill + inst.tokens * level \in Nat
  BY PlatformTyped, SMTT(60)
<1> DEFINE m == inst.kvPerToken * (2 * inst.prefill + inst.tokens * level)
<1>2. m \in Nat
  BY <1>1
<1> HIDE DEF m
<1>3. m \div 2 \in Nat
  BY <1>2
<1> QED
  BY <1>3 DEF m, KvMean

\* One size searched for every standard one below the device, and its own.
LEMMA DevCapsLength ==
  ASSUME inst \in Platforms
  PROVE  Below \in Nat /\ Len(_dev_caps) = Below + 1
<1>1. /\ StandardSizes \in Seq(Nat) /\ ReserveShares \in Seq(Nat) /\ ReserveShares # << >>
  BY SearchConstants
<1>2. Below \in Nat
  <2>1. DOMAIN StandardSizes = 1 .. Len(StandardSizes) /\ Len(StandardSizes) \in Nat
    BY <1>1, LenProperties
  <2>2. IsFiniteSet(DOMAIN StandardSizes)
    BY <2>1, FS_Interval
  <2>3. IsFiniteSet({x \in DOMAIN StandardSizes : StandardSizes[x] < Device})
    BY <2>2, FS_Subset
  <2> QED
    BY <2>3, FS_CardinalityType DEF Below
<1>3. Len(_dev_caps) = Below + 1
  <2> DEFINE S == {_dev_caps[x] : x \in 1 .. (Below + 1)}
  <2>1. Below + 1 \in Nat /\ _dev_caps = [x \in 1 .. (Below + 1) |-> _dev_caps[x]]
    BY <1>2 DEF _dev_caps
  <2>2. \A x \in 1 .. (Below + 1) : _dev_caps[x] \in S
    OBVIOUS
  <2> HIDE DEF S
  <2> QED
    BY <2>1, <2>2, FunctionIsSeq
<1> QED
  BY <1>2, <1>3

LEMMA HasGroups ==
  ASSUME inst \in Platforms
  PROVE  Groups \in Nat /\ Groups > 0 /\ Turns \in Nat /\ Turns > 0
<1>1. ReserveShares \in Seq(0 .. Whole) /\ ReserveShares # << >>
  BY SearchConstants
<1>3. Below \in Nat /\ Len(_dev_caps) = Below + 1
  BY DevCapsLength
<1>4. Len(_kv_opts) \in {3, 4}
  BY DEF _kv_opts
<1>5. Len(Levels) = 2 /\ Len(Splits) = 3
  BY DEF Levels, Splits
<1>6. Len(ReserveShares) \in Nat \ {0}
  BY <1>1, EmptySeq
<1> DEFINE d == Len(_dev_caps)
           o == Len(_kv_opts)
           r == Len(ReserveShares)
<1>7. d \in Nat /\ d > 0 /\ o \in {3, 4} /\ r \in Nat /\ r > 0
      /\ Groups = d * o * 2 /\ Turns = r * 3
  BY <1>3, <1>4, <1>5, <1>6 DEF Groups, Turns
<1> HIDE DEF d, o, r
<1>8. d * o \in Nat /\ d * o > 0
  BY <1>7
<1> QED
  BY <1>7, <1>8

\* The standard sizes below the device are the first of them.
LEMMA SizesBelow ==
  ASSUME inst \in Platforms, sweep \in DOMAIN inst.devices
  PROVE  /\ Device \in Nat /\ Below \in Nat
         /\ {x \in DOMAIN StandardSizes : StandardSizes[x] < Device} = 1 .. Below
         /\ \A x \in 1 .. Below : StandardSizes[x] \in Nat /\ StandardSizes[x] < Device
<1> DEFINE n == Len(StandardSizes)
           T == {x \in DOMAIN StandardSizes : StandardSizes[x] < Device}
<1>1. Device \in Nat
  BY PlatformTyped, ElementOfSeq, LenProperties DEF Device
<1>2. n \in Nat /\ DOMAIN StandardSizes = 1 .. n /\ \A x \in 1 .. n : StandardSizes[x] \in Nat
  BY SearchConstants, ElementOfSeq, LenProperties
<1> HIDE DEF n
<1>3. IsFiniteSet(1 .. n) /\ Cardinality(1 .. n) = n
  BY <1>2, FS_Interval
<1>4. T \subseteq 1 .. n /\ IsFiniteSet(T) /\ Cardinality(T) \in Nat /\ Cardinality(T) <= n
  <2>1. T \subseteq 1 .. n
    BY <1>2
  <2> QED
    BY <1>3, <2>1, FS_Subset, FS_CardinalityType
<1>5. Below = Cardinality(T)
  BY DEF Below
\* The sizes are in order, so those below the device come first.
<1>6. ASSUME NEW x \in 1 .. Below PROVE StandardSizes[x] \in Nat /\ StandardSizes[x] < Device
  <2>1. x \in 1 .. n
    BY <1>2, <1>4, <1>5
  <2>2. ASSUME ~(StandardSizes[x] < Device) PROVE FALSE
    <3>1. T \subseteq 1 .. (x - 1)
      <4> SUFFICES ASSUME NEW y \in T, ~(y < x) PROVE FALSE
        BY <1>2, <1>4, <2>1
      <4>1. y \in 1 .. n /\ x <= y /\ StandardSizes[y] < Device
        BY <1>2, <2>1
      <4>2. StandardSizes[x] <= StandardSizes[y]
        <5>1. CASE x = y
          BY <1>2, <2>1, <5>1
        <5>2. CASE x < y
          <6>1. x \in DOMAIN StandardSizes /\ y \in DOMAIN StandardSizes
            BY <1>2, <2>1, <4>1
          <6>2. StandardSizes[x] < StandardSizes[y]
            BY <5>2, <6>1, SearchConstants
          <6> QED
            BY <1>2, <2>1, <4>1, <6>2
        <5> QED
          BY <1>2, <2>1, <4>1, <5>1, <5>2
      <4> QED
        BY <1>1, <1>2, <2>1, <2>2, <4>1, <4>2
    <3>2. IsFiniteSet(1 .. (x - 1)) /\ Cardinality(1 .. (x - 1)) = x - 1
      <4>1. 1 \in Int /\ x - 1 \in Int /\ x >= 1
        BY <1>2, <2>1
      <4>2. /\ IsFiniteSet(1 .. (x - 1))
            /\ Cardinality(1 .. (x - 1)) = IF 1 > x - 1 THEN 0 ELSE (x - 1) - 1 + 1
        BY <4>1, FS_Interval
      <4> QED
        BY <4>1, <4>2
    <3>3. Cardinality(T) <= x - 1
      BY <3>1, <3>2, FS_Subset
    <3> QED
      BY <1>2, <1>4, <1>5, <2>1, <3>3
  <2> QED
    BY <1>2, <2>1, <2>2
<1>7. 1 .. Below \subseteq T
  <2>1. Below \in Nat /\ Below <= n
    BY <1>4, <1>5
  <2>2. 1 .. Below \subseteq 1 .. n
    BY <1>2, <2>1
  <2> QED
    BY <1>2, <1>6, <2>2
<1>8. IsFiniteSet(1 .. Below) /\ Cardinality(1 .. Below) = Below
  <2>1. Below \in Nat
    BY <1>4, <1>5
  <2> QED
    BY <2>1, FS_Interval
<1>9. T = 1 .. Below
  BY <1>4, <1>5, <1>7, <1>8, FS_Subset
<1> QED
  BY <1>1, <1>4, <1>5, <1>6, <1>9

\* None is larger than the device.
LEMMA DevCaps ==
  ASSUME inst \in Platforms, sweep \in DOMAIN inst.devices
  PROVE  /\ Device \in Nat /\ Below \in Nat /\ Len(_dev_caps) = Below + 1
         /\ \A x \in 1 .. (Below + 1) : _dev_caps[x] \in Nat /\ _dev_caps[x] <= Device
<1>1. Len(_dev_caps) = Below + 1
  BY DevCapsLength
<1>2. ASSUME NEW x \in 1 .. (Below + 1) PROVE _dev_caps[x] \in Nat /\ _dev_caps[x] <= Device
  <2>1. _dev_caps[x] = IF x <= Below THEN StandardSizes[x] ELSE Device
    BY DEF _dev_caps
  <2>2. CASE x <= Below
    <3>1. x \in 1 .. Below
      BY SizesBelow, <2>2
    <3>2. StandardSizes[x] \in Nat /\ StandardSizes[x] < Device /\ Device \in Nat
      BY SizesBelow, <3>1
    <3> QED
      BY <2>1, <2>2, <3>2
  <2>3. CASE ~(x <= Below)
    BY SizesBelow, <2>1, <2>3
  <2> QED
    BY <2>2, <2>3
<1> QED
  BY SizesBelow, <1>1, <1>2

\* Every group searches a size, a tier and a level there is.
LEMMA GroupFits ==
  ASSUME inst \in Platforms, sweep \in DOMAIN inst.devices, group \in Nat, group < Groups
  PROVE  /\ GroupDev(group) \in Nat /\ GroupDev(group) <= Device
         /\ GroupTier(group) \in KvTiers /\ GroupLevel(group) \in {1, 2}
<1> DEFINE o == Len(_kv_opts)
           l == Below + 1
<1>1. o \in {3, 4} /\ \A x \in 1 .. o : _kv_opts[x] \in KvTiers
  BY DEF _kv_opts, KvTiers
<1>2. Len(Levels) = 2 /\ Levels[1] = 1 /\ Levels[2] = 2
  BY DEF Levels
<1>3. l \in Nat /\ Len(_dev_caps) = l
      /\ \A x \in 1 .. l : _dev_caps[x] \in Nat /\ _dev_caps[x] <= Device
  BY DevCaps
<1> HIDE DEF o, l
<1>4. group < l * (o * 2) /\ o * 2 \in Nat \ {0}
  <2>1. Groups = l * o * 2
    BY <1>2, <1>3 DEF Groups, o
  <2>2. l * o * 2 = l * (o * 2)
    BY <1>1, <1>3
  <2> QED
    BY <1>1, <2>1, <2>2
<1>5. group \div (o * 2) \in Nat /\ group \div (o * 2) < l
  BY <1>3, <1>4, QuotientLess
<1> DEFINE q == group \div (o * 2)
<1>6. GroupDev(group) = _dev_caps[q + 1] /\ q + 1 \in 1 .. l
  <2>1. GroupDev(group) = _dev_caps[q + 1]
    BY <1>2 DEF GroupDev, o
  <2> HIDE DEF q
  <2>2. q \in Nat /\ q < l
    BY <1>5 DEF q
  <2> QED
    BY <1>3, <2>1, <2>2
<1> HIDE DEF q
<1>7. ((group \div 2) % o) + 1 \in 1 .. o /\ (group % 2) + 1 \in 1 .. 2
  <2> DEFINE h == group \div 2
  <2>1. h \in Nat
    BY QuotientOf
  <2> HIDE DEF h
  <2>2. (h % o) + 1 \in 1 .. o
    BY <1>1, <2>1
  <2> QED
    BY <2>2 DEF h
<1>8. /\ GroupTier(group) = _kv_opts[((group \div 2) % o) + 1]
      /\ GroupLevel(group) = Levels[(group % 2) + 1]
  BY <1>2 DEF GroupTier, GroupLevel, o
<1> QED
  BY <1>1, <1>2, <1>3, <1>6, <1>7, <1>8, SMTT(60)

\* Every turn tries a share and a split there is.
LEMMA TurnFits ==
  ASSUME turn \in Nat, turn < Turns
  PROVE  /\ ReserveShares[(turn \div Len(Splits)) + 1] \in 0 .. Whole
         /\ Splits[(turn % Len(Splits)) + 1] \in {"even", "host", "device"}
<1>1. Len(Splits) = 3 /\ Splits[1] = "host" /\ Splits[2] = "device" /\ Splits[3] = "even"
  BY DEF Splits
<1>2. /\ Len(ReserveShares) \in Nat
      /\ \A x \in 1 .. Len(ReserveShares) : ReserveShares[x] \in 0 .. Whole
  BY SearchConstants, ElementOfSeq, LenProperties
<1>3. turn \div 3 \in Nat /\ turn \div 3 < Len(ReserveShares)
  BY <1>1, <1>2, QuotientLess DEF Turns
<1> DEFINE q == turn \div 3
<1> HIDE DEF q
<1>4. q + 1 \in 1 .. Len(ReserveShares)
  BY <1>2, <1>3 DEF q
<1>5. (turn % 3) + 1 \in 1 .. 3
  OBVIOUS
<1> QED
  BY <1>1, <1>2, <1>4, <1>5 DEF q

\* The best estimate of a group, the first found among equals, is shortlisted.
LEMMA GroupHasFinalist ==
  ASSUME NEW k \in Nat, DOMAIN cands = 1 .. k,
         \A c \in DOMAIN cands : cands[c].est \in Nat,
         NEW c0 \in DOMAIN cands
  PROVE  \E c \in DOMAIN cands : /\ Shortlisted(c) /\ SameGroup(c0, c)
                                 /\ cands[c].est <= cands[c0].est
<1> DEFINE G == {c \in DOMAIN cands : SameGroup(c0, c)}
           T == {cands[c].est : c \in G}
<1>0. c0 \in G
  BY DEF SameGroup
<1>1. T \in SUBSET Nat /\ T # {}
  BY <1>0
<1>2. PICK m \in T : \A y \in T : m <= y
  BY <1>1, LeastOf
<1>3. m \in Nat
  BY <1>1, <1>2
<1> DEFINE U == {c \in G : cands[c].est = m}
<1>4. U \in SUBSET Nat /\ U # {}
  BY <1>2
<1>5. PICK c \in U : \A y \in U : c <= y
  BY <1>4, LeastOf
<1>6. c \in DOMAIN cands /\ SameGroup(c0, c) /\ cands[c].est = m /\ c \in Nat
  BY <1>4, <1>5
<1>7. \A d \in DOMAIN cands : ~(SameGroup(d, c) /\ Before(d, c))
  <2> SUFFICES ASSUME NEW d \in DOMAIN cands, SameGroup(d, c), Before(d, c) PROVE FALSE
    OBVIOUS
  <2>1. d \in G
    BY <1>6 DEF SameGroup
  <2>2. cands[d].est \in Nat /\ m <= cands[d].est /\ d \in Nat
    BY <1>2, <2>1
  <2>3. cands[d].est = m /\ d < c
    BY <1>3, <1>6, <2>2 DEF Before
  <2>4. c <= d
    BY <1>5, <2>1, <2>3
  <2> QED
    BY <1>6, <2>2, <2>3, <2>4
<1>8. {d \in DOMAIN cands : SameGroup(d, c) /\ Before(d, c)} = {}
  BY <1>7
<1>9. Shortlisted(c)
  <2>1. Cardinality({d \in DOMAIN cands : SameGroup(d, c) /\ Before(d, c)}) = 0
    BY <1>8, FS_EmptySet
  <2>2. Finalists \in Nat \ {0}
    BY SearchConstants
  <2> QED
    BY <2>1, <2>2 DEF Shortlisted
<1>10. cands[c].est <= cands[c0].est
  BY <1>0, <1>2, <1>6
<1> QED
  BY <1>6, <1>9, <1>10

\* So some candidate is timed.
LEMMA SomeFinalist ==
  ASSUME NEW k \in Nat, k > 0, DOMAIN cands = 1 .. k,
         \A c \in DOMAIN cands : cands[c].est \in Nat
  PROVE  \E c \in DOMAIN cands : Shortlisted(c)
<1>1. 1 \in DOMAIN cands
  OBVIOUS
<1> QED
  BY <1>1, GroupHasFinalist, SMTT(60)
-----------------------------------------------------------------------------
(* Placements.                                                             *)

\* Only a striped cache is placed by the reserve.
LEMMA PlacedAlike ==
  ASSUME NEW p, NEW dev, NEW mean, NEW tier, NEW dr, NEW hr, tier # "stripe"
  PROVE  _kv_place(p, dev, mean, tier, dr, hr) = _kv_place(p, dev, mean, tier, 0, 0)
  BY DEF _kv_place

LEMMA PlaceIsPair ==
  ASSUME NEW p, NEW dev, NEW mean, NEW tier, NEW dr, NEW hr
  PROVE  LET place == _kv_place(p, dev, mean, tier, dr, hr)
         IN  place = [split |-> place.split, caps |-> place.caps]
  BY DEF _kv_place

\* A fill puts no more on a tier than it has room for, nor than there is.
LEMMA FillFits ==
  ASSUME NEW amount \in Nat, NEW avail, \A t \in Dram : avail[t] \in Nat
  PROVE  /\ FillDown(amount, avail) \in [Tiers -> Nat]
         /\ \A t \in Dram : FillDown(amount, avail)[t] <= avail[t]
         /\ \A t \in Tiers : FillDown(amount, avail)[t] <= amount
<1> DEFINE g == Smaller(amount, avail["gpu"])
           h == Smaller(amount - g, avail["host"])
           c == Smaller(amount - g - h, avail["cxl"])
           n == amount - g - h - c
<1>1. avail["gpu"] \in Nat /\ avail["host"] \in Nat /\ avail["cxl"] \in Nat
  BY DEF Dram
<1>2. g \in Nat /\ g <= amount /\ g <= avail["gpu"]
  BY <1>1 DEF Smaller
<1> HIDE DEF g
<1>3. h \in Nat /\ h <= amount - g /\ h <= avail["host"]
  BY <1>1, <1>2 DEF Smaller
<1> HIDE DEF h
<1>4. c \in Nat /\ c <= amount - g - h /\ c <= avail["cxl"]
  BY <1>1, <1>2, <1>3 DEF Smaller
<1> HIDE DEF c
<1>5. n \in Nat /\ n <= amount /\ c <= amount /\ h <= amount
  BY <1>2, <1>3, <1>4
<1> HIDE DEF n
<1>6. FillDown(amount, avail)
        = [t \in Tiers |-> CASE t = "gpu" -> g [] t = "host" -> h [] t = "cxl" -> c
                             [] t = "nand" -> n]
  BY DEF FillDown, g, h, c, n
<1>7. /\ FillDown(amount, avail)["gpu"] = g /\ FillDown(amount, avail)["host"] = h
      /\ FillDown(amount, avail)["cxl"] = c /\ FillDown(amount, avail)["nand"] = n
      /\ DOMAIN FillDown(amount, avail) = Tiers
      /\ FillDown(amount, avail) = [t \in Tiers |-> FillDown(amount, avail)[t]]
  BY <1>6 DEF Tiers, Dram
<1>8. \A t \in Tiers : t = "gpu" \/ t = "host" \/ t = "cxl" \/ t = "nand"
  BY DEF Tiers, Dram
<1>9. \A t \in Tiers : FillDown(amount, avail)[t] \in Nat /\ FillDown(amount, avail)[t] <= amount
  BY <1>2, <1>3, <1>4, <1>5, <1>7, <1>8
<1>10. \A t \in Dram : FillDown(amount, avail)[t] <= avail[t]
  BY <1>2, <1>3, <1>4, <1>7 DEF Dram
<1> QED
  BY <1>7, <1>9, <1>10

\* A reserve is no larger than the sizes it is a share of.
LEMMA SplitFits ==
  ASSUME NEW f \in 0 .. Whole, NEW how \in {"even", "host", "device"},
         NEW host \in Nat, NEW dev \in Nat
  PROVE  /\ _split(f, how, host, dev)[1] \in Nat /\ _split(f, how, host, dev)[1] <= dev
         /\ _split(f, how, host, dev)[2] \in Nat /\ _split(f, how, host, dev)[2] <= host
<1>0. Whole \in Nat \ {0} /\ f \in Nat /\ f <= Whole
  BY SearchConstants
<1> DEFINE r == (f * (host + dev)) \div Whole
           h == Smaller(r, host)
           d == Smaller(r, dev)
<1>1. r \in Nat
  BY <1>0, ShareOf
<1> HIDE DEF r
<1>2. h \in Nat /\ h <= host /\ h <= r /\ d \in Nat /\ d <= dev /\ d <= r
  BY <1>1 DEF Smaller
<1> HIDE DEF h, d
<1>3. /\ Smaller(r - h, dev) \in Nat /\ Smaller(r - h, dev) <= dev
      /\ Smaller(r - d, host) \in Nat /\ Smaller(r - d, host) <= host
  BY <1>1, <1>2 DEF Smaller
<1>4. /\ (dev * f) \div Whole \in Nat /\ (dev * f) \div Whole <= dev
      /\ (host * f) \div Whole \in Nat /\ (host * f) \div Whole <= host
  <2>1. dev * f = f * dev /\ host * f = f * host
    BY <1>0
  <2> QED
    BY <1>0, <2>1, ShareOf
<1>5. _split(f, how, host, dev)
        = CASE how = "even"   -> <<(dev * f) \div Whole, (host * f) \div Whole>>
            [] how = "host"   -> <<Smaller(r - h, dev), h>>
            [] how = "device" -> <<d, Smaller(r - d, host)>>
  BY DEF _split, r, h, d
<1>6. CASE how = "even"
  BY <1>4, <1>5, <1>6
<1>7. CASE how = "host"
  BY <1>2, <1>3, <1>5, <1>7
<1>8. CASE how = "device"
  BY <1>2, <1>3, <1>5, <1>8, SMTT(60)
<1> QED
  BY <1>6, <1>7, <1>8

\* A placement takes from each tier what it leaves out of its capacity, and a
\* striped cache leaves its reserve.
LEMMA PlaceFits ==
  ASSUME inst \in Platforms, NEW dev \in Nat, NEW mean \in Nat, NEW tier \in KvTiers,
         NEW dr \in Nat, NEW hr \in Nat, tier = "stripe" => dr <= dev /\ hr <= inst.host,
         NEW place, place = _kv_place(inst, dev, mean, tier, dr, hr)
  PROVE  /\ \A t \in Dram : place.caps[t] \in Nat
         /\ \A t \in Dram : (mean * place.split.of[t]) \div Larger(1, place.split.total)
                              + place.caps[t] <= Size(inst, dev)[t]
         /\ \A t \in Dram : (mean * place.split.of[t]) \div Larger(1, place.split.total) \in Nat
         /\ tier = "stripe" => dr <= place.caps["cxl"] /\ hr <= place.caps["host"]
<1> DEFINE size == Size(inst, dev)
           tot == inst.weights + mean
           have == [t \in Dram |-> IF t \in From(tier) THEN size[t] ELSE 0]
           rest == [t \in Dram |-> CASE t = "gpu"  -> size[t]
                                     [] t = "host" -> Larger(0, size[t] - hr)
                                     [] t = "cxl"  -> Larger(0, size[t] - dr)]
           took == FillDown(mean, have)
           mixed == FillDown(tot, rest)
<1>1. /\ \A t \in Dram : size[t] \in Nat
      /\ size["cxl"] = dev /\ size["host"] = inst.host
  BY PlatformTyped DEF Size, Dram
<1>2. tot \in Nat \ {0} /\ mean <= tot
  <2>1. inst.weights \in Nat \ {0}
    BY PlatformTyped
  <2> QED
    BY <2>1
<1>3. /\ \A t \in Dram : have[t] \in Nat /\ have[t] <= size[t]
      /\ \A t \in Dram : rest[t] \in Nat /\ rest[t] <= size[t]
      /\ (tier = "stripe" => rest["cxl"] = dev - dr /\ rest["host"] = inst.host - hr)
  <2> HIDE DEF size
  <2>1. \A t \in Dram : have[t] \in Nat /\ have[t] <= size[t]
    BY <1>1
  <2>2. \A t \in Dram : rest[t] \in Nat /\ rest[t] <= size[t]
    BY <1>1 DEF Dram, Larger
  <2>3. tier = "stripe" => rest["cxl"] = dev - dr /\ rest["host"] = inst.host - hr
    BY <1>1, PlatformTyped, SMTT(60) DEF Dram, Larger
  <2> QED
    BY <2>1, <2>2, <2>3
<1>4. place = IF tier = "stripe"
              THEN [split |-> [of |-> mixed, total |-> tot],
                    caps |-> [t \in Dram |-> size[t] - (mean * mixed[t]) \div tot]]
              ELSE [split |-> [of |-> took, total |-> mean],
                    caps |-> [t \in Dram |-> size[t] - took[t]]]
  BY DEF _kv_place
<1> HIDE DEF size, have, rest, tot
<1>5. /\ \A t \in Dram : took[t] \in Nat /\ took[t] <= size[t] /\ took[t] <= mean
      /\ \A t \in Dram : mixed[t] \in Nat /\ mixed[t] <= rest[t]
  <2>1. Dram \subseteq Tiers
    BY DEF Tiers
  <2>2. /\ took \in [Tiers -> Nat] /\ (\A t \in Dram : took[t] <= have[t])
        /\ \A t \in Tiers : took[t] <= mean
    BY <1>3, FillFits
  <2>3. mixed \in [Tiers -> Nat] /\ \A t \in Dram : mixed[t] <= rest[t]
    BY <1>2, <1>3, FillFits
  <2> HIDE DEF took, mixed
  <2>4. \A t \in Dram : took[t] \in Nat /\ took[t] <= size[t] /\ took[t] <= mean
    BY <1>1, <1>3, <2>1, <2>2
  <2> QED
    BY <2>1, <2>3, <2>4
<1> HIDE DEF took, mixed
<1>6. CASE tier = "stripe"
  <2>1. /\ place.split.of = mixed /\ Larger(1, place.split.total) = tot
        /\ \A t \in Dram : place.caps[t] = size[t] - (mean * mixed[t]) \div tot
    BY <1>2, <1>4, <1>6 DEF Larger
  <2>2. \A t \in Dram : (mean * mixed[t]) \div tot \in Nat /\ (mean * mixed[t]) \div tot <= mixed[t]
    BY <1>2, <1>5, ShareOf
  <2>3. \A t \in Dram : place.caps[t] \in Nat /\ place.caps[t] >= size[t] - rest[t]
    <3> SUFFICES ASSUME NEW t \in Dram
                 PROVE  place.caps[t] \in Nat /\ place.caps[t] >= size[t] - rest[t]
      OBVIOUS
    <3> DEFINE q == (mean * mixed[t]) \div tot
    <3>1. q \in Nat /\ q <= mixed[t] /\ place.caps[t] = size[t] - q
      BY <2>1, <2>2
    <3> HIDE DEF q
    <3> QED
      BY <1>1, <1>3, <1>5, <3>1
  <2>4. \A t \in Dram : (mean * mixed[t]) \div tot + place.caps[t] = size[t]
    <3> SUFFICES ASSUME NEW t \in Dram
                 PROVE  (mean * mixed[t]) \div tot + place.caps[t] = size[t]
      OBVIOUS
    <3> DEFINE q == (mean * mixed[t]) \div tot
    <3>1. q \in Nat /\ place.caps[t] = size[t] - q
      BY <2>1, <2>2
    <3> HIDE DEF q
    <3>2. q + place.caps[t] = size[t]
      BY <1>1, <3>1
    <3> QED
      BY <3>2 DEF q
  <2>5. dr <= place.caps["cxl"] /\ hr <= place.caps["host"]
    <3>1. "cxl" \in Dram /\ "host" \in Dram
      BY DEF Dram
    <3>2. /\ place.caps["cxl"] \in Nat /\ place.caps["cxl"] >= size["cxl"] - rest["cxl"]
          /\ place.caps["host"] \in Nat /\ place.caps["host"] >= size["host"] - rest["host"]
      BY <2>3, <3>1
    <3>3. rest["cxl"] = dev - dr /\ rest["host"] = inst.host - hr /\ inst.host \in Nat
      BY <1>3, <1>6, PlatformTyped
    <3> QED
      BY <1>1, <3>2, <3>3
  <2>6. \A t \in Dram : Size(inst, dev)[t] = size[t] /\ size[t] \in Int
    BY <1>1 DEF size
  <2> QED
    BY <2>1, <2>2, <2>3, <2>4, <2>5, <2>6
<1>7. CASE tier # "stripe"
  <2>1. /\ place.split.of = took /\ Larger(1, place.split.total) = Larger(1, mean)
        /\ \A t \in Dram : place.caps[t] = size[t] - took[t]
    BY <1>4, <1>7
  <2>2. Larger(1, mean) \in Nat \ {0} /\ mean <= Larger(1, mean)
    BY DEF Larger
  <2>3. \A t \in Dram : /\ (mean * took[t]) \div Larger(1, mean) \in Nat
                        /\ (mean * took[t]) \div Larger(1, mean) <= took[t]
    BY <1>5, <2>2, ShareOf
  <2>4. \A t \in Dram : place.caps[t] \in Nat /\ took[t] + place.caps[t] = size[t]
    BY <1>1, <1>5, <2>1
  <2>5. \A t \in Dram : (mean * took[t]) \div Larger(1, mean) + place.caps[t] <= size[t]
    <3> SUFFICES ASSUME NEW t \in Dram
                 PROVE  (mean * took[t]) \div Larger(1, mean) + place.caps[t] <= size[t]
      OBVIOUS
    <3> DEFINE q == (mean * took[t]) \div Larger(1, mean)
    <3>1. q \in Nat /\ q <= took[t]
      BY <2>3
    <3> HIDE DEF q
    <3>2. q + place.caps[t] <= size[t]
      BY <1>1, <1>5, <2>4, <3>1
    <3> QED
      BY <3>2 DEF q
  <2> QED
    BY <1>7, <2>1, <2>3, <2>4, <2>5 DEF size
<1> QED
  BY <1>6, <1>7

\* The weights leave the reserve free.
LEMMA WeightsFit ==
  ASSUME inst \in Platforms, NEW left, \A t \in Dram : left[t] \in Nat,
         NEW dr \in Nat, NEW hr \in Nat, dr <= left["cxl"], hr <= left["host"]
  PROVE  /\ PlanOf(left, dr, hr) \in [Tiers -> Nat]
         /\ PlanOf(left, dr, hr)["gpu"] <= left["gpu"]
         /\ PlanOf(left, dr, hr)["host"] + hr <= left["host"]
         /\ PlanOf(left, dr, hr)["cxl"] + dr <= left["cxl"]
<1> DEFINE avail == [t \in Dram |-> CASE t = "gpu"  -> left["gpu"]
                                      [] t = "host" -> Larger(0, left["host"] - hr)
                                      [] t = "cxl"  -> Larger(0, left["cxl"] - dr)]
           all == inst.weights + inst.table
<1>1. left["gpu"] \in Nat /\ left["host"] \in Nat /\ left["cxl"] \in Nat
  BY DEF Dram
<1>2. /\ avail["gpu"] = left["gpu"] /\ avail["host"] = left["host"] - hr
      /\ avail["cxl"] = left["cxl"] - dr
  BY <1>1 DEF Dram, Larger
<1>3. all \in Nat /\ \A t \in Dram : avail[t] \in Nat
  <2>1. all \in Nat
    BY PlatformTyped, SMTT(60)
  <2> HIDE DEF avail
  <2>2. avail["gpu"] \in Nat /\ avail["host"] \in Nat /\ avail["cxl"] \in Nat
    BY <1>1, <1>2
  <2> QED
    BY <2>1, <2>2 DEF Dram
<1>4. PlanOf(left, dr, hr) = FillDown(all, avail)
  BY DEF PlanOf
<1> HIDE DEF avail, all
<1>5. /\ PlanOf(left, dr, hr) \in [Tiers -> Nat]
      /\ \A t \in Dram : PlanOf(left, dr, hr)[t] <= avail[t]
  BY <1>3, <1>4, FillFits
<1>6. PlanOf(left, dr, hr)["host"] \in Nat /\ PlanOf(left, dr, hr)["cxl"] \in Nat
  BY <1>5 DEF Tiers, Dram
<1> QED
  BY <1>1, <1>2, <1>5, <1>6 DEF Dram

\* The room is what the reserve and the weights leave of the cache's last tier.
LEMMA RoomFits ==
  ASSUME NEW split, NEW left, NEW plan, NEW dr \in Nat, NEW hr \in Nat,
         \A t \in Dram : left[t] \in Nat, plan \in [Tiers -> Nat],
         plan["gpu"] <= left["gpu"], plan["host"] + hr <= left["host"],
         plan["cxl"] + dr <= left["cxl"], NEW t \in Dram
  PROVE  LET res == CASE t = "gpu" -> 0 [] t = "host" -> hr [] t = "cxl" -> dr
         IN  plan[t] + res + (IF t = LastTier(split) THEN _kv_headroom(split, left, plan, dr, hr)
                              ELSE 0) <= left[t]
<1>1. /\ left["gpu"] \in Nat /\ left["host"] \in Nat /\ left["cxl"] \in Nat
      /\ plan["gpu"] \in Nat /\ plan["host"] \in Nat /\ plan["cxl"] \in Nat
  BY DEF Dram, Tiers
<1> DEFINE tail == LastTier(split)
           room_ == _kv_headroom(split, left, plan, dr, hr)
<1>2. tail = t => \/ room_ = 0
                  \/ room_ = Larger(0, left[t] - (CASE t = "host" -> hr [] t = "cxl" -> dr
                                                   [] OTHER -> 0) - plan[t])
  BY DEF _kv_headroom
<1> HIDE DEF tail, room_
<1>3. CASE t = "gpu"
  BY <1>1, <1>2, <1>3 DEF Larger, tail, room_
<1>4. CASE t = "host"
  <2>1. tail = t => room_ = 0 \/ room_ = Larger(0, left["host"] - hr - plan["host"])
    BY <1>2, <1>4
  <2>2. tail = t => plan["host"] + hr + room_ <= left["host"]
    BY <1>1, <2>1 DEF Larger
  <2> QED
    BY <1>1, <1>4, <2>2 DEF tail, room_
<1>5. CASE t = "cxl"
  <2>1. tail = t => room_ = 0 \/ room_ = Larger(0, left["cxl"] - dr - plan["cxl"])
    BY <1>2, <1>5
  <2>2. tail = t => plan["cxl"] + dr + room_ <= left["cxl"]
    BY <1>1, <2>1 DEF Larger
  <2> QED
    BY <1>1, <1>5, <2>2 DEF tail, room_
<1> QED
  BY <1>3, <1>4, <1>5 DEF Dram
-----------------------------------------------------------------------------
(* Candidates and winner keep their placement: SearchInv.                  *)

LEMMA InitSearchInv ==
  ASSUME Init
  PROVE  SearchInv
<1>1. cands = << >> /\ Len(cands) = 0 /\ DOMAIN cands = {}
  BY DEF Init
<1>2. cands = [c \in 1 .. Len(cands) |-> cands[c]]
  BY <1>1
<1> QED
  BY <1>1, <1>2 DEF Init, SearchInv, CandsPlaced, BestPlaced, FindsSome, DecodesAsTimed

LEMMA BeginKeeps ==
  ASSUME SearchInv, Begin
  PROVE  SearchInv'
<1>1. /\ cands' = << >> /\ group' = 0 /\ best' = << >> /\ pc' = "group"
      /\ UNCHANGED <<inst, turn, toTime>> /\ pc = "begin"
  BY DEF Begin
<1>2. /\ inst \in Platforms /\ turn \in Nat /\ toTime = {}
  BY <1>1 DEF SearchInv
<1>3. Len(cands') = 0 /\ DOMAIN cands' = {} /\ cands' = [c \in 1 .. Len(cands') |-> cands'[c]]
  BY <1>1
<1>4. DecodesAsTimed'
  BY <1>1 DEF DecodesAsTimed
<1>5. CandsPlaced' /\ BestPlaced' /\ FindsSome'
  BY <1>1, <1>3 DEF CandsPlaced, BestPlaced, FindsSome
<1> QED
  BY <1>1, <1>2, <1>3, <1>4, <1>5 DEF SearchInv

\* Nothing else the search changes bears on where a candidate's cache goes.
LEMMA KeepsCandidates ==
  ASSUME CandsPlaced, UNCHANGED <<inst, cands>>
  PROVE  CandsPlaced'
BY DEF CandsPlaced, PlaceOf

LEMMA KeepsBest ==
  ASSUME BestPlaced, UNCHANGED <<inst, best>>
  PROVE  BestPlaced'
BY DEF BestPlaced, PlaceOf, UnderOf

\* Nor, while a group is tried, on which group it is.
LEMMA SameGroups ==
  ASSUME UNCHANGED <<inst, sweep>>
  PROVE  /\ _dev_caps' = _dev_caps /\ _kv_opts' = _kv_opts /\ Groups' = Groups
<1>1. Device' = Device
  BY DEF Device
<1>2. Below' = Below
  BY <1>1 DEF Below
<1>3. _dev_caps' = _dev_caps /\ _kv_opts' = _kv_opts
  BY <1>1, <1>2 DEF _dev_caps, _kv_opts
<1> QED
  BY <1>3 DEF Groups

LEMMA SameTurn ==
  ASSUME UNCHANGED <<inst, sweep, group>>
  PROVE  /\ GroupDev(group)' = GroupDev(group) /\ GroupTier(group)' = GroupTier(group)
         /\ KvMean(inst, GroupLevel(group))' = KvMean(inst, GroupLevel(group))
         /\ Striping' = Striping
BY SameGroups DEF GroupDev, GroupTier, GroupLevel, Striping

LEMMA OpenGroupKeeps ==
  ASSUME SearchInv, OpenGroup
  PROVE  SearchInv'
<1>1. CandsPlaced' /\ BestPlaced'
  BY KeepsCandidates, KeepsBest DEF SearchInv, OpenGroup
<1>2. GroupPlaced'
  <2>1. /\ caps0' = GroupDev(group) /\ kv_mean' = KvMean(inst, GroupLevel(group))
        /\ kv_split' = _kv_place(inst, caps0', kv_mean', GroupTier(group), 0, 0).split
        /\ caps' = _kv_place(inst, caps0', kv_mean', GroupTier(group), 0, 0).caps
        /\ UNCHANGED <<inst, sweep, group>>
    BY DEF OpenGroup
  <2>2. [split |-> kv_split', caps |-> caps']
          = _kv_place(inst, caps0', kv_mean', GroupTier(group), 0, 0)
    BY <2>1, PlaceIsPair
  <2> QED
    BY <2>1, <2>2, SameTurn DEF GroupPlaced
<1>3. FindsSome'
  BY DEF SearchInv, OpenGroup, FindsSome
<1> QED
  BY <1>1, <1>2, <1>3 DEF SearchInv, OpenGroup, DecodesAsTimed

LEMMA TryReserveKeeps ==
  ASSUME SearchInv, TryReserve, \A c, x : StepTime(c, x) \in Nat
  PROVE  SearchInv'
<1> DEFINE dr == ReserveAt(turn)[1]
           hr == ReserveAt(turn)[2]
           place == IF Striping THEN _kv_place(inst, caps0, kv_mean, "stripe", dr, hr)
                    ELSE [split |-> kv_split, caps |-> caps]
           found == [m \in DOMAIN Modes |-> Candidate(place, Modes[m], dr, hr)]
<1>1. /\ kv_split' = place.split /\ caps' = place.caps
      /\ \/ <<dr, hr>> \in seen /\ UNCHANGED <<seen, cands>>
         \/ seen' = seen \cup {<<dr, hr>>} /\ cands' = cands \o found
      /\ turn' = turn + 1 /\ pc = "reserve"
      /\ UNCHANGED <<inst, sweep, pc, caps0, kv_mean, group, toTime, best>>
  BY DEF TryReserve
<1>2. GroupPlaced /\ CandsPlaced /\ BestPlaced /\ FindsSome /\ turn \in Nat
  BY <1>1 DEF SearchInv
<1>3. place = _kv_place(inst, caps0, kv_mean, GroupTier(group), dr, hr)
  <2> HIDE DEF dr, hr
  <2>1. CASE Striping
    BY <2>1 DEF Striping
  <2>2. CASE ~Striping
    <3>1. GroupTier(group) # "stripe"
      BY <2>2 DEF Striping
    <3>2. _kv_place(inst, caps0, kv_mean, GroupTier(group), dr, hr)
            = _kv_place(inst, caps0, kv_mean, GroupTier(group), 0, 0)
      BY <3>1, PlacedAlike
    <3> QED
      BY <2>2, <3>2, <1>2 DEF GroupPlaced
  <2> QED
    BY <2>1, <2>2
<1>4. ASSUME NEW m PROVE /\ Candidate(place, m, dr, hr).place = PlaceOf(Candidate(place, m, dr, hr))
                         /\ Candidate(place, m, dr, hr).est \in Nat
  <2> HIDE DEF dr, hr, place
  <2> QED
    BY <1>2, <1>3 DEF Candidate, PlaceOf, GroupPlaced
<1>5. [split |-> kv_split', caps |-> caps'] = place
  <2> HIDE DEF dr, hr
  <2>1. place = [split |-> place.split, caps |-> place.caps]
    BY <1>3, PlaceIsPair
  <2> QED
    BY <1>1, <2>1
<1>6. GroupPlaced'
  <2>1. ~Striping => place = [split |-> kv_split, caps |-> caps]
    OBVIOUS
  <2> HIDE DEF place
  <2> QED
    BY <1>1, <1>2, <1>5, <2>1, SameTurn DEF GroupPlaced
<1>7. CASE UNCHANGED <<seen, cands>> /\ <<dr, hr>> \in seen
  <2> HIDE DEF place, dr, hr, found
  <2>1. CandsPlaced' /\ BestPlaced'
    BY <1>1, <1>2, <1>7, KeepsCandidates, KeepsBest
  <2>2. FindsSome'
    BY <1>1, <1>2, <1>7 DEF FindsSome
  <2> QED
    BY <1>1, <1>2, <1>6, <1>7, <2>1, <2>2 DEF SearchInv, DecodesAsTimed
<1>8. CASE seen' = seen \cup {<<dr, hr>>} /\ cands' = cands \o found
  <2>1. DOMAIN Modes = 1 .. 3
    BY DEF Modes
  <2>2. /\ found = [x \in 1 .. 3 |-> found[x]]
        /\ \A x \in 1 .. 3 : found[x] = Candidate(place, Modes[x], dr, hr)
    BY <2>1
  <2> HIDE DEF place, dr, hr, found
  <2> DEFINE k == Len(cands)
  <2>3. k \in Nat /\ cands = [c \in 1 .. k |-> cands[c]] /\ DOMAIN cands = 1 .. k
    BY <1>2 DEF CandsPlaced
  <2> HIDE DEF k
  <2>4. /\ Len(cands') = k + 3 /\ DOMAIN cands' = 1 .. (k + 3)
        /\ cands' = [x \in 1 .. (k + 3) |-> cands'[x]]
        /\ \A x \in 1 .. (k + 3) : cands'[x] = IF x <= k THEN cands[x] ELSE found[x - k]
    BY <1>8, <2>2, <2>3, Appended, SMTT(60)
  <2>5. \A x \in 1 .. (k + 3) : cands'[x].place = PlaceOf(cands'[x]) /\ cands'[x].est \in Nat
    <3> SUFFICES ASSUME NEW x \in 1 .. (k + 3)
                 PROVE  cands'[x].place = PlaceOf(cands'[x]) /\ cands'[x].est \in Nat
      OBVIOUS
    <3>1. CASE x <= k
      <4>1. x \in DOMAIN cands /\ cands'[x] = cands[x]
        BY <2>3, <2>4, <3>1
      <4> QED
        BY <1>2, <4>1 DEF CandsPlaced
    <3>2. CASE ~(x <= k)
      <4>1. x - k \in 1 .. 3 /\ cands'[x] = found[x - k]
        BY <2>3, <2>4, <3>2
      <4>2. cands'[x] = Candidate(place, Modes[x - k], dr, hr)
        BY <4>1, <2>2
      <4> QED
        BY <1>4, <4>2
    <3> QED
      BY <3>1, <3>2
  <2>6. CandsPlaced'
    BY <1>1, <2>3, <2>4, <2>5 DEF CandsPlaced, PlaceOf
  <2>7. toTime' \subseteq DOMAIN cands' /\ cands' # << >>
    <3>1. 1 \in DOMAIN cands' /\ DOMAIN cands \subseteq DOMAIN cands'
      BY <2>3, <2>4
    <3> QED
      BY <1>1, <3>1 DEF SearchInv
  <2>8. BestPlaced' /\ FindsSome'
    BY <1>1, <1>2, <1>8, <2>7, KeepsBest DEF FindsSome
  <2> QED
    BY <1>1, <1>2, <1>6, <2>6, <2>7, <2>8 DEF SearchInv, DecodesAsTimed
<1> QED
  BY <1>1, <1>7, <1>8

LEMMA NextGroupKeeps ==
  ASSUME SearchInv, NextGroup
  PROVE  SearchInv'
<1>1. CandsPlaced' /\ BestPlaced'
  BY KeepsCandidates, KeepsBest DEF SearchInv, NextGroup
<1>2. cands # << >>
  BY HasGroups DEF SearchInv, NextGroup, FindsSome
<1>3. FindsSome'
  BY <1>2 DEF NextGroup, FindsSome
<1> QED
  BY <1>1, <1>3 DEF SearchInv, NextGroup, DecodesAsTimed

LEMMA ShortlistKeeps ==
  ASSUME SearchInv, Shortlist
  PROVE  SearchInv'
<1>1. CandsPlaced' /\ BestPlaced'
  BY KeepsCandidates, KeepsBest DEF SearchInv, Shortlist
<1>2. cands # << >>
  BY HasGroups DEF SearchInv, Shortlist, FindsSome
<1> DEFINE k == Len(cands)
<1>3. k \in Nat /\ DOMAIN cands = 1 .. k /\ cands = [c \in 1 .. k |-> cands[c]]
  BY DEF SearchInv, CandsPlaced
<1>4. k > 0
  <2>1. CASE k = 0
    <3>1. cands = << >>
      BY <1>3, <2>1
    <3> QED
      BY <1>2, <3>1
  <2> QED
    BY <1>3, <2>1
<1>5. \A c \in DOMAIN cands : cands[c].est \in Nat
  BY DEF SearchInv, CandsPlaced
<1> HIDE DEF k
<1>6. \E c \in DOMAIN cands : Shortlisted(c)
  BY <1>3, <1>4, <1>5, SomeFinalist
<1>7. toTime' # {} /\ toTime' \subseteq DOMAIN cands' /\ pc' = "time"
  BY <1>6 DEF Shortlist
<1> QED
  BY <1>1, <1>7 DEF SearchInv, Shortlist, FindsSome, DecodesAsTimed

LEMMA TimeFinalistKeeps ==
  ASSUME SearchInv, TimeFinalist
  PROVE  SearchInv'
<1>1. PICK i \in toTime :
        /\ best' = IF Better(Timed(cands[i])) THEN Timed(cands[i]) ELSE best
        /\ toTime' = toTime \ {i}
  BY DEF TimeFinalist
<1>2. /\ pc = "time" /\ pc' = "time" /\ UNCHANGED <<inst, group, turn, cands>>
      /\ CandsPlaced /\ BestPlaced /\ i \in DOMAIN cands
  BY <1>1 DEF SearchInv, TimeFinalist
<1>3. CandsPlaced'
  BY <1>2, KeepsCandidates
<1> DEFINE t == Timed(cands[i])
<1>4. t # << >> /\ t.cand = cands[i] /\ t.under = UnderOf(cands[i])
  <2>1. "time" \in DOMAIN t
    BY DEF Timed
  <2>2. t # << >>
    BY <2>1
  <2>3. t.cand = cands[i] /\ t.under = UnderOf(cands[i])
    BY DEF Timed, UnderOf, PlaceOf
  <2> QED
    BY <2>2, <2>3
<1>5. t.cand.place = PlaceOf(t.cand)
  BY <1>2, <1>4 DEF CandsPlaced
<1> HIDE DEF t
<1>6. best' # << >>
  BY <1>1, <1>4 DEF Better, t
<1>7. BestPlaced'
  <2>1. CASE best' = t
    BY <1>2, <1>4, <1>5, <2>1 DEF BestPlaced, PlaceOf, UnderOf
  <2>2. CASE best' = best
    BY <1>2, <2>2, KeepsBest
  <2> QED
    BY <1>1, <2>1, <2>2 DEF t
<1> QED
  BY <1>1, <1>2, <1>3, <1>6, <1>7 DEF SearchInv, FindsSome, DecodesAsTimed

LEMMA EstablishKeeps ==
  ASSUME SearchInv, Establish
  PROVE  SearchInv'
<1>1. CandsPlaced' /\ BestPlaced'
  BY KeepsCandidates, KeepsBest DEF SearchInv, Establish
<1>2. best # << >> /\ BestPlaced
  BY DEF SearchInv, Establish, FindsSome
<1> DEFINE b == best.cand
<1>3. /\ caps0' = b.dev /\ kv_mean' = KvMean(inst, b.level)
      /\ kv_split' = PlaceOf(b).split /\ caps' = PlaceOf(b).caps
      /\ room' = _kv_headroom(PlaceOf(b).split, PlaceOf(b).caps, b.plan, b.dr, b.hr)
      /\ settings' = "served" /\ pc' = "decode"
      /\ UNCHANGED <<inst, group, turn, cands, toTime, best>> /\ toTime = {}
  BY DEF Establish, MeanOf, PlaceOf
<1>4. b.place = [split |-> kv_split', caps |-> caps']
  <2>1. PlaceOf(b) = [split |-> PlaceOf(b).split, caps |-> PlaceOf(b).caps]
    BY PlaceIsPair DEF PlaceOf
  <2> QED
    BY <1>2, <1>3, <2>1 DEF BestPlaced
<1>5. best.under = Context(kv_split', caps', kv_mean', b.plan, b.dr, b.hr, b.mode)
  BY <1>2, <1>3 DEF BestPlaced, UnderOf
<1>6. best.under.room = room'
  BY <1>3, <1>5 DEF Context
<1>7. DecodesAsTimed'
  BY <1>3, <1>4, <1>5, <1>6 DEF DecodesAsTimed
<1> QED
  BY <1>1, <1>3, <1>7 DEF SearchInv, FindsSome

LEMMA DecodeKeeps ==
  ASSUME SearchInv, Decode
  PROVE  SearchInv'
<1>1. CandsPlaced' /\ BestPlaced'
  BY KeepsCandidates, KeepsBest DEF SearchInv, Decode
<1> QED
  BY <1>1 DEF SearchInv, Decode, FindsSome, DecodesAsTimed

LEMMA StutterKeeps ==
  ASSUME SearchInv, UNCHANGED vars
  PROVE  SearchInv'
<1>1. CandsPlaced' /\ BestPlaced'
  BY KeepsCandidates, KeepsBest DEF SearchInv, vars
<1>2. GroupPlaced' <=> GroupPlaced
  BY SameTurn DEF vars, GroupPlaced
<1> QED
  BY <1>1, <1>2 DEF SearchInv, vars, FindsSome, DecodesAsTimed
-----------------------------------------------------------------------------
(* Candidates and winner fit: FitsInv.                                     *)

LEMMA PlacedByTurn ==
  ASSUME GroupPlaced, NEW dr, NEW hr
  PROVE  PlaceAt(dr, hr) = _kv_place(inst, caps0, kv_mean, GroupTier(group), dr, hr)
<1>1. CASE Striping
  BY <1>1 DEF Striping, PlaceAt
<1>2. CASE ~Striping
  <2>1. GroupTier(group) # "stripe"
    BY <1>2 DEF Striping
  <2>2. _kv_place(inst, caps0, kv_mean, GroupTier(group), dr, hr)
          = _kv_place(inst, caps0, kv_mean, GroupTier(group), 0, 0)
    BY <2>1, PlacedAlike
  <2> QED
    BY <1>2, <2>2 DEF GroupPlaced, PlaceAt
<1> QED
  BY <1>1, <1>2

\* The reserve tried fits what the cache leaves.
LEMMA ReserveFits ==
  ASSUME inst \in Platforms, sweep \in DOMAIN inst.devices, group \in Nat, group < Groups,
         GroupPlaced, turn \in Nat, turn < Turns,
         NEW dr, NEW hr, dr = ReserveAt(turn)[1], hr = ReserveAt(turn)[2]
  PROVE  /\ dr \in Nat /\ hr \in Nat
         /\ \A t \in Dram : PlaceAt(dr, hr).caps[t] \in Nat
         /\ dr <= PlaceAt(dr, hr).caps["cxl"] /\ hr <= PlaceAt(dr, hr).caps["host"]
         /\ Striping => dr <= caps0 /\ hr <= inst.host
<1> DEFINE f == ReserveShares[(turn \div Len(Splits)) + 1]
           how == Splits[(turn % Len(Splits)) + 1]
           place == PlaceAt(dr, hr)
<1>1. f \in 0 .. Whole /\ how \in {"even", "host", "device"}
  BY TurnFits
<1>2. /\ caps0 \in Nat /\ kv_mean \in Nat /\ GroupTier(group) \in KvTiers /\ inst.host \in Nat
  BY GroupFits, KvMeanTyped, PlatformTyped DEF GroupPlaced
<1>3. place = _kv_place(inst, caps0, kv_mean, GroupTier(group), dr, hr)
  BY PlacedByTurn
<1>4. ReserveAt(turn) = IF Striping THEN _split(f, how, inst.host, caps0)
                        ELSE _split(f, how, caps["host"], caps["cxl"])
  BY DEF ReserveAt
<1> HIDE DEF f, how, place
<1>5. CASE Striping
  <2>1. dr \in Nat /\ hr \in Nat /\ dr <= caps0 /\ hr <= inst.host
    BY <1>1, <1>2, <1>4, <1>5, SplitFits
  <2>2. /\ \A t \in Dram : place.caps[t] \in Nat
        /\ dr <= place.caps["cxl"] /\ hr <= place.caps["host"]
    BY <1>2, <1>3, <1>5, <2>1, PlaceFits, ZenonT(60) DEF Striping
  <2> QED
    BY <2>1, <2>2 DEF place
<1>6. CASE ~Striping
  <2>1. place = [split |-> kv_split, caps |-> caps]
        /\ place = _kv_place(inst, caps0, kv_mean, GroupTier(group), 0, 0)
        /\ GroupTier(group) # "stripe"
    BY <1>6 DEF GroupPlaced, place, PlaceAt, Striping
  <2>2. place.caps = caps
    BY <2>1
  <2>3. \A t \in Dram : caps[t] \in Nat
    BY <1>2, <2>1, <2>2, PlaceFits
  <2>4. caps["host"] \in Nat /\ caps["cxl"] \in Nat
    BY <2>3 DEF Dram
  <2>5. dr \in Nat /\ hr \in Nat /\ dr <= caps["cxl"] /\ hr <= caps["host"]
    BY <1>1, <1>4, <1>6, <2>4, SplitFits
  <2> QED
    BY <1>6, <2>2, <2>3, <2>5 DEF place
<1> QED
  BY <1>5, <1>6

LEMMA CandidateFits ==
  ASSUME SearchInv, FitsInv, pc = "reserve", turn < Turns, NEW m,
         NEW dr, NEW hr, dr = ReserveAt(turn)[1], hr = ReserveAt(turn)[2]
  PROVE  Fits(Candidate(PlaceAt(dr, hr), m, dr, hr))
<1> DEFINE place == PlaceAt(dr, hr)
           c == Candidate(place, m, dr, hr)
<1>1. /\ inst \in Platforms /\ group \in Nat /\ turn \in Nat /\ GroupPlaced
      /\ sweep \in DOMAIN inst.devices /\ group < Groups
  BY DEF SearchInv, FitsInv
<1>2. /\ dr \in Nat /\ hr \in Nat
      /\ \A t \in Dram : place.caps[t] \in Nat
      /\ dr <= place.caps["cxl"] /\ hr <= place.caps["host"]
      /\ (Striping => dr <= caps0 /\ hr <= inst.host)
  BY <1>1, ReserveFits
<1>3. place = _kv_place(inst, caps0, kv_mean, GroupTier(group), dr, hr)
  BY <1>1, PlacedByTurn
<1> HIDE DEF place
<1>4. /\ c.dev = caps0 /\ c.dr = dr /\ c.hr = hr /\ c.tier = GroupTier(group)
      /\ c.level = GroupLevel(group) /\ c.plan = PlanOf(place.caps, dr, hr)
  BY DEF Candidate
<1> HIDE DEF c
<1>5. PlaceOf(c) = place
  BY <1>1, <1>3, <1>4 DEF PlaceOf, GroupPlaced
<1>6. /\ c.plan \in [Tiers -> Nat]
      /\ c.plan["gpu"] <= place.caps["gpu"]
      /\ c.plan["host"] + hr <= place.caps["host"]
      /\ c.plan["cxl"] + dr <= place.caps["cxl"]
  BY <1>1, <1>2, <1>4, WeightsFit
<1>7. \A t \in Dram : c.plan[t] + ReservedFor(c, t) <= PlaceOf(c).caps[t]
  <2>1. c.plan["gpu"] \in Nat
    BY <1>6 DEF Tiers, Dram
  <2>2. c.plan["gpu"] + 0 <= place.caps["gpu"]
    BY <1>6, <2>1
  <2> QED
    BY <1>4, <1>5, <1>6, <2>2 DEF Dram, ReservedFor
<1>8. /\ caps0 \in Nat /\ caps0 <= Device /\ GroupTier(group) \in KvTiers
      /\ GroupLevel(group) \in {1, 2}
  BY <1>1, GroupFits DEF GroupPlaced
<1> QED
  BY <1>2, <1>4, <1>6, <1>7, <1>8 DEF Fits, Striping, c, place

LEMMA FitsStays ==
  ASSUME NEW c, Fits(c), UNCHANGED <<inst, sweep>>
  PROVE  Fits(c)'
BY DEF Fits, PlaceOf, Device

LEMMA InitFits ==
  ASSUME Init
  PROVE  FitsInv
<1>1. inst.devices \in Seq(Nat) \ {<< >>}
  BY PlatformTyped DEF Init
<1>2. Len(inst.devices) \in Nat \ {0} /\ DOMAIN inst.devices = 1 .. Len(inst.devices)
  BY <1>1, EmptySeq, LenProperties
<1> QED
  BY <1>2 DEF Init, FitsInv

LEMMA NextKeepsFits ==
  ASSUME SearchInv, FitsInv, Next
  PROVE  FitsInv'
<1>1. /\ sweep \in DOMAIN inst.devices /\ inst \in Platforms /\ inst' = inst
      /\ (pc = "reserve" => group < Groups)
      /\ (pc # "begin" => /\ \A c \in DOMAIN cands : Fits(cands[c])
                          /\ best # << >> => Fits(best.cand))
  BY DEF FitsInv, SearchInv, Next, Begin, OpenGroup, TryReserve, NextGroup, Shortlist,
         TimeFinalist, Establish, Decode
\* What most steps leave alone.
<1>2. ASSUME sweep' = sweep, cands' = cands, best' = best, pc # "begin",
             pc' = "reserve" => group' < Groups, pc' = "decode" => best # << >>
      PROVE  FitsInv'
  <2>1. Groups' = Groups
    BY <1>1, <1>2, SameGroups
  <2>2. /\ \A c \in DOMAIN cands : Fits(cands[c])'
        /\ best # << >> => Fits(best.cand)'
    BY <1>1, <1>2, FitsStays
  <2> QED
    BY <1>1, <1>2, <2>1, <2>2 DEF FitsInv
<1>3. CASE Begin
  BY <1>1, <1>3 DEF Begin, FitsInv
<1>4. CASE OpenGroup
  BY <1>2, <1>4 DEF OpenGroup
<1>5. CASE TryReserve
  <2> DEFINE dr == ReserveAt(turn)[1]
             hr == ReserveAt(turn)[2]
             found == [m \in DOMAIN Modes |-> Candidate(PlaceAt(dr, hr), Modes[m], dr, hr)]
  <2>1. /\ pc = "reserve" /\ pc' = pc /\ turn < Turns /\ UNCHANGED <<sweep, group, best>>
        /\ cands' = cands \/ cands' = cands \o found
    BY <1>5 DEF TryReserve, PlaceAt
  <2>2. CASE cands' = cands
    BY <1>1, <1>2, <2>1, <2>2
  <2>3. CASE cands' = cands \o found
    <3>1. \A m : Fits(Candidate(PlaceAt(dr, hr), m, dr, hr))
      BY <2>1, CandidateFits
    <3>2. found = [x \in 1 .. 3 |-> found[x]]
          /\ \A x \in 1 .. 3 : Fits(found[x])
      <4>1. DOMAIN Modes = 1 .. 3
        BY DEF Modes
      <4> HIDE DEF dr, hr
      <4> QED
        BY <3>1, <4>1
    <3> HIDE DEF found, dr, hr
    <3> DEFINE n == Len(cands)
    <3>3. n \in Nat /\ cands = [c \in 1 .. n |-> cands[c]] /\ DOMAIN cands = 1 .. n
      BY DEF SearchInv, CandsPlaced
    <3> HIDE DEF n
    <3>4. /\ DOMAIN cands' = 1 .. (n + 3)
          /\ \A x \in 1 .. (n + 3) : cands'[x] = IF x <= n THEN cands[x] ELSE found[x - n]
      BY <2>3, <3>2, <3>3, Appended
    <3>5. ASSUME NEW x \in 1 .. (n + 3) PROVE Fits(cands'[x])
      <4>1. CASE x <= n
        <5>1. x \in DOMAIN cands /\ cands'[x] = cands[x]
          BY <3>3, <3>4, <4>1
        <5> QED
          BY <1>1, <2>1, <5>1
      <4>2. CASE ~(x <= n)
        <5>1. x - n \in 1 .. 3 /\ cands'[x] = found[x - n]
          BY <3>3, <3>4, <4>2
        <5> QED
          BY <3>2, <5>1
      <4> QED
        BY <4>1, <4>2
    <3>6. \A c \in DOMAIN cands' : (\A e : e = cands'[c] => Fits(e))
      BY <3>4, <3>5
    <3>7. Groups' = Groups
      BY <1>1, <2>1, SameGroups
    <3>8. Device' = Device
      BY <1>1, <2>1 DEF Device
    <3>9. \A c \in DOMAIN cands' : (Fits(cands[c]))'
      <4> SUFFICES ASSUME NEW c \in DOMAIN cands' PROVE (Fits(cands[c]))'
        OBVIOUS
      <4>1. Fits(cands'[c])
        BY <3>6
      <4> QED
        BY <1>1, <3>8, <4>1 DEF Fits, PlaceOf
    <3>10. best # << >> => Fits(best.cand)'
      BY <1>1, <2>1, FitsStays
    <3> QED
      BY <1>1, <2>1, <3>7, <3>9, <3>10 DEF FitsInv
  <2> QED
    BY <2>1, <2>2, <2>3
<1>6. CASE NextGroup
  BY <1>2, <1>6 DEF NextGroup
<1>7. CASE Shortlist
  BY <1>2, <1>7 DEF Shortlist
<1>8. CASE TimeFinalist
  <2>1. PICK i \in toTime : best' = IF Better(Timed(cands[i])) THEN Timed(cands[i]) ELSE best
    BY <1>8 DEF TimeFinalist
  <2>2. /\ pc = "time" /\ pc' = "time" /\ UNCHANGED <<sweep, cands>> /\ i \in DOMAIN cands
    BY <1>8, <2>1 DEF TimeFinalist, SearchInv
  <2>3. Timed(cands[i]).cand = cands[i]
    BY DEF Timed
  <2>4. best' # << >> => Fits(best'.cand)
    BY <1>1, <2>1, <2>2, <2>3, SMTT(60)
  <2>5. (best # << >> => Fits(best.cand))'
    BY <1>1, <2>2, <2>4 DEF Fits, PlaceOf, Device
  <2>6. \A c \in DOMAIN cands : Fits(cands[c])'
    BY <1>1, <2>2, FitsStays
  <2> QED
    BY <1>1, <2>2, <2>5, <2>6 DEF FitsInv
<1>9. CASE Establish
  <2>1. best # << >>
    BY <1>9 DEF Establish, SearchInv, FindsSome
  <2> QED
    BY <1>2, <1>9, <2>1 DEF Establish
<1>10. CASE Decode
  <2>1. CASE sweep < Len(inst.devices)
    <3>1. sweep' = sweep + 1 /\ pc' = "begin"
      BY <1>10, <2>1 DEF Decode
    <3>2. DOMAIN inst.devices = 1 .. Len(inst.devices) /\ Len(inst.devices) \in Nat
      BY <1>1, PlatformTyped, LenProperties
    <3>3. sweep' \in DOMAIN inst.devices
      BY <1>1, <2>1, <3>1, <3>2
    <3> QED
      BY <1>1, <3>1, <3>3 DEF FitsInv
  <2>2. CASE ~(sweep < Len(inst.devices))
    BY <1>2, <1>10, <2>2 DEF Decode
  <2> QED
    BY <2>1, <2>2
<1> QED
  BY <1>3, <1>4, <1>5, <1>6, <1>7, <1>8, <1>9, <1>10, SMTT(60) DEF Next

LEMMA DecodeFits ==
  ASSUME SearchInv, FitsInv
  PROVE  PlanFits
<1> SUFFICES ASSUME pc = "decode", NEW t \in Dram
             PROVE  Cached(t) + best.cand.plan[t] + Reserved(t)
                      + (IF t = LastTier(kv_split) THEN room ELSE 0) <= Size(inst, Device)[t]
  BY DEF PlanFits
<1> DEFINE b == best.cand
           mean == KvMean(inst, b.level)
           place == PlaceOf(b)
<1>1. best # << >> /\ Fits(b) /\ inst \in Platforms /\ sweep \in DOMAIN inst.devices
  BY DEF FitsInv, SearchInv
<1>2. /\ [split |-> kv_split, caps |-> caps] = place
      /\ best.under = UnderOf(b) /\ best.under.room = room
      /\ best.under = Context(kv_split, caps, kv_mean, b.plan, b.dr, b.hr, b.mode)
  BY <1>1 DEF SearchInv, BestPlaced, DecodesAsTimed
<1>3. kv_split = place.split /\ caps = place.caps
  BY <1>2
<1>4. kv_mean = mean
  <2>1. best.under.mean = kv_mean
    BY <1>2 DEF Context
  <2>2. UnderOf(b).mean = mean
    BY DEF UnderOf, Context
  <2> QED
    BY <1>2, <2>1, <2>2
<1>5. room = _kv_headroom(kv_split, caps, b.plan, b.dr, b.hr)
  BY <1>2 DEF Context
<1>6. mean \in Nat /\ b.dev \in Nat /\ b.dr \in Nat /\ b.hr \in Nat /\ b.tier \in KvTiers
      /\ (b.tier = "stripe" => b.dr <= b.dev /\ b.hr <= inst.host)
      /\ b.plan \in [Tiers -> Nat] /\ b.dev <= Device
      /\ \A u \in Dram : b.plan[u] + ReservedFor(b, u) <= place.caps[u]
  BY <1>1, KvMeanTyped, SMTT(60) DEF Fits
<1>7. place = _kv_place(inst, b.dev, mean, b.tier, b.dr, b.hr)
  BY DEF PlaceOf
<1> HIDE DEF b, mean, place
<1>8. /\ \A u \in Dram : place.caps[u] \in Nat
      /\ \A u \in Dram : (mean * place.split.of[u]) \div Larger(1, place.split.total)
                           + place.caps[u] <= Size(inst, b.dev)[u]
      /\ \A u \in Dram : (mean * place.split.of[u]) \div Larger(1, place.split.total) \in Nat
  BY <1>1, <1>6, <1>7, PlaceFits
<1>9. Cached(t) \in Nat /\ Cached(t) + caps[t] <= Size(inst, b.dev)[t]
  BY <1>3, <1>4, <1>8 DEF Cached
<1>10. Reserved(t) = ReservedFor(b, t)
  BY DEF Reserved, ReservedFor, b
<1>11. ReservedFor(b, t) = CASE t = "gpu" -> 0 [] t = "host" -> b.hr [] t = "cxl" -> b.dr
  BY DEF ReservedFor
<1>12. /\ b.plan["gpu"] <= caps["gpu"] /\ b.plan["host"] + b.hr <= caps["host"]
       /\ b.plan["cxl"] + b.dr <= caps["cxl"]
  <2>1. b.plan["gpu"] + 0 <= caps["gpu"] /\ b.plan["gpu"] \in Nat
    BY <1>3, <1>6 DEF ReservedFor, Dram, Tiers
  <2>2. b.plan["host"] + b.hr <= caps["host"] /\ b.plan["cxl"] + b.dr <= caps["cxl"]
    BY <1>3, <1>6 DEF ReservedFor, Dram
  <2> QED
    BY <2>1, <2>2
<1>13. b.plan[t] + ReservedFor(b, t) + (IF t = LastTier(kv_split) THEN room ELSE 0) <= caps[t]
  <2>1. \A u \in Dram : caps[u] \in Nat
    BY <1>3, <1>8
  <2> QED
    BY <1>5, <1>6, <1>11, <1>12, <2>1, RoomFits
<1>14. Size(inst, b.dev)[t] <= Size(inst, Device)[t] /\ Size(inst, b.dev)[t] \in Nat
       /\ Size(inst, Device)[t] \in Nat
  <2>1. Device \in Nat
    BY <1>1, DevCaps
  <2>2. inst.gpu \in Nat /\ inst.host \in Nat
    BY <1>1, PlatformTyped
  <2>3. \A dev : Size(inst, dev)[t] = IF t = "gpu" THEN inst.gpu
                                     ELSE IF t = "host" THEN inst.host ELSE dev
    BY DEF Size, Dram
  <2> QED
    BY <1>6, <2>1, <2>2, <2>3
<1>15. b.plan[t] \in Nat /\ ReservedFor(b, t) \in Nat /\ caps[t] \in Nat
       /\ (IF t = LastTier(kv_split) THEN room ELSE 0) \in Nat
  <2>1. b.plan[t] \in Nat /\ ReservedFor(b, t) \in Nat /\ caps[t] \in Nat
    BY <1>3, <1>6, <1>8, <1>11 DEF Dram, Tiers
  <2>2. t = LastTier(kv_split) => room \in Nat
    BY <1>5, <1>6, <2>1 DEF _kv_headroom, Larger, ReservedFor, Dram
  <2> QED
    BY <2>1, <2>2
<1> DEFINE held == IF t = LastTier(kv_split) THEN room ELSE 0
<1> HIDE DEF held
<1>16. Cached(t) + b.plan[t] + ReservedFor(b, t) + held <= Size(inst, Device)[t]
  BY <1>9, <1>13, <1>14, <1>15 DEF held
<1> QED
  BY <1>10, <1>16 DEF b, held
-----------------------------------------------------------------------------
(* The winner is the least so far: TimedInv.                               *)

LEMMA TimeStays ==
  ASSUME inst' = inst, NEW c
  PROVE  (Timed(c).time)' = Timed(c).time
BY DEF Timed

LEMMA ShortlistStays ==
  ASSUME cands' = cands, NEW c
  PROVE  Shortlisted(c)' <=> Shortlisted(c)
BY DEF Shortlisted, SameGroup, Before

LEMMA NextKeepsTimed ==
  ASSUME SearchInv, TimedInv, Next, \A c, x : DecodeTime(c, x) \in Nat
  PROVE  TimedInv'
<1>1. inst' = inst
  BY DEF Next, Begin, OpenGroup, TryReserve, NextGroup, Shortlist, TimeFinalist, Establish,
         Decode
<1>2. \A c : Timed(c).time \in Nat /\ Timed(c) # << >>
  <2> SUFFICES ASSUME NEW c PROVE Timed(c).time \in Nat /\ Timed(c) # << >>
    OBVIOUS
  <2>1. Timed(c).time \in Nat
    BY DEF Timed
  <2>2. "time" \in DOMAIN Timed(c)
    BY SMTT(60) DEF Timed
  <2> QED
    BY <2>1, <2>2
<1>3. CASE pc' \notin {"time", "decode"}
  BY <1>3 DEF TimedInv, Next, Begin, OpenGroup, TryReserve, NextGroup, Shortlist,
              TimeFinalist, Establish, Decode
<1>4. CASE Shortlist
  <2>1. /\ toTime' = {c \in DOMAIN cands : Shortlisted(c)} /\ cands' = cands /\ best' = best
    BY <1>4 DEF Shortlist
  <2>2. \A c \in DOMAIN cands : Shortlisted(c)' => c \in toTime'
    BY <2>1, ShortlistStays
  <2> QED
    BY <2>1, <2>2 DEF TimedInv
<1>5. CASE TimeFinalist
  <2>1. PICK i \in toTime :
          /\ best' = IF Better(Timed(cands[i])) THEN Timed(cands[i]) ELSE best
          /\ toTime' = toTime \ {i}
    BY <1>5 DEF TimeFinalist
  <2>2. pc = "time" /\ cands' = cands
    BY <1>5 DEF TimeFinalist
  <2> DEFINE t == Timed(cands[i])
  <2>3. t.time \in Nat /\ t # << >>
    BY <1>2
  <2> HIDE DEF t
  <2>4. /\ best' # << >> /\ best'.time \in Nat /\ best'.time <= t.time
        /\ (best # << >> => best'.time <= best.time)
    <3>1. CASE Better(t)
      <4>1. best' = t /\ (best # << >> => best.time \in Nat /\ t.time < best.time)
        BY <2>1, <3>1 DEF Better, TimedInv, t
      <4> QED
        BY <2>3, <4>1
    <3>2. CASE ~Better(t)
      <4>1. best' = best /\ best # << >> /\ best.time \in Nat /\ ~(t.time < best.time)
        BY <2>1, <3>2 DEF Better, TimedInv, t
      <4> QED
        BY <2>3, <4>1
    <3> QED
      BY <3>1, <3>2
  <2>5. ASSUME NEW c \in DOMAIN cands, Shortlisted(c), c \notin toTime \ {i}
        PROVE  best'.time <= Timed(cands[c]).time
    <3>1. CASE c = i
      BY <2>4, <3>1 DEF t
    <3>2. CASE c # i
      <4>1. best # << >> /\ best.time <= Timed(cands[c]).time /\ best.time \in Nat
        BY <2>2, <2>5, <3>2 DEF TimedInv
      <4>2. Timed(cands[c]).time \in Nat
        BY <1>2
      <4> QED
        BY <2>4, <4>1, <4>2
    <3> QED
      BY <3>1, <3>2
  <2>6. \A c \in DOMAIN cands' : Shortlisted(c)' /\ c \notin toTime' =>
          best' # << >> /\ best'.time <= (Timed(cands[c]).time)'
    <3> SUFFICES ASSUME NEW c \in DOMAIN cands, Shortlisted(c)', c \notin toTime \ {i}
                 PROVE  best' # << >> /\ best'.time <= (Timed(cands[c]).time)'
      BY <2>1, <2>2
    <3>1. Shortlisted(c)
      BY <2>2, ShortlistStays
    <3>2. (Timed(cands[c]).time)' = Timed(cands[c]).time
      BY <1>1, <2>2 DEF Timed
    <3> QED
      BY <2>4, <2>5, <3>1, <3>2
  <2> QED
    BY <2>4, <2>6 DEF TimedInv
<1>6. CASE Establish
  <2>1. pc = "time" /\ UNCHANGED <<cands, best, toTime>>
    BY <1>6 DEF Establish
  <2>2. \A c \in DOMAIN cands : (Timed(cands[c]).time)' = Timed(cands[c]).time
    BY <1>1, <2>1 DEF Timed
  <2>3. \A c \in DOMAIN cands : Shortlisted(c)' <=> Shortlisted(c)
    BY <2>1, ShortlistStays
  <2> QED
    BY <2>1, <2>2, <2>3 DEF TimedInv
<1> QED
  BY <1>3, <1>4, <1>5, <1>6, SMTT(60) DEF Next, Begin, OpenGroup, TryReserve, NextGroup, Decode

LEMMA DecodeIsLeast ==
  ASSUME SearchInv, TimedInv
  PROVE  WinnerIsLeast
<1> SUFFICES ASSUME pc = "decode", NEW c \in DOMAIN cands
             PROVE  /\ Shortlisted(c) => best.time <= Timed(cands[c]).time
                    /\ \E d \in DOMAIN cands :
                         SameGroup(c, d) /\ cands[d].est <= cands[c].est
                           /\ best.time <= Timed(cands[d]).time
  BY DEF WinnerIsLeast
<1>1. toTime = {}
  BY DEF SearchInv
<1>2. \A d \in DOMAIN cands : Shortlisted(d) => best.time <= Timed(cands[d]).time
  BY <1>1 DEF TimedInv
<1>3. Len(cands) \in Nat /\ DOMAIN cands = 1 .. Len(cands)
      /\ \A d \in DOMAIN cands : cands[d].est \in Nat
  BY SMTT(60) DEF SearchInv, CandsPlaced
<1>4. PICK d \in DOMAIN cands : Shortlisted(d) /\ SameGroup(c, d) /\ cands[d].est <= cands[c].est
  BY <1>3, GroupHasFinalist
<1> QED
  BY <1>2, <1>4
-----------------------------------------------------------------------------
(* A search as a function of the device: MoreDeviceNoWorse.                *)

\* A group of candidates, and the groups of a search for a device of size `size`.
GroupAt(n) == [dev |-> GroupDev(n), tier |-> GroupTier(n), level |-> GroupLevel(n)]
GroupOf(c) == [dev |-> c.dev, tier |-> c.tier, level |-> c.level]

StandardBelow(size) ==
  {StandardSizes[x] : x \in {y \in DOMAIN StandardSizes : StandardSizes[y] < size}}
GroupsFor(size) ==
  {[dev |-> dev, tier |-> _kv_opts[y], level |-> Levels[z]] :
     dev \in StandardBelow(size) \cup {size}, y \in 1 .. Len(_kv_opts), z \in 1 .. 2}

\* The reserve of turn n in group g, the candidate of turn j \div 3 in layout
\* j % 3 + 1, and those of a group that are not the repetition of an earlier reserve.
Reserve(g, n) ==
  LET f == ReserveShares[(n \div 3) + 1]
      how == Splits[(n % 3) + 1]
      left == _kv_place(inst, g.dev, KvMean(inst, g.level), g.tier, 0, 0).caps
  IN  IF g.tier = "stripe" THEN _split(f, how, inst.host, g.dev)
      ELSE _split(f, how, left["host"], left["cxl"])
ReservePair(g, n) == <<Reserve(g, n)[1], Reserve(g, n)[2]>>

CandOf(g, n, mode) ==
  LET dr == Reserve(g, n)[1]  hr == Reserve(g, n)[2]
      place == _kv_place(inst, g.dev, KvMean(inst, g.level), g.tier, dr, hr)
      plan == PlanOf(place.caps, dr, hr)
  IN  [est |-> StepTime(inst.cost, Context(place.split, place.caps, KvMean(inst, g.level), plan,
                                           dr, hr, mode)),
       tier |-> g.tier, dr |-> dr, hr |-> hr, plan |-> plan,
       dev |-> g.dev, mode |-> mode, level |-> g.level, place |-> place]
CandAt(g, j) == CandOf(g, j \div 3, Modes[(j % 3) + 1])

Keys(g) ==
  {j \in 0 .. (3 * Turns - 1) :
     \A n \in 0 .. ((j \div 3) - 1) : ReservePair(g, n) # ReservePair(g, j \div 3)}

\* Which of a group are finalists, whatever else the search has found.
KeyBefore(g, i, j) ==
  CandAt(g, i).est < CandAt(g, j).est \/ (CandAt(g, i).est = CandAt(g, j).est /\ i < j)
KeyShort(g, j) == Cardinality({i \in Keys(g) : KeyBefore(g, i, j)}) < Finalists
TimeOf(g, j) == Timed(CandAt(g, j)).time

\* The answer for a device: the least time of the finalists of its groups.
IsAnswer(size, t) ==
  /\ \E g \in GroupsFor(size) : \E j \in Keys(g) : KeyShort(g, j) /\ t = TimeOf(g, j)
  /\ \A g \in GroupsFor(size) : \A j \in Keys(g) : KeyShort(g, j) => t <= TimeOf(g, j)

\* What the search has tried: key j of its group n.
Tried(n, j) == n < group \/ (pc = "reserve" /\ n = group /\ j < 3 * turn)

\* The candidates found are the keys tried, each once and, within a group, in order.
Keyed(f) ==
  /\ \A c \in DOMAIN cands : \E n \in 0 .. (Groups - 1) : \E g :
       /\ g = GroupAt(n) /\ g = GroupOf(cands[c])
       /\ f[c] \in Keys(g) /\ Tried(n, f[c]) /\ cands[c] = CandAt(g, f[c])
  /\ \A c, d \in DOMAIN cands : c < d /\ SameGroup(c, d) => f[c] < f[d]
  /\ \A n \in 0 .. (Groups - 1) : \A g : g = GroupAt(n) =>
       \A j \in Keys(g) : Tried(n, j) => \E c \in DOMAIN cands : g = GroupOf(cands[c]) /\ f[c] = j

Searching == {"group", "reserve", "time", "decode"}
KeyedInv ==
  /\ pc \in Searching => group \in 0 .. Groups /\ \E f \in [DOMAIN cands -> Nat] : Keyed(f)
  /\ pc \in {"time", "decode"} => group = Groups
  /\ pc = "reserve" =>
       /\ group < Groups /\ turn \in 0 .. Turns
       /\ \A n, g : n = group /\ g = GroupAt(n) =>
            seen = {ReservePair(g, m) : m \in 0 .. (turn - 1)}

\* The best so far is one of the finalists.
BestInv ==
  /\ pc \in {"group", "reserve"} => best = << >>
  /\ pc \in {"time", "decode"} =>
       /\ \A c \in toTime : Shortlisted(c)
       /\ best # << >> => \E c \in DOMAIN cands : Shortlisted(c) /\ best.time = Timed(cands[c]).time

AnswersInv ==
  /\ answers \in Seq(Nat) /\ sweep \in DOMAIN inst.devices
  /\ Len(answers) = IF pc = "done" THEN sweep ELSE sweep - 1
  /\ \A a \in 1 .. Len(answers) : \A size, t :
       size = inst.devices[a] /\ t = answers[a] => IsAnswer(size, t)

AnswerInv == KeyedInv /\ BestInv /\ AnswersInv
-----------------------------------------------------------------------------
(* What stays while the platform does.                                     *)

LEMMA KeysStay ==
  ASSUME inst' = inst
  PROVE  /\ \A g, n : ReservePair(g, n)' = ReservePair(g, n)
         /\ \A g, j : CandAt(g, j)' = CandAt(g, j)
         /\ \A g : Keys(g)' = Keys(g)
         /\ \A g, j : KeyShort(g, j)' <=> KeyShort(g, j)
         /\ \A g, j : TimeOf(g, j)' = TimeOf(g, j)
         /\ \A size : GroupsFor(size)' = GroupsFor(size)
         /\ \A size, t : IsAnswer(size, t)' <=> IsAnswer(size, t)
<1>1. \A g, n : Reserve(g, n)' = Reserve(g, n)
  BY DEF Reserve
<1>2. \A g, n : ReservePair(g, n)' = ReservePair(g, n)
  BY <1>1 DEF ReservePair
<1>3. \A g, n, m : CandOf(g, n, m)' = CandOf(g, n, m)
  <2>1. ASSUME NEW left, NEW dr, NEW hr PROVE PlanOf(left, dr, hr)' = PlanOf(left, dr, hr)
    <3> DEFINE avail == [t \in Dram |-> CASE t = "gpu" -> left["gpu"]
                                         [] t = "host" -> Larger(0, left["host"] - hr)
                                         [] t = "cxl" -> Larger(0, left["cxl"] - dr)]
    <3>1. /\ PlanOf(left, dr, hr) = FillDown(inst.weights + inst.table, avail)
          /\ PlanOf(left, dr, hr)' = FillDown(inst'.weights + inst'.table, avail)
      BY DEF PlanOf
    <3> HIDE DEF avail
    <3> QED
      BY <3>1
  <2> QED
    BY <1>1, <2>1 DEF CandOf
<1>4. \A g, j : CandAt(g, j)' = CandAt(g, j)
  BY <1>3 DEF CandAt
<1>5. \A g : Keys(g)' = Keys(g)
  BY <1>2 DEF Keys, Turns
<1>6. \A g, i, j : KeyBefore(g, i, j)' <=> KeyBefore(g, i, j)
  BY <1>4 DEF KeyBefore
<1>7. \A g, j : KeyShort(g, j)' <=> KeyShort(g, j)
  <2> SUFFICES ASSUME NEW g, NEW j PROVE KeyShort(g, j)' <=> KeyShort(g, j)
    OBVIOUS
  <2>1. {i \in Keys(g) : KeyBefore(g, i, j)}' = {i \in Keys(g) : KeyBefore(g, i, j)}
    BY <1>5, <1>6
  <2> QED
    BY <2>1 DEF KeyShort
<1>8. \A g, j : TimeOf(g, j)' = TimeOf(g, j)
  BY <1>4 DEF TimeOf, Timed
<1>9. \A size : GroupsFor(size)' = GroupsFor(size)
  BY DEF GroupsFor, StandardBelow, _kv_opts
<1>10. \A size, t : IsAnswer(size, t)' <=> IsAnswer(size, t)
  BY <1>5, <1>7, <1>8, <1>9 DEF IsAnswer
<1> QED
  BY <1>2, <1>4, <1>5, <1>7, <1>8, <1>9, <1>10

LEMMA GroupsStay ==
  ASSUME UNCHANGED <<inst, sweep>>
  PROVE  Groups' = Groups /\ \A n : GroupAt(n)' = GroupAt(n)
BY SameGroups DEF GroupAt, GroupDev, GroupTier, GroupLevel
-----------------------------------------------------------------------------
(* The groups.                                                             *)

LEMMA DevCapsAre ==
  ASSUME inst \in Platforms, sweep \in DOMAIN inst.devices
  PROVE  /\ {_dev_caps[x] : x \in 1 .. (Below + 1)} = StandardBelow(Device) \cup {Device}
         /\ \A x, y \in 1 .. (Below + 1) : x < y => _dev_caps[x] < _dev_caps[y]
<1>1. Below \in Nat /\ Device \in Nat
      /\ {x \in DOMAIN StandardSizes : StandardSizes[x] < Device} = 1 .. Below
      /\ \A x \in 1 .. Below : StandardSizes[x] \in Nat /\ StandardSizes[x] < Device
  BY SizesBelow
<1>2. \A x \in 1 .. (Below + 1) : _dev_caps[x] = IF x <= Below THEN StandardSizes[x] ELSE Device
  BY DEF _dev_caps
<1>3. StandardBelow(Device) = {StandardSizes[x] : x \in 1 .. Below}
  BY <1>1 DEF StandardBelow
<1>4. \A x \in 1 .. Below : x \in 1 .. (Below + 1) /\ x <= Below
  BY <1>1
<1>5. Below + 1 \in 1 .. (Below + 1) /\ ~(Below + 1 <= Below)
      /\ \A x \in 1 .. (Below + 1) : x \in 1 .. Below \/ x = Below + 1
  BY <1>1
<1>6. {_dev_caps[x] : x \in 1 .. (Below + 1)} = StandardBelow(Device) \cup {Device}
  BY <1>2, <1>3, <1>4, <1>5
<1>7. ASSUME NEW x \in 1 .. (Below + 1), NEW y \in 1 .. (Below + 1), x < y
      PROVE  _dev_caps[x] < _dev_caps[y]
  <2>1. x \in 1 .. Below /\ _dev_caps[x] = StandardSizes[x]
    BY <1>1, <1>2, <1>7
  <2>2. CASE y = Below + 1
    <3>1. _dev_caps[y] = Device
      BY <1>2, <1>5, <2>2
    <3> QED
      BY <1>1, <2>1, <3>1
  <2>3. CASE y # Below + 1
    <3>1. y \in 1 .. Below /\ _dev_caps[y] = StandardSizes[y]
      BY <1>2, <1>4, <1>5, <2>3
    <3>2. x \in DOMAIN StandardSizes /\ y \in DOMAIN StandardSizes
      BY <1>1, <2>1, <3>1
    <3> QED
      BY <1>7, <2>1, <3>1, <3>2, SearchConstants
  <2> QED
    BY <2>2, <2>3
<1> QED
  BY <1>6, <1>7

\* The position of a group is the number of its size, tier and level.
LEMMA GroupDigits ==
  ASSUME NEW l \in Nat, NEW o \in {3, 4}
  PROVE  /\ \A n \in 0 .. (l * o * 2 - 1) :
              /\ n \div (o * 2) \in 0 .. (l - 1) /\ (n \div 2) % o \in 0 .. (o - 1)
              /\ n % 2 \in 0 .. 1
              /\ n = (n \div (o * 2)) * (o * 2) + ((n \div 2) % o) * 2 + (n % 2)
<1>1. ASSUME NEW n \in Nat
      PROVE  /\ n \div 6 \in Nat /\ n \div 8 \in Nat
             /\ (n \div 2) % 3 \in 0 .. 2 /\ (n \div 2) % 4 \in 0 .. 3 /\ n % 2 \in 0 .. 1
             /\ n = (n \div 6) * 6 + ((n \div 2) % 3) * 2 + (n % 2)
             /\ n = (n \div 8) * 8 + ((n \div 2) % 4) * 2 + (n % 2)
  <2>1. n \div 6 \in Nat /\ n \div 8 \in Nat
    OBVIOUS
  <2>2. (n \div 2) % 3 \in 0 .. 2 /\ (n \div 2) % 4 \in 0 .. 3 /\ n % 2 \in 0 .. 1
    OBVIOUS
  <2> DEFINE h == n \div 2
  <2>3. /\ n = 2 * h + (n % 2) /\ h \in Nat /\ n % 2 \in 0 .. 1
        /\ 6 * (n \div 6) <= n /\ n < 6 * (n \div 6) + 6
        /\ 8 * (n \div 8) <= n /\ n < 8 * (n \div 8) + 8
    <3>1. n = 2 * (n \div 2) + (n % 2) /\ n \div 2 \in Nat
      OBVIOUS
    <3>2. 6 * (n \div 6) <= n /\ n < 6 * (n \div 6) + 6
      OBVIOUS
    <3>3. 8 * (n \div 8) <= n /\ n < 8 * (n \div 8) + 8
      OBVIOUS
    <3> QED
      BY <2>2, <3>1, <3>2, <3>3
  <2>4. /\ n = (n \div 6) * 6 + (h % 3) * 2 + (n % 2) /\ n = (n \div 8) * 8 + (h % 4) * 2 + (n % 2)
    <3> DEFINE q == n \div 6   r == n \div 8   z == n % 2
    <3>1. q \in Nat /\ r \in Nat /\ z \in 0 .. 1 /\ h \in Nat /\ n = 2 * h + z
          /\ 6 * q <= n /\ n < 6 * q + 6 /\ 8 * r <= n /\ n < 8 * r + 8
      BY <2>1, <2>3
    <3> HIDE DEF q, r, z, h
    <3>2. h - 3 * q \in 0 .. 2 /\ h - 4 * r \in 0 .. 3
      BY <3>1
    <3>3. h % 3 = h - 3 * q /\ h % 4 = h - 4 * r
      BY <3>1, <3>2
    <3>4. n = q * 6 + (h % 3) * 2 + z /\ n = r * 8 + (h % 4) * 2 + z
      BY <3>1, <3>3
    <3> QED
      BY <3>4 DEF q, r, z
  <2> QED
    BY <2>1, <2>2, <2>3, <2>4
<1>3. CASE o = 3
  <2>1. l * o * 2 = l * 6 /\ o * 2 = 6 /\ o - 1 = 2
    BY <1>3
  <2>2. \A n \in 0 .. (l * 6 - 1) : n \in Nat /\ n \div 6 \in 0 .. (l - 1)
    BY <1>1
  <2> QED
    BY <1>1, <1>3, <2>1, <2>2
<1>4. CASE o = 4
  <2>1. l * o * 2 = l * 8 /\ o * 2 = 8 /\ o - 1 = 3
    BY <1>4
  <2>2. \A n \in 0 .. (l * 8 - 1) : n \in Nat /\ n \div 8 \in 0 .. (l - 1)
    BY <1>1
  <2> QED
    BY <1>1, <1>4, <2>1, <2>2
<1> QED
  BY <1>3, <1>4

LEMMA GroupNumber ==
  ASSUME NEW x \in Nat, NEW y \in Nat, NEW z \in 0 .. 1
  PROVE  /\ y <= 2 => /\ (x * 6 + y * 2 + z) \div 6 = x
                      /\ ((x * 6 + y * 2 + z) \div 2) % 3 = y
                      /\ (x * 6 + y * 2 + z) % 2 = z
         /\ y <= 3 => /\ (x * 8 + y * 2 + z) \div 8 = x
                      /\ ((x * 8 + y * 2 + z) \div 2) % 4 = y
                      /\ (x * 8 + y * 2 + z) % 2 = z
OBVIOUS

\* The groups of a search are those for its device, each once.
LEMMA GroupsAre ==
  ASSUME inst \in Platforms, sweep \in DOMAIN inst.devices
  PROVE  /\ {GroupAt(n) : n \in 0 .. (Groups - 1)} = GroupsFor(Device)
         /\ \A m, n \in 0 .. (Groups - 1) : GroupAt(m) = GroupAt(n) => m = n
<1> DEFINE o == Len(_kv_opts)
           l == Below + 1
<1>1. o \in {3, 4} /\ \A x, y \in 1 .. o : _kv_opts[x] = _kv_opts[y] => x = y
  BY DEF _kv_opts
<1>2. Len(Levels) = 2 /\ \A x, y \in 1 .. 2 : Levels[x] = Levels[y] => x = y
  BY DEF Levels
<1>3. /\ l \in Nat /\ Len(_dev_caps) = l /\ \A x \in 1 .. l : _dev_caps[x] \in Nat
      /\ {_dev_caps[x] : x \in 1 .. l} = StandardBelow(Device) \cup {Device}
      /\ \A x, y \in 1 .. l : x < y => _dev_caps[x] < _dev_caps[y]
  BY DevCaps, DevCapsAre
<1>4. \A x, y \in 1 .. l : _dev_caps[x] = _dev_caps[y] => x = y
  <2> SUFFICES ASSUME NEW x \in 1 .. l, NEW y \in 1 .. l, _dev_caps[x] = _dev_caps[y], x # y
               PROVE  FALSE
    OBVIOUS
  <2> HIDE DEF l
  <2>1. (x < y \/ y < x) /\ _dev_caps[x] \in Nat /\ _dev_caps[y] \in Nat
    BY <1>3
  <2> QED
    BY <1>3, <2>1
<1>5. \A n : GroupAt(n) = [dev |-> _dev_caps[(n \div (o * 2)) + 1],
                           tier |-> _kv_opts[((n \div 2) % o) + 1], level |-> Levels[(n % 2) + 1]]
  BY <1>2 DEF GroupAt, GroupDev, GroupTier, GroupLevel
<1>6. Groups = l * o * 2
  BY <1>2, <1>3 DEF Groups
<1>7. GroupsFor(Device) = {[dev |-> _dev_caps[x], tier |-> _kv_opts[y], level |-> Levels[z]] :
                             x \in 1 .. l, y \in 1 .. o, z \in 1 .. 2}
  <2> DEFINE D == StandardBelow(Device) \cup {Device}
  <2>1. D = {_dev_caps[x] : x \in 1 .. l}
    BY <1>3
  <2>2. GroupsFor(Device) = {[dev |-> dev, tier |-> _kv_opts[y], level |-> Levels[z]] :
                               dev \in D, y \in 1 .. o, z \in 1 .. 2}
    BY DEF GroupsFor
  <2> HIDE DEF D, l, o
  <2> QED
    BY <2>1, <2>2
<1> HIDE DEF o, l
<1>8. ASSUME NEW n \in 0 .. (Groups - 1)
      PROVE  /\ (n \div (o * 2)) + 1 \in 1 .. l /\ ((n \div 2) % o) + 1 \in 1 .. o
             /\ (n % 2) + 1 \in 1 .. 2 /\ n \in Nat
             /\ n = (n \div (o * 2)) * (o * 2) + ((n \div 2) % o) * 2 + (n % 2)
  <2>1. n \in 0 .. (l * o * 2 - 1)
    BY <1>6
  <2>2. /\ n \div (o * 2) \in 0 .. (l - 1) /\ (n \div 2) % o \in 0 .. (o - 1) /\ n % 2 \in 0 .. 1
        /\ n = (n \div (o * 2)) * (o * 2) + ((n \div 2) % o) * 2 + (n % 2)
    BY <1>1, <1>3, <2>1, GroupDigits
  <2> DEFINE a == n \div (o * 2)
             b == (n \div 2) % o
             c == n % 2
  <2> HIDE DEF a, b, c
  <2>3. a \in 0 .. (l - 1) => a + 1 \in 1 .. l
    BY <1>3
  <2>4. b \in 0 .. (o - 1) => b + 1 \in 1 .. o
    BY <1>1
  <2>5. c \in 0 .. 1 => c + 1 \in 1 .. 2
    OBVIOUS
  <2>6. n \in Nat
    OBVIOUS
  <2> QED
    BY <2>2, <2>3, <2>4, <2>5, <2>6 DEF a, b, c
<1>9. ASSUME NEW m \in 0 .. (Groups - 1), NEW n \in 0 .. (Groups - 1), GroupAt(m) = GroupAt(n)
      PROVE  m = n
  <2>0. /\ m = (m \div (o * 2)) * (o * 2) + ((m \div 2) % o) * 2 + (m % 2)
        /\ n = (n \div (o * 2)) * (o * 2) + ((n \div 2) % o) * 2 + (n % 2)
    BY <1>8
  <2> DEFINE am == m \div (o * 2)   an == n \div (o * 2)
             bm == (m \div 2) % o   bn == (n \div 2) % o
             cm == m % 2   cn == n % 2
  <2>1. /\ _dev_caps[am + 1] = _dev_caps[an + 1] /\ _kv_opts[bm + 1] = _kv_opts[bn + 1]
        /\ Levels[cm + 1] = Levels[cn + 1]
    BY <1>5, <1>9
  <2>7. /\ am + 1 \in 1 .. l /\ an + 1 \in 1 .. l /\ bm + 1 \in 1 .. o /\ bn + 1 \in 1 .. o
        /\ cm + 1 \in 1 .. 2 /\ cn + 1 \in 1 .. 2
    BY <1>8
  <2>2. am + 1 = an + 1 /\ bm + 1 = bn + 1 /\ cm + 1 = cn + 1
    <3> HIDE DEF am, an, bm, bn, cm, cn
    <3> QED
      BY <1>1, <1>2, <1>4, <2>1, <2>7
  <2>3. /\ am \in Int /\ an \in Int /\ bm \in Int /\ bn \in Int /\ cm \in Int /\ cn \in Int
    <3>1. m \in 0 .. (l * o * 2 - 1) /\ n \in 0 .. (l * o * 2 - 1)
      BY <1>6
    <3> QED
      BY <1>1, <1>3, <3>1, GroupDigits
  <2>4. m = am * (o * 2) + bm * 2 + cm
    BY <2>0
  <2>6. n = an * (o * 2) + bn * 2 + cn
    BY <2>0
  <2> HIDE DEF am, an, bm, bn, cm, cn
  <2>5. am = an /\ bm = bn /\ cm = cn
    BY <2>2, <2>3
  <2> QED
    BY <2>4, <2>5, <2>6
<1>10. ASSUME NEW n \in 0 .. (Groups - 1) PROVE GroupAt(n) \in GroupsFor(Device)
  BY <1>5, <1>7, <1>8
<1>11. ASSUME NEW g \in GroupsFor(Device) PROVE \E n \in 0 .. (Groups - 1) : GroupAt(n) = g
  <2>1. PICK x \in 1 .. l, y \in 1 .. o, z \in 1 .. 2 :
          g = [dev |-> _dev_caps[x], tier |-> _kv_opts[y], level |-> Levels[z]]
    BY <1>7
  <2> DEFINE n == (x - 1) * (o * 2) + (y - 1) * 2 + (z - 1)
  <2>2. x - 1 \in 0 .. (l - 1) /\ y - 1 \in 0 .. (o - 1) /\ z - 1 \in 0 .. 1
    BY <1>1, <1>3
  <2>3. /\ n \in 0 .. (l * o * 2 - 1)
        /\ n \div (o * 2) = x - 1 /\ (n \div 2) % o = y - 1 /\ n % 2 = z - 1
    <3> DEFINE a == x - 1   b == y - 1   c == z - 1
    <3>1. a \in 0 .. (l - 1) /\ b \in 0 .. (o - 1) /\ c \in 0 .. 1
      BY <2>2
    <3>2. n = a * (o * 2) + b * 2 + c
      OBVIOUS
    <3> HIDE DEF n, a, b, c
    <3>3. l \in Nat /\ o \in {3, 4} /\ a \in Nat /\ b \in Nat /\ a <= l - 1 /\ b <= o - 1
      BY <1>1, <1>3, <3>1
    <3>4. CASE o = 3
      <4>1. n = a * 6 + b * 2 + c /\ l * o * 2 = l * 6 /\ o * 2 = 6 /\ b <= 2
        BY <3>2, <3>3, <3>4
      <4>2. n \div 6 = a /\ (n \div 2) % 3 = b /\ n % 2 = c
        BY <3>1, <3>3, <4>1, GroupNumber
      <4>3. n \in 0 .. (l * 6 - 1)
        BY <3>1, <3>3, <4>1
      <4> QED
        BY <3>4, <4>1, <4>2, <4>3 DEF a, b, c
    <3>5. CASE o = 4
      <4>1. n = a * 8 + b * 2 + c /\ l * o * 2 = l * 8 /\ o * 2 = 8 /\ b <= 3
        BY <3>2, <3>3, <3>5
      <4>2. n \div 8 = a /\ (n \div 2) % 4 = b /\ n % 2 = c
        BY <3>1, <3>3, <4>1, GroupNumber
      <4>3. n \in 0 .. (l * 8 - 1)
        BY <3>1, <3>3, <4>1
      <4> QED
        BY <3>5, <4>1, <4>2, <4>3 DEF a, b, c
    <3> QED
      BY <3>3, <3>4, <3>5
  <2> HIDE DEF n
  <2>4. (x - 1) + 1 = x /\ (y - 1) + 1 = y /\ (z - 1) + 1 = z
    BY <1>1, <1>3
  <2>5. GroupAt(n) = g
    BY <1>5, <2>1, <2>3, <2>4
  <2> QED
    BY <1>6, <2>3, <2>5
<1> QED
  BY <1>9, <1>10, <1>11
-----------------------------------------------------------------------------
(* The candidates found are the keys tried: KeyedInv.                      *)

LEMMA ReserveIs ==
  ASSUME GroupPlaced
  PROVE  ReserveAt(turn) = Reserve(GroupAt(group), turn)
<1> DEFINE g == GroupAt(group)
<1>1. /\ caps0 = g.dev /\ kv_mean = KvMean(inst, g.level) /\ GroupTier(group) = g.tier
      /\ (g.tier = "stripe" <=> Striping)
  BY DEF GroupPlaced, GroupAt, Striping
<1>2. ~Striping => caps = _kv_place(inst, g.dev, KvMean(inst, g.level), g.tier, 0, 0).caps
  <2> HIDE DEF g
  <2> SUFFICES ASSUME ~Striping
               PROVE  caps = _kv_place(inst, g.dev, KvMean(inst, g.level), g.tier, 0, 0).caps
    OBVIOUS
  <2>1. [split |-> kv_split, caps |-> caps]
          = _kv_place(inst, g.dev, KvMean(inst, g.level), g.tier, 0, 0)
    BY <1>1 DEF GroupPlaced
  <2>2. [split |-> kv_split, caps |-> caps].caps = caps
    OBVIOUS
  <2> QED
    BY <2>1, <2>2
<1>3. Len(Splits) = 3
  BY DEF Splits
<1> HIDE DEF g
<1>4. ReserveAt(turn) = Reserve(g, turn)
  BY <1>1, <1>2, <1>3 DEF ReserveAt, Reserve
<1> QED
  BY <1>4 DEF g

LEMMA CandidateIs ==
  ASSUME GroupPlaced, NEW m, NEW dr, NEW hr, dr = ReserveAt(turn)[1], hr = ReserveAt(turn)[2]
  PROVE  Candidate(PlaceAt(dr, hr), m, dr, hr) = CandOf(GroupAt(group), turn, m)
<1> DEFINE g == GroupAt(group)
<1>1. dr = Reserve(g, turn)[1] /\ hr = Reserve(g, turn)[2]
  BY ReserveIs
<1>2. /\ caps0 = g.dev /\ kv_mean = KvMean(inst, g.level) /\ GroupTier(group) = g.tier
      /\ GroupLevel(group) = g.level
  BY DEF GroupPlaced, GroupAt
<1>3. PlaceAt(dr, hr) = _kv_place(inst, g.dev, KvMean(inst, g.level), g.tier, dr, hr)
  BY <1>2, PlacedByTurn
<1> HIDE DEF g
<1>4. Candidate(PlaceAt(dr, hr), m, dr, hr) = CandOf(g, turn, m)
  BY <1>1, <1>2, <1>3 DEF Candidate, CandOf
<1> QED
  BY <1>4 DEF g

\* The three layouts of turn n have the keys from 3n on.
LEMMA KeyDigits ==
  ASSUME NEW n \in Nat
  PROVE  /\ \A m \in 1 .. 3 : /\ 3 * n + (m - 1) \in Nat /\ (3 * n + (m - 1)) \div 3 = n
                              /\ ((3 * n + (m - 1)) % 3) + 1 = m
         /\ \A j \in Nat : /\ j \div 3 \in Nat /\ (j < 3 * n <=> j \div 3 < n)
                           /\ 3 * n <= j /\ j < 3 * (n + 1) =>
                                j \div 3 = n /\ j - 3 * n + 1 \in 1 .. 3
OBVIOUS

LEMMA CandOfGroup ==
  ASSUME NEW g, NEW n, NEW m, g = [dev |-> g.dev, tier |-> g.tier, level |-> g.level]
  PROVE  GroupOf(CandOf(g, n, m)) = g
<1>1. /\ CandOf(g, n, m).dev = g.dev /\ CandOf(g, n, m).tier = g.tier
      /\ CandOf(g, n, m).level = g.level
  BY DEF CandOf
<1> QED
  BY <1>1 DEF GroupOf

LEMMA SameGroupIs ==
  ASSUME NEW c, NEW d
  PROVE  SameGroup(c, d) <=> GroupOf(cands[c]) = GroupOf(cands[d])
BY DEF SameGroup, GroupOf

LEMMA KeysBelow ==
  ASSUME NEW g, NEW j \in Keys(g), Turns \in Nat
  PROVE  j \in Nat /\ j < 3 * Turns
BY DEF Keys

LEMMA KeyedStays ==
  ASSUME NEW f, Keyed(f), UNCHANGED <<inst, sweep, cands>>, inst \in Platforms,
         \A n \in 0 .. (Groups - 1) : \A g : g = GroupAt(n) =>
           \A j \in Keys(g) : Tried(n, j)' <=> Tried(n, j)
  PROVE  Keyed(f)'
<1>1. /\ Groups' = Groups /\ \A n : GroupAt(n)' = GroupAt(n)
      /\ \A g : Keys(g)' = Keys(g) /\ \A j : CandAt(g, j)' = CandAt(g, j)
  BY GroupsStay, KeysStay
<1>2. \A c, d : SameGroup(c, d)' <=> SameGroup(c, d)
  BY DEF SameGroup
<1>3. \A c : GroupOf(cands'[c]) = GroupOf(cands[c]) /\ cands'[c] = cands[c]
  OBVIOUS
<1>5. ASSUME NEW c \in DOMAIN cands'
      PROVE  \E n \in 0 .. (Groups' - 1) : \E g :
               /\ g = GroupAt(n)' /\ g = GroupOf(cands'[c])
               /\ f[c] \in Keys(g)' /\ Tried(n, f[c])' /\ cands'[c] = CandAt(g, f[c])'
  <2>1. PICK n, g :
               /\ n \in 0 .. (Groups - 1)
               /\ g = GroupAt(n) /\ g = GroupOf(cands[c])
               /\ f[c] \in Keys(g) /\ Tried(n, f[c]) /\ cands[c] = CandAt(g, f[c])
    BY DEF Keyed
  <2> QED
    BY <1>1, <1>3, <2>1
<1>6. ASSUME NEW n \in 0 .. (Groups' - 1), NEW g, g = GroupAt(n)',
             NEW j \in Keys(g)', Tried(n, j)'
      PROVE  \E c \in DOMAIN cands' : g = GroupOf(cands'[c]) /\ f[c] = j
  <2>1. n \in 0 .. (Groups - 1) /\ g = GroupAt(n) /\ j \in Keys(g) /\ Tried(n, j)
    BY <1>1, <1>6
  <2>2. PICK c \in DOMAIN cands : g = GroupOf(cands[c]) /\ f[c] = j
    BY <2>1 DEF Keyed
  <2> QED
    BY <1>3, <2>2
<1> QED
  BY <1>2, <1>5, <1>6 DEF Keyed

LEMMA InitAnswer ==
  ASSUME Init
  PROVE  AnswerInv
<1>1. pc = "begin" /\ answers = << >> /\ sweep = 1 /\ inst \in Platforms
  BY DEF Init
<1>2. KeyedInv /\ BestInv
  BY <1>1 DEF KeyedInv, BestInv, Searching
<1>3. AnswersInv
  <2>1. sweep \in DOMAIN inst.devices
    BY InitFits DEF FitsInv
  <2>2. Len(answers) = 0 /\ answers \in Seq(Nat)
    BY <1>1
  <2> QED
    BY <1>1, <2>1, <2>2 DEF AnswersInv
<1> QED
  BY <1>2, <1>3 DEF AnswerInv

LEMMA BeginKeys ==
  ASSUME SearchInv, Begin
  PROVE  KeyedInv'
<1>1. /\ cands' = << >> /\ group' = 0 /\ pc' = "group" /\ UNCHANGED <<inst, sweep>>
      /\ inst \in Platforms
  BY DEF Begin, SearchInv
<1>2. Groups' = Groups /\ Groups \in Nat /\ Groups > 0
  BY <1>1, GroupsStay, HasGroups
<1>3. DOMAIN cands' = {} /\ group' \in 0 .. Groups'
  BY <1>1, <1>2
<1> DEFINE f == [c \in {} |-> 0]
<1>4. f \in [DOMAIN cands' -> Nat]
  BY <1>3
<1> HIDE DEF f
<1>5. Keyed(f)'
  BY <1>1, <1>2, <1>3 DEF Keyed, Tried
<1> QED
  BY <1>1, <1>3, <1>4, <1>5 DEF KeyedInv

LEMMA OpenGroupKeys ==
  ASSUME SearchInv, KeyedInv, OpenGroup
  PROVE  KeyedInv'
<1>1. /\ pc = "group" /\ pc' = "reserve" /\ group < Groups /\ turn' = 0 /\ seen' = {}
      /\ UNCHANGED <<inst, sweep, group, cands>>
  BY DEF OpenGroup
<1>2. PICK f \in [DOMAIN cands -> Nat] : Keyed(f)
  BY <1>1 DEF KeyedInv, Searching
<1>3. \A n, g : \A j \in Keys(g) : Tried(n, j)' <=> Tried(n, j)
  BY <1>1, HasGroups, KeysBelow DEF Tried, SearchInv
<1>4. Keyed(f)'
  BY <1>1, <1>2, <1>3, KeyedStays DEF SearchInv
<1>5. Groups' = Groups /\ Turns' = Turns /\ Turns \in Nat /\ group \in 0 .. Groups
  BY <1>1, GroupsStay, HasGroups DEF KeyedInv, Searching, Turns, SearchInv
<1>6. \A g : {ReservePair(g, m)' : m \in 0 .. (turn' - 1)} = {}
  BY <1>1
<1> QED
  BY <1>1, <1>2, <1>4, <1>5, <1>6 DEF KeyedInv

LEMMA NextGroupKeys ==
  ASSUME SearchInv, KeyedInv, NextGroup
  PROVE  KeyedInv'
<1>1. /\ pc = "reserve" /\ pc' = "group" /\ group' = group + 1 /\ turn = Turns
      /\ UNCHANGED <<inst, sweep, cands>>
  BY DEF NextGroup
<1>2. PICK f \in [DOMAIN cands -> Nat] : Keyed(f)
  BY <1>1 DEF KeyedInv, Searching
<1>3. group \in 0 .. Groups /\ group < Groups /\ Groups \in Nat
  BY <1>1, HasGroups DEF KeyedInv, Searching, SearchInv
<1>4. \A n \in 0 .. (Groups - 1) : \A g : \A j \in Keys(g) : Tried(n, j)' <=> Tried(n, j)
  BY <1>1, <1>3, HasGroups, KeysBelow DEF Tried, SearchInv
<1>5. Keyed(f)'
  BY <1>1, <1>2, <1>4, KeyedStays DEF SearchInv
<1>6. Groups' = Groups
  BY <1>1, GroupsStay
<1> QED
  BY <1>1, <1>2, <1>3, <1>5, <1>6 DEF KeyedInv

LEMMA LaterStepsKeepKeys ==
  ASSUME SearchInv, KeyedInv, Shortlist \/ TimeFinalist \/ Establish
  PROVE  KeyedInv'
<1>1. /\ pc \in {"group", "time"} /\ pc' \in {"time", "decode"} /\ group' = group
      /\ UNCHANGED <<inst, sweep, cands>>
      /\ (pc = "group" => group = Groups)
  BY DEF Shortlist, TimeFinalist, Establish
<1>2. PICK f \in [DOMAIN cands -> Nat] : Keyed(f)
  BY <1>1 DEF KeyedInv, Searching
<1>3. \A n, g : \A j \in Keys(g) : Tried(n, j)' <=> Tried(n, j)
  BY <1>1, HasGroups, KeysBelow DEF Tried, SearchInv
<1>4. Keyed(f)'
  BY <1>1, <1>2, <1>3, KeyedStays DEF SearchInv
<1>5. Groups' = Groups /\ group \in 0 .. Groups /\ group = Groups
  BY <1>1, GroupsStay DEF KeyedInv, Searching
<1> QED
  BY <1>1, <1>2, <1>4, <1>5 DEF KeyedInv

LEMMA DecodeKeys ==
  ASSUME Decode
  PROVE  KeyedInv'
<1>1. pc' \in {"begin", "done"}
  BY DEF Decode
<1> QED
  BY <1>1 DEF KeyedInv, Searching

LEMMA TryReserveKeys ==
  ASSUME SearchInv, KeyedInv, TryReserve, sweep \in DOMAIN inst.devices
  PROVE  KeyedInv'
<1> DEFINE dr == ReserveAt(turn)[1]
           hr == ReserveAt(turn)[2]
           new == [m \in DOMAIN Modes |-> Candidate(PlaceAt(dr, hr), Modes[m], dr, hr)]
<1>0. PICK g, p : g = GroupAt(p) /\ p = group
  OBVIOUS
<1>1. /\ \/ <<dr, hr>> \in seen /\ UNCHANGED <<seen, cands>>
         \/ seen' = seen \cup {<<dr, hr>>} /\ cands' = cands \o new /\ <<dr, hr>> \notin seen
      /\ turn' = turn + 1 /\ pc = "reserve" /\ pc' = "reserve" /\ turn < Turns
      /\ UNCHANGED <<inst, sweep, group>>
  BY DEF TryReserve, PlaceAt
<1>2. GroupPlaced /\ CandsPlaced /\ inst \in Platforms
  BY <1>1 DEF SearchInv
<1>3. PICK f \in [DOMAIN cands -> Nat] : Keyed(f)
  BY <1>1 DEF KeyedInv, Searching
<1>4. /\ Groups \in Nat /\ Turns \in Nat /\ group \in 0 .. (Groups - 1) /\ turn \in Nat
      /\ group \in 0 .. Groups /\ group < Groups
      /\ seen = {ReservePair(g, m) : m \in 0 .. (turn - 1)}
  <2>1. Groups \in Nat /\ Turns \in Nat
    BY <1>2, HasGroups
  <2>2. group \in 0 .. Groups /\ group < Groups /\ turn \in 0 .. Turns
    BY <1>1 DEF KeyedInv, Searching
  <2>3. seen = {ReservePair(g, m) : m \in 0 .. (turn - 1)}
    BY <1>0, <1>1 DEF KeyedInv
  <2> QED
    BY <2>1, <2>2, <2>3
<1>5. <<dr, hr>> = ReservePair(g, turn)
  BY <1>0, <1>2, ReserveIs DEF ReservePair
<1>6. \A m \in 1 .. 3 : new[m] = CandOf(g, turn, Modes[m])
  <2>1. DOMAIN Modes = 1 .. 3
    BY DEF Modes
  <2>2. \A m : Candidate(PlaceAt(dr, hr), m, dr, hr) = CandOf(g, turn, m)
    BY <1>0, <1>2, CandidateIs
  <2> QED
    BY <2>1, <2>2
<1>7. g = [dev |-> g.dev, tier |-> g.tier, level |-> g.level]
  BY <1>0 DEF GroupAt
<1>8. /\ Groups' = Groups /\ Turns' = Turns /\ \A n : GroupAt(n)' = GroupAt(n)
      /\ \A h : Keys(h)' = Keys(h) /\ \A j : CandAt(h, j)' = CandAt(h, j)
      /\ \A h, n : ReservePair(h, n)' = ReservePair(h, n)
  BY <1>1, GroupsStay, KeysStay DEF Turns
<1>9. \A m, n \in 0 .. (Groups - 1) : GroupAt(m) = GroupAt(n) => m = n
  BY <1>2, GroupsAre
<1>10. new = [m \in 1 .. 3 |-> new[m]]
  <2>1. DOMAIN Modes = 1 .. 3
    BY DEF Modes
  <2> QED
    BY <2>1
<1> HIDE DEF dr, hr, new
<1>11. \A n \in 0 .. (Groups - 1) : \A h : h = GroupAt(n) =>
         \A j \in Keys(h) : /\ j \in Nat /\ j < 3 * Turns
                            /\ (Tried(n, j) => Tried(n, j)')
                            /\ (Tried(n, j)' /\ ~Tried(n, j)
                                  => n = group /\ j \div 3 = turn /\ j - 3 * turn + 1 \in 1 .. 3)
  <2> SUFFICES ASSUME NEW n \in 0 .. (Groups - 1), NEW h, NEW j \in Keys(h)
               PROVE  /\ j \in Nat /\ j < 3 * Turns
                      /\ (Tried(n, j) => Tried(n, j)')
                      /\ (Tried(n, j)' /\ ~Tried(n, j)
                            => n = group /\ j \div 3 = turn /\ j - 3 * turn + 1 \in 1 .. 3)
    OBVIOUS
  <2>1. j \in Nat /\ j < 3 * Turns
    BY <1>4, KeysBelow
  <2>2. Tried(n, j) => Tried(n, j)'
    BY <1>1, <1>4, <2>1 DEF Tried
  <2>3. Tried(n, j)' /\ ~Tried(n, j) => n = group /\ 3 * turn <= j /\ j < 3 * (turn + 1)
    BY <1>1, <1>4, <2>1 DEF Tried
  <2> QED
    BY <1>4, <2>1, <2>2, <2>3, KeyDigits
<1>12. seen' = {ReservePair(g, m) : m \in 0 .. turn}
  <2>1. 0 .. turn = 0 .. (turn - 1) \cup {turn}
    BY <1>4
  <2> QED
    BY <1>1, <1>4, <1>5, <2>1, ZenonT(60)
<1>13. \A n, h : n = group' /\ h = GroupAt(n)' =>
         seen' = {ReservePair(h, m)' : m \in 0 .. (turn' - 1)}
  <2>1. turn' - 1 = turn
    BY <1>1, <1>4
  <2> QED
    BY <1>0, <1>1, <1>8, <1>12, <2>1
<1>14. CASE <<dr, hr>> \in seen /\ UNCHANGED <<seen, cands>>
  <2>1. \A n \in 0 .. (Groups - 1) : \A h : h = GroupAt(n) =>
          \A j \in Keys(h) : Tried(n, j)' <=> Tried(n, j)
    <3> SUFFICES ASSUME NEW n \in 0 .. (Groups - 1), NEW h, h = GroupAt(n), NEW j \in Keys(h),
                        Tried(n, j)', ~Tried(n, j)
                 PROVE  FALSE
      BY <1>11
    <3>1. n = group /\ j \div 3 = turn
      BY <1>11
    <3>2. PICK m \in 0 .. (turn - 1) : ReservePair(g, m) = ReservePair(g, turn)
      BY <1>4, <1>5, <1>14
    <3> QED
      BY <1>0, <3>1, <3>2 DEF Keys
  <2>2. Keyed(f)'
    BY <1>1, <1>2, <1>3, <1>14, <2>1, KeyedStays
  <2>3. DOMAIN cands' = DOMAIN cands /\ turn' \in 0 .. Turns'
    BY <1>1, <1>4, <1>8, <1>14
  <2> QED
    BY <1>1, <1>4, <1>8, <1>13, <2>2, <2>3 DEF KeyedInv
<1>15. CASE <<dr, hr>> \notin seen /\ cands' = cands \o new
  <2>1. PICK k \in Nat : cands = [c \in 1 .. k |-> cands[c]] /\ DOMAIN cands = 1 .. k
    BY <1>2 DEF CandsPlaced
  <2>2. /\ DOMAIN cands' = 1 .. (k + 3)
        /\ \A x \in 1 .. (k + 3) : cands'[x] = IF x <= k THEN cands[x] ELSE new[x - k]
    BY <1>10, <1>15, <2>1, Appended
  <2>0. PICK e : e = [x \in 1 .. (k + 3) |-> IF x <= k THEN f[x] ELSE 3 * turn + (x - k - 1)]
    OBVIOUS
  <2>3. e \in [DOMAIN cands' -> Nat]
    <3>1. ASSUME NEW x \in 1 .. (k + 3)
          PROVE  (IF x <= k THEN f[x] ELSE 3 * turn + (x - k - 1)) \in Nat
      <4>1. x <= k => f[x] \in Nat
        BY <2>1
      <4> QED
        BY <1>4, <2>1, <4>1, SMTT(60)
    <3> QED
      BY <2>0, <2>2, <3>1
  <2>4. /\ \A x \in 1 .. k : x \in 1 .. (k + 3) /\ e[x] = f[x] /\ cands'[x] = cands[x]
        /\ \A x \in 1 .. (k + 3) : ~(x <= k) =>
             /\ x - k \in 1 .. 3 /\ e[x] = 3 * turn + ((x - k) - 1)
             /\ cands'[x] = CandOf(g, turn, Modes[x - k])
    <3>1. \A x \in 1 .. k : x \in 1 .. (k + 3) /\ x <= k
      BY <2>1
    <3>2. \A x \in 1 .. (k + 3) : ~(x <= k) => x - k \in 1 .. 3 /\ x - k - 1 = (x - k) - 1
      BY <2>1
    <3> QED
      BY <1>6, <2>0, <2>2, <3>1, <3>2
  \* The new keys are those of this turn.
  <2>5. ASSUME NEW x \in 1 .. (k + 3), ~(x <= k)
        PROVE  /\ g = GroupOf(cands'[x]) /\ e[x] \in Keys(g) /\ cands'[x] = CandAt(g, e[x])
               /\ (\A j : j = e[x] => Tried(p, j)' /\ ~Tried(p, j)) /\ 3 * turn <= e[x]
    <3> DEFINE m == x - k
    <3>1. m \in 1 .. 3 /\ e[x] = 3 * turn + (m - 1) /\ cands'[x] = CandOf(g, turn, Modes[m])
      BY <2>4, <2>5
    <3> HIDE DEF m
    <3>2. e[x] \in Nat /\ e[x] \div 3 = turn /\ (e[x] % 3) + 1 = m
      BY <1>4, <3>1, KeyDigits
    <3>3. 3 * turn <= e[x] /\ e[x] < 3 * (turn + 1) /\ e[x] \in 0 .. (3 * Turns - 1)
      BY <1>1, <1>4, <3>1, <3>2
    <3>4. \A y \in 0 .. (turn - 1) : ReservePair(g, y) # ReservePair(g, turn)
      BY <1>4, <1>5, <1>15
    <3>5. e[x] \in Keys(g)
      BY <3>2, <3>3, <3>4 DEF Keys
    <3>6. cands'[x] = CandAt(g, e[x])
      BY <3>1, <3>2 DEF CandAt
    <3>7. g = GroupOf(cands'[x])
      BY <1>7, <3>1, CandOfGroup
    <3>8. \A j : j = e[x] => Tried(p, j)' /\ ~Tried(p, j)
      BY <1>0, <1>1, <1>4, <3>2, <3>3 DEF Tried
    <3> QED
      BY <3>3, <3>5, <3>6, <3>7, <3>8
  <2>6. ASSUME NEW c \in 1 .. (k + 3)
        PROVE  \E n \in 0 .. (Groups - 1) : \E h :
                 /\ h = GroupAt(n) /\ h = GroupOf(cands'[c])
                 /\ e[c] \in Keys(h) /\ Tried(n, e[c])' /\ cands'[c] = CandAt(h, e[c])
    <3>1. CASE c <= k
      <4>1. c \in 1 .. k
        BY <2>1, <3>1
      <4>2. PICK n, h :
               /\ n \in 0 .. (Groups - 1)
               /\ h = GroupAt(n) /\ h = GroupOf(cands[c])
               /\ f[c] \in Keys(h) /\ Tried(n, f[c]) /\ cands[c] = CandAt(h, f[c])
        BY <1>3, <2>1, <4>1 DEF Keyed
      <4>3. e[c] = f[c] /\ cands'[c] = cands[c]
        BY <2>4, <4>1
      <4>4. Tried(n, f[c])'
        BY <1>11, <4>2
      <4> QED
        BY <4>2, <4>3, <4>4
    <3>2. CASE ~(c <= k)
      BY <1>0, <1>4, <2>5, <3>2
    <3> QED
      BY <3>1, <3>2
  <2>7. ASSUME NEW c \in 1 .. (k + 3), NEW d \in 1 .. (k + 3), c < d, SameGroup(c, d)'
        PROVE  e[c] < e[d]
    <3>1. GroupOf(cands'[c]) = GroupOf(cands'[d])
      BY <2>7 DEF SameGroup, GroupOf
    <3>2. CASE d <= k
      <4>1. c \in 1 .. k /\ d \in 1 .. k
        BY <2>1, <2>7, <3>2
      <4>2. SameGroup(c, d)
        BY <2>4, <3>1, <4>1, SameGroupIs
      <4> QED
        BY <1>3, <2>1, <2>4, <2>7, <4>1, <4>2 DEF Keyed
    <3>3. CASE ~(d <= k) /\ c <= k
      <4>1. c \in 1 .. k
        BY <2>1, <3>3
      <4>2. GroupOf(cands[c]) = g /\ 3 * turn <= e[d]
        BY <2>4, <2>5, <3>1, <3>3, <4>1
      <4>3. PICK n, h :
               /\ n \in 0 .. (Groups - 1)
               /\ h = GroupAt(n) /\ h = GroupOf(cands[c]) /\ f[c] \in Keys(h) /\ Tried(n, f[c])
        BY <1>3, <2>1, <4>1 DEF Keyed
      <4>4. n = group
        BY <1>0, <1>4, <1>9, <4>2, <4>3
      <4>5. f[c] < 3 * turn
        BY <1>4, <4>3, <4>4 DEF Tried
      <4>6. e[c] = f[c] /\ f[c] \in Nat /\ e[d] \in Nat
        BY <2>1, <2>2, <2>3, <2>4, <4>1
      <4> QED
        BY <1>4, <4>2, <4>5, <4>6
    <3>4. CASE ~(c <= k)
      <4>1. ~(d <= k)
        BY <2>1, <2>7, <3>4
      <4>2. e[c] = 3 * turn + ((c - k) - 1) /\ e[d] = 3 * turn + ((d - k) - 1)
        BY <2>4, <3>4, <4>1
      <4> QED
        BY <1>4, <2>1, <2>7, <4>2, SMTT(60)
    <3> QED
      BY <3>2, <3>3, <3>4
  <2>8. ASSUME NEW n \in 0 .. (Groups - 1), NEW h, h = GroupAt(n), NEW j \in Keys(h), Tried(n, j)'
        PROVE  \E c \in 1 .. (k + 3) : h = GroupOf(cands'[c]) /\ e[c] = j
    <3>1. CASE Tried(n, j)
      <4>1. PICK c \in 1 .. k : h = GroupOf(cands[c]) /\ f[c] = j
        BY <1>3, <2>1, <2>8, <3>1 DEF Keyed
      <4> QED
        BY <2>4, <4>1
    <3>2. CASE ~Tried(n, j)
      <4>1. n = group /\ j - 3 * turn + 1 \in 1 .. 3 /\ j \in Nat
        BY <1>11, <2>8, <3>2
      <4> DEFINE c == k + (j - 3 * turn + 1)
      <4>2. c \in 1 .. (k + 3) /\ ~(c <= k) /\ (c - k) - 1 = j - 3 * turn
        <5>1. k \in Nat /\ turn \in Nat /\ j - 3 * turn + 1 \in 1 .. 3
          BY <1>4, <2>1, <4>1
        <5> QED
          BY <4>1, <5>1
      <4> HIDE DEF c
      <4>3. e[c] = 3 * turn + ((c - k) - 1)
        BY <2>4, <4>2
      <4>4. e[c] = j
        BY <1>4, <4>1, <4>2, <4>3
      <4>5. h = GroupOf(cands'[c])
        BY <1>0, <2>5, <2>8, <4>1, <4>2
      <4> QED
        BY <4>2, <4>4, <4>5
    <3> QED
      BY <3>1, <3>2
  <2>9. Keyed(e)'
    <3>1. ASSUME NEW c \in DOMAIN cands'
          PROVE  \E n \in 0 .. (Groups' - 1) : \E h :
                   /\ h = GroupAt(n)' /\ h = GroupOf(cands'[c])
                   /\ e[c] \in Keys(h)' /\ Tried(n, e[c])' /\ cands'[c] = CandAt(h, e[c])'
      <4>1. PICK n, h :
               /\ n \in 0 .. (Groups - 1)
               /\ h = GroupAt(n) /\ h = GroupOf(cands'[c])
               /\ e[c] \in Keys(h) /\ Tried(n, e[c])' /\ cands'[c] = CandAt(h, e[c])
        BY <2>2, <2>6
      <4> QED
        BY <1>8, <4>1
    <3>2. ASSUME NEW n \in 0 .. (Groups' - 1), NEW h, h = GroupAt(n)', NEW j \in Keys(h)',
                 Tried(n, j)'
          PROVE  \E c \in DOMAIN cands' : h = GroupOf(cands'[c]) /\ e[c] = j
      <4>1. n \in 0 .. (Groups - 1) /\ h = GroupAt(n) /\ j \in Keys(h)
        BY <1>8, <3>2
      <4> QED
        BY <2>2, <2>8, <3>2, <4>1
    <3> QED
      BY <2>2, <2>7, <3>1, <3>2 DEF Keyed
  <2>10. turn' \in 0 .. Turns'
    BY <1>1, <1>4, <1>8
  <2> QED
    BY <1>1, <1>4, <1>8, <1>13, <2>3, <2>9, <2>10 DEF KeyedInv
<1> QED
  BY <1>1, <1>14, <1>15
-----------------------------------------------------------------------------
(* The finalists are those of the device alone.                            *)

\* Once every group has been tried, the finalists found are the finalists among
\* the keys of the device's groups.
LEMMA FinalistsAre ==
  ASSUME SearchInv, NEW f \in [DOMAIN cands -> Nat], Keyed(f), sweep \in DOMAIN inst.devices,
         group = Groups
  PROVE  /\ \A c \in DOMAIN cands : \A g : g = GroupOf(cands[c]) =>
              /\ g \in GroupsFor(Device) /\ f[c] \in Keys(g) /\ cands[c] = CandAt(g, f[c])
              /\ Shortlisted(c) <=> KeyShort(g, f[c])
         /\ \A g \in GroupsFor(Device) : \A j \in Keys(g) :
              \E c \in DOMAIN cands : g = GroupOf(cands[c]) /\ f[c] = j
<1>1. /\ inst \in Platforms /\ CandsPlaced
  BY DEF SearchInv
<1>2. PICK k \in Nat : DOMAIN cands = 1 .. k /\ \A c \in DOMAIN cands : cands[c].est \in Nat
  BY <1>1 DEF CandsPlaced
<1>3. {GroupAt(n) : n \in 0 .. (Groups - 1)} = GroupsFor(Device) /\ Groups \in Nat
  BY <1>1, GroupsAre, HasGroups
<1>4. ASSUME NEW g \in GroupsFor(Device), NEW j \in Keys(g)
      PROVE  \E c \in DOMAIN cands : g = GroupOf(cands[c]) /\ f[c] = j
  <2>1. PICK n \in 0 .. (Groups - 1) : g = GroupAt(n)
    BY <1>3
  <2>2. Tried(n, j)
    BY <1>3 DEF Tried
  <2> QED
    BY <2>1, <2>2 DEF Keyed
<1>5. ASSUME NEW c \in DOMAIN cands, NEW g, g = GroupOf(cands[c])
      PROVE  g \in GroupsFor(Device) /\ f[c] \in Keys(g) /\ cands[c] = CandAt(g, f[c])
  <2>1. PICK n \in 0 .. (Groups - 1) :
          g = GroupAt(n) /\ f[c] \in Keys(g) /\ cands[c] = CandAt(g, f[c])
    BY <1>5 DEF Keyed
  <2> QED
    BY <1>3, <2>1
<1>6. ASSUME NEW c \in DOMAIN cands, NEW g, g = GroupOf(cands[c])
      PROVE  Shortlisted(c) <=> KeyShort(g, f[c])
  <2> DEFINE A == {d \in DOMAIN cands : SameGroup(d, c) /\ Before(d, c)}
             B == {i \in Keys(g) : KeyBefore(g, i, f[c])}
             F == [d \in A |-> f[d]]
  <2>1. \A d \in DOMAIN cands : SameGroup(d, c) <=> GroupOf(cands[d]) = g
    BY <1>6, SameGroupIs
  <2>2. \A d, e \in DOMAIN cands : GroupOf(cands[d]) = g /\ GroupOf(cands[e]) = g /\ d < e
                                     => f[d] < f[e]
    BY SameGroupIs DEF Keyed
  <2>3. \A d \in DOMAIN cands :
          GroupOf(cands[d]) = g => f[d] \in Keys(g) /\ cands[d] = CandAt(g, f[d])
    BY <1>5
  <2>4. \A d, e \in DOMAIN cands : GroupOf(cands[d]) = g /\ GroupOf(cands[e]) = g =>
          (d < e <=> f[d] < f[e]) /\ (f[d] = f[e] => d = e)
    <3> SUFFICES ASSUME NEW d \in DOMAIN cands, NEW e \in DOMAIN cands,
                        GroupOf(cands[d]) = g, GroupOf(cands[e]) = g
                 PROVE  (d < e <=> f[d] < f[e]) /\ (f[d] = f[e] => d = e)
      OBVIOUS
    <3>1. d \in Nat /\ e \in Nat /\ f[d] \in Nat /\ f[e] \in Nat
      BY <1>2
    <3>2. (d < e => f[d] < f[e]) /\ (e < d => f[e] < f[d])
      BY <2>2
    <3>3. d < e \/ d = e \/ e < d
      BY <3>1
    <3> QED
      BY <3>1, <3>2, <3>3
  <2>5. \A d \in DOMAIN cands : GroupOf(cands[d]) = g => (Before(d, c) <=> KeyBefore(g, f[d], f[c]))
    BY <1>6, <2>3, <2>4 DEF Before, KeyBefore
  <2>6. \A d \in A : F[d] \in B /\ GroupOf(cands[d]) = g
    BY <2>1, <2>3, <2>5
  <2>7. \A d, e \in A : F[d] = F[e] => d = e
    BY <2>4, <2>6
  <2>8. \A i \in B : \E d \in A : F[d] = i
    <3> SUFFICES ASSUME NEW i \in B PROVE \E d \in A : F[d] = i
      OBVIOUS
    <3>1. PICK d \in DOMAIN cands : GroupOf(cands[d]) = g /\ f[d] = i
      BY <1>4, <1>5, <1>6
    <3>2. d \in A
      BY <2>1, <2>5, <3>1
    <3> QED
      BY <3>1, <3>2
  <2>9. IsFiniteSet(A)
    <3>1. IsFiniteSet(DOMAIN cands)
      BY <1>2, FS_Interval
    <3> QED
      BY <3>1, FS_Subset
  <2>10. Shortlisted(c) <=> Cardinality(A) < Finalists
    BY DEF Shortlisted
  <2>11. KeyShort(g, f[c]) <=> Cardinality(B) < Finalists
    BY DEF KeyShort
  <2>12. F = [d \in A |-> F[d]]
    OBVIOUS
  <2> HIDE DEF A, B, F
  <2>13. F \in Bijection(A, B)
    <3>1. F \in [A -> B]
      BY <2>6, <2>12
    <3> QED
      BY <2>7, <2>8, <3>1 DEF Bijection, Injection, Surjection, IsInjective
  <2>14. Cardinality(B) = Cardinality(A)
    BY <2>9, <2>13, FS_Bijection DEF ExistsBijection
  <2> QED
    BY <2>10, <2>11, <2>14
<1> QED
  BY <1>4, <1>5, <1>6

\* So the least time of the finalists is the answer for the device.
LEMMA AnswerIs ==
  ASSUME SearchInv, KeyedInv, BestInv, TimedInv, sweep \in DOMAIN inst.devices,
         pc = "decode", best # << >>
  PROVE  IsAnswer(Device, best.time)
<1>1. PICK f \in [DOMAIN cands -> Nat] : Keyed(f)
  BY DEF KeyedInv, Searching
<1>2. group = Groups /\ toTime = {}
  BY DEF KeyedInv, SearchInv
<1>3. /\ \A c \in DOMAIN cands : \A g : g = GroupOf(cands[c]) =>
           /\ g \in GroupsFor(Device) /\ f[c] \in Keys(g) /\ cands[c] = CandAt(g, f[c])
           /\ Shortlisted(c) <=> KeyShort(g, f[c])
      /\ \A g \in GroupsFor(Device) : \A j \in Keys(g) :
           \E c \in DOMAIN cands : g = GroupOf(cands[c]) /\ f[c] = j
  BY <1>1, <1>2, FinalistsAre
<1>4. \E g \in GroupsFor(Device) : \E j \in Keys(g) : KeyShort(g, j) /\ best.time = TimeOf(g, j)
  <2>1. PICK c \in DOMAIN cands : Shortlisted(c) /\ best.time = Timed(cands[c]).time
    BY DEF BestInv
  <2>2. PICK g : g = GroupOf(cands[c])
    OBVIOUS
  <2>3. /\ g \in GroupsFor(Device) /\ f[c] \in Keys(g) /\ cands[c] = CandAt(g, f[c])
        /\ KeyShort(g, f[c])
    BY <1>3, <2>1, <2>2
  <2> QED
    BY <2>1, <2>3 DEF TimeOf
<1>5. ASSUME NEW g \in GroupsFor(Device), NEW j \in Keys(g), KeyShort(g, j)
      PROVE  best.time <= TimeOf(g, j)
  <2>1. PICK c \in DOMAIN cands : g = GroupOf(cands[c]) /\ f[c] = j
    BY <1>3
  <2>2. Shortlisted(c) /\ cands[c] = CandAt(g, j)
    BY <1>3, <1>5, <2>1
  <2>3. best.time <= Timed(cands[c]).time
    BY <1>2, <2>2 DEF TimedInv
  <2> QED
    BY <2>2, <2>3 DEF TimeOf
<1> QED
  BY <1>4, <1>5 DEF IsAnswer
-----------------------------------------------------------------------------
(* Every answer is that of its device: AnswerInv.                          *)

LEMMA NextKeepsBest ==
  ASSUME SearchInv, BestInv, Next
  PROVE  BestInv'
<1>1. inst' = inst
  BY SMTT(60) DEF Next, Begin, OpenGroup, TryReserve, NextGroup, Shortlist, TimeFinalist, Establish,
         Decode
<1>2. CASE pc' \notin {"time", "decode"}
  BY <1>2 DEF BestInv, Next, Begin, OpenGroup, TryReserve, NextGroup, Shortlist,
              TimeFinalist, Establish, Decode
<1>3. CASE Shortlist
  <2>1. /\ toTime' = {c \in DOMAIN cands : Shortlisted(c)} /\ cands' = cands /\ best' = best
        /\ pc = "group" /\ pc' = "time"
    BY <1>3 DEF Shortlist
  <2>2. \A c \in toTime' : Shortlisted(c)'
    BY <2>1, ShortlistStays
  <2>3. best' = << >>
    BY <2>1 DEF BestInv
  <2> QED
    BY <2>1, <2>2, <2>3 DEF BestInv
<1>4. CASE TimeFinalist
  <2>1. PICK i \in toTime :
          /\ best' = IF Better(Timed(cands[i])) THEN Timed(cands[i]) ELSE best
          /\ toTime' = toTime \ {i}
    BY <1>4 DEF TimeFinalist
  <2>2. pc = "time" /\ pc' = "time" /\ cands' = cands
    BY <1>4 DEF TimeFinalist
  <2>3. \A c : Shortlisted(c)' <=> Shortlisted(c)
    BY <2>2, ShortlistStays
  <2>4. \A c : (Timed(cands[c]).time)' = Timed(cands[c]).time
    BY <1>1, <2>2 DEF Timed
  <2>5. (\A c \in toTime : Shortlisted(c)) /\ toTime \subseteq DOMAIN cands
    BY <2>2 DEF BestInv, SearchInv
  <2>6. best' # << >> =>
          \E c \in DOMAIN cands : Shortlisted(c) /\ best'.time = Timed(cands[c]).time
    <3>1. CASE best' = Timed(cands[i])
      BY <2>5, <3>1
    <3>2. CASE best' = best
      BY <2>2, <3>2 DEF BestInv
    <3> QED
      BY <2>1, <3>1, <3>2
  <2>7. best' # << >> =>
          \E c \in DOMAIN cands' : Shortlisted(c)' /\ best'.time = (Timed(cands[c]).time)'
    BY <2>2, <2>3, <2>4, <2>6
  <2>8. \A c \in toTime' : Shortlisted(c)'
    BY <2>1, <2>3, <2>5
  <2> QED
    BY <2>2, <2>7, <2>8 DEF BestInv
<1>5. CASE Establish
  <2>1. pc = "time" /\ pc' = "decode" /\ UNCHANGED <<cands, best, toTime>>
    BY <1>5 DEF Establish
  <2>2. \A c : (Timed(cands[c]).time)' = Timed(cands[c]).time
    BY <1>1, <2>1 DEF Timed
  <2>3. \A c : Shortlisted(c)' <=> Shortlisted(c)
    BY <2>1, ShortlistStays
  <2> QED
    BY <2>1, <2>2, <2>3 DEF BestInv
<1> QED
  BY <1>2, <1>3, <1>4, <1>5, SMTT(60) DEF Next, Begin, OpenGroup, TryReserve, NextGroup, Decode

LEMMA NextKeepsAnswers ==
  ASSUME SearchInv, FitsInv, TimedInv, AnswerInv, Next
  PROVE  AnswersInv'
<1>1. inst' = inst /\ inst \in Platforms /\ sweep \in DOMAIN inst.devices
  BY DEF Next, Begin, OpenGroup, TryReserve, NextGroup, Shortlist, TimeFinalist, Establish,
         Decode, SearchInv, FitsInv
<1>2. \A size, t : IsAnswer(size, t)' <=> IsAnswer(size, t)
  BY <1>1, KeysStay
<1>3. AnswersInv
  BY DEF AnswerInv
<1>4. CASE Decode
  <2>1. best # << >> /\ best.time \in Nat /\ pc = "decode"
    BY <1>4 DEF Decode, FitsInv, TimedInv
  <2>2. IsAnswer(Device, best.time)
    BY <1>1, <2>1, AnswerIs DEF AnswerInv
  <2>3. PICK k \in Nat : /\ k = Len(inst.devices) /\ DOMAIN inst.devices = 1 .. k
    BY <1>1, PlatformTyped, LenProperties
  <2>4. PICK n \in Nat : n = Len(answers) /\ sweep = n + 1 /\ answers \in Seq(Nat)
    <3>1. Len(answers) = sweep - 1 /\ answers \in Seq(Nat) /\ Len(answers) \in Nat
      BY <1>3, <2>1, LenProperties DEF AnswersInv
    <3> QED
      BY <1>1, <2>3, <3>1
  <2>5. /\ answers' = Append(answers, best.time)
        /\ \/ sweep < k /\ sweep' = sweep + 1 /\ pc' = "begin"
           \/ sweep' = sweep /\ pc' = "done"
    BY <1>4, <2>3 DEF Decode
  <2>6. /\ answers' \in Seq(Nat) /\ Len(answers') = n + 1
        /\ \A a \in 1 .. (n + 1) : answers'[a] = IF a = n + 1 THEN best.time ELSE answers[a]
    BY <2>1, <2>4, <2>5, AppendProperties
  <2>7. sweep' \in DOMAIN inst'.devices
    BY <1>1, <2>3, <2>4, <2>5
  <2>8. Len(answers') = IF pc' = "done" THEN sweep' ELSE sweep' - 1
    BY <2>4, <2>5, <2>6
  <2>9. ASSUME NEW a \in 1 .. (n + 1), NEW size, NEW t, size = inst.devices[a], t = answers'[a]
        PROVE  IsAnswer(size, t)'
    <3>1. CASE a = n + 1
      BY <1>2, <2>2, <2>4, <2>6, <2>9, <3>1 DEF Device
    <3>2. CASE a # n + 1
      <4>1. a \in 1 .. n /\ t = answers[a]
        BY <2>4, <2>6, <2>9, <3>2
      <4>2. IsAnswer(size, t)
        BY <1>3, <2>4, <2>9, <4>1 DEF AnswersInv
      <4> QED
        BY <1>2, <4>2
    <3> QED
      BY <3>1, <3>2
  <2>10. \A a \in 1 .. Len(answers') : \A size, t :
            size = inst'.devices[a] /\ t = answers'[a] => IsAnswer(size, t)'
    BY <1>1, <2>6, <2>9
  <2> QED
    BY <2>6, <2>7, <2>8, <2>10 DEF AnswersInv
<1>5. CASE ~Decode
  <2>1. UNCHANGED <<answers, sweep>> /\ pc # "done" /\ pc' # "done"
    BY <1>5 DEF Next, Begin, OpenGroup, TryReserve, NextGroup, Shortlist, TimeFinalist, Establish
  <2> QED
    BY <1>1, <1>2, <1>3, <2>1, SMTT(60) DEF AnswersInv
<1> QED
  BY <1>4, <1>5, SMTT(60)

LEMMA NextKeepsAnswer ==
  ASSUME SearchInv, FitsInv, TimedInv, AnswerInv, Next
  PROVE  AnswerInv'
<1>1. sweep \in DOMAIN inst.devices /\ KeyedInv /\ BestInv
  BY DEF FitsInv, AnswerInv
<1>2. KeyedInv'
  BY <1>1, BeginKeys, OpenGroupKeys, TryReserveKeys, NextGroupKeys, LaterStepsKeepKeys,
     DecodeKeys DEF Next
<1>3. BestInv'
  BY <1>1, NextKeepsBest
<1> QED
  BY <1>2, <1>3, NextKeepsAnswers DEF AnswerInv

\* A larger device's groups include every smaller one's, and what a group's finalists
\* take does not depend on the device.
LEMMA AnswersOrdered ==
  ASSUME SearchInv, FitsInv, AnswerInv
  PROVE  MoreDeviceNoWorse
<1> SUFFICES ASSUME NEW a \in DOMAIN answers, NEW b \in DOMAIN answers,
                    inst.devices[a] <= inst.devices[b]
             PROVE  answers[b] <= answers[a]
  BY DEF MoreDeviceNoWorse
<1>1. inst \in Platforms /\ sweep \in DOMAIN inst.devices /\ AnswersInv
  BY DEF SearchInv, FitsInv, AnswerInv
<1>2. /\ DOMAIN inst.devices = 1 .. Len(inst.devices) /\ Len(inst.devices) \in Nat
      /\ \A x \in DOMAIN inst.devices : inst.devices[x] \in Nat
  BY <1>1, PlatformTyped, LenProperties, ElementOfSeq
<1>3. /\ DOMAIN answers = 1 .. Len(answers) /\ Len(answers) \in Nat
      /\ (Len(answers) = sweep \/ Len(answers) = sweep - 1)
  BY <1>1, LenProperties DEF AnswersInv
<1>4. a \in DOMAIN inst.devices /\ b \in DOMAIN inst.devices
  BY <1>1, <1>2, <1>3
<1> DEFINE da == inst.devices[a]
           db == inst.devices[b]
<1>5. da \in Nat /\ db \in Nat /\ da <= db
  BY <1>2, <1>4
<1>6. IsAnswer(da, answers[a]) /\ IsAnswer(db, answers[b])
  BY <1>1, <1>3 DEF AnswersInv
<1>7. da < db => \E x \in DOMAIN StandardSizes : StandardSizes[x] = da
  BY <1>1, <1>4, SweepConstants
<1> HIDE DEF da, db
<1>8. GroupsFor(da) \subseteq GroupsFor(db)
  <2>1. CASE da = db
    BY <2>1
  <2>2. CASE da < db
    <3>1. da \in StandardBelow(db)
      BY <1>7, <2>2 DEF StandardBelow
    <3>2. \A x \in DOMAIN StandardSizes : StandardSizes[x] \in Nat
      BY SearchConstants, ElementOfSeq, LenProperties
    <3>3. \A x \in DOMAIN StandardSizes : StandardSizes[x] < da => StandardSizes[x] < db
      BY <1>5, <2>2, <3>2
    <3>4. StandardBelow(da) \subseteq StandardBelow(db)
      BY <3>3 DEF StandardBelow
    <3> QED
      BY <3>1, <3>4 DEF GroupsFor
  <2> QED
    BY <1>5, <2>1, <2>2
<1>9. PICK g \in GroupsFor(da) : \E j \in Keys(g) : KeyShort(g, j) /\ answers[a] = TimeOf(g, j)
  BY <1>6 DEF IsAnswer
<1> QED
  BY <1>6, <1>8, <1>9 DEF IsAnswer
-----------------------------------------------------------------------------
(* The theorems.                                                           *)

\* Whatever the engine answers for a step, as long as it is a time, candidates
\* and winner keep the placement they were estimated with through the whole
\* search (tiersched.py:853-942).
THEOREM SearchInvariant ==
  ASSUME \A c, x : StepTime(c, x) \in Nat
  PROVE  Spec => []SearchInv
<1>1. Init => SearchInv
  BY InitSearchInv
<1>2. SearchInv /\ [Next]_vars => SearchInv'
  BY BeginKeeps, OpenGroupKeeps, TryReserveKeeps, NextGroupKeeps, ShortlistKeeps,
     TimeFinalistKeeps, EstablishKeeps, DecodeKeeps, StutterKeeps DEF Next
<1> QED
  BY <1>1, <1>2, PTL DEF Spec

\* The decode loop runs the configuration the winner was timed with, although
\* every candidate tried after it has overwritten what the loop reads
\* (tiersched.py:929-942).
THEOREM DecodesWhatWasTimed ==
  ASSUME \A c, x : StepTime(c, x) \in Nat
  PROVE  Spec => []DecodesAsTimed
<1>1. Spec => []SearchInv
  BY SearchInvariant
<1>2. SearchInv => DecodesAsTimed
  BY DEF SearchInv
<1> QED
  BY <1>1, <1>2, PTL

LEMMA TimedInvariant ==
  ASSUME \A c, x : StepTime(c, x) \in Nat, \A c, x : DecodeTime(c, x) \in Nat
  PROVE  Spec => []TimedInv
<1>1. Init => TimedInv
  BY DEF Init, TimedInv
<1>2. SearchInv /\ TimedInv /\ [Next]_vars => TimedInv'
  <2> SUFFICES ASSUME SearchInv, TimedInv, UNCHANGED vars PROVE TimedInv'
    BY NextKeepsTimed
  <2>1. UNCHANGED <<inst, pc, cands, toTime, best>>
    BY DEF vars
  <2>2. \A c \in DOMAIN cands : (Timed(cands[c]).time)' = Timed(cands[c]).time
    BY <2>1 DEF Timed
  <2>3. \A c \in DOMAIN cands : Shortlisted(c)' <=> Shortlisted(c)
    BY <2>1, ShortlistStays
  <2> QED
    BY <2>1, <2>2, <2>3 DEF TimedInv
<1> QED
  BY <1>1, <1>2, SearchInvariant, PTL DEF Spec

\* No finalist was faster than the winner, and every group of candidates had its
\* best estimate among them.
THEOREM WinnerInvariant ==
  ASSUME \A c, x : StepTime(c, x) \in Nat, \A c, x : DecodeTime(c, x) \in Nat
  PROVE  Spec => []WinnerIsLeast
BY SearchInvariant, TimedInvariant, DecodeIsLeast, PTL

LEMMA FitsInvariant ==
  ASSUME \A c, x : StepTime(c, x) \in Nat
  PROVE  Spec => []FitsInv
<1>1. Init => FitsInv
  BY InitFits
<1>2. SearchInv /\ FitsInv /\ [Next]_vars => FitsInv'
  <2> SUFFICES ASSUME SearchInv, FitsInv, UNCHANGED vars PROVE FitsInv'
    BY NextKeepsFits
  <2>1. UNCHANGED <<inst, sweep, pc, group, cands, best>>
    BY DEF vars
  <2>2. Groups' = Groups
    BY <2>1, SameGroups
  <2>3. (\A c \in DOMAIN cands : Fits(cands[c]))' <=> \A c \in DOMAIN cands : Fits(cands[c])
    BY <2>1 DEF Fits, PlaceOf, Device
  <2>4. Fits(best.cand)' <=> Fits(best.cand)
    BY <2>1 DEF Fits, PlaceOf, Device
  <2> QED
    BY <2>1, <2>2, <2>3, <2>4 DEF FitsInv
<1> QED
  BY <1>1, <1>2, SearchInvariant, PTL DEF Spec

\* In decode the cache, the weights, the staging reserve and the room the cache may
\* grow into fit each tier of the served device together.
THEOREM PlanFitsInvariant ==
  ASSUME \A c, x : StepTime(c, x) \in Nat
  PROVE  Spec => []PlanFits
BY SearchInvariant, FitsInvariant, DecodeFits, PTL

\* Every answer is the least time of the finalists among its device's own groups,
\* whatever the search has gone through before it.
THEOREM AnswerInvariant ==
  ASSUME \A c, x : StepTime(c, x) \in Nat, \A c, x : DecodeTime(c, x) \in Nat
  PROVE  Spec => []AnswerInv
<1>1. Init => AnswerInv
  BY InitAnswer
<1>2. SearchInv /\ FitsInv /\ TimedInv /\ AnswerInv /\ [Next]_vars => AnswerInv'
  <2> SUFFICES ASSUME SearchInv, FitsInv, TimedInv, AnswerInv, UNCHANGED vars PROVE AnswerInv'
    BY NextKeepsAnswer
  <2>1. UNCHANGED <<inst, sweep, pc, group, turn, seen, cands, toTime, best, answers>>
    BY DEF vars
  <2>2. KeyedInv'
    <3>1. /\ Groups' = Groups /\ Turns' = Turns /\ \A n : GroupAt(n)' = GroupAt(n)
          /\ \A g, n : ReservePair(g, n)' = ReservePair(g, n)
      BY <2>1, GroupsStay, KeysStay DEF Turns
    <3>2. \A f : Keyed(f) => Keyed(f)'
      <4>1. \A n, j : Tried(n, j)' <=> Tried(n, j)
        BY <2>1 DEF Tried
      <4> QED
        BY <2>1, <4>1, KeyedStays DEF SearchInv
    <3> QED
      BY <2>1, <3>1, <3>2 DEF AnswerInv, KeyedInv
  <2>3. BestInv'
    <3>1. \A c : (Timed(cands[c]).time)' = Timed(cands[c]).time
      BY <2>1 DEF Timed
    <3>2. \A c : Shortlisted(c)' <=> Shortlisted(c)
      BY <2>1, ShortlistStays
    <3> QED
      BY <2>1, <3>1, <3>2 DEF AnswerInv, BestInv
  <2>4. AnswersInv'
    <3>1. \A size, t : IsAnswer(size, t)' <=> IsAnswer(size, t)
      BY <2>1, KeysStay
    <3> QED
      BY <2>1, <3>1 DEF AnswerInv, AnswersInv
  <2> QED
    BY <2>2, <2>3, <2>4 DEF AnswerInv
<1>3. Spec => []SearchInv /\ []FitsInv /\ []TimedInv
  BY SearchInvariant, FitsInvariant, TimedInvariant, PTL
<1> QED
  BY <1>1, <1>2, <1>3, PTL DEF Spec

\* A larger device never decodes slower: with the sweep over standard sizes, the
\* answers are in the devices' order (tiersched.py:832-837).
THEOREM DevicesCompared ==
  ASSUME \A c, x : StepTime(c, x) \in Nat, \A c, x : DecodeTime(c, x) \in Nat
  PROVE  Spec => []MoreDeviceNoWorse
<1>1. Spec => []SearchInv /\ []FitsInv /\ []AnswerInv
  BY SearchInvariant, FitsInvariant, AnswerInvariant, PTL
<1>2. SearchInv /\ FitsInv /\ AnswerInv => MoreDeviceNoWorse
  BY AnswersOrdered
<1> QED
  BY <1>1, <1>2, PTL
=============================================================================
