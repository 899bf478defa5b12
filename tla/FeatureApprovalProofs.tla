------------------------ MODULE FeatureApprovalProofs ------------------------
(***************************************************************************)
(* The two counts of votes agree, an approval the chain contains never     *)
(* moves, and the approvals are those the votes of the chain give, for any *)
(* features, votes and window sizes.  They follow from two inductive       *)
(* invariants: the liquid block's approvals were computed on the chain it  *)
(* still stands on, and what is stored of a feature is what the persisted  *)
(* chain gives it.                                                         *)
(***************************************************************************)
EXTENDS FeatureApproval, FiniteSetTheorems, TLAPS

StoredMaps ==
    /\ approved \in [Features -> Nat]
    /\ activated \in [Features -> Nat]
    /\ \A f \in Features : approved[f] # 0 => activated[f] # 0

LiquidFresh ==
    liquid # NoLiquid => liquid.approved = FeaturesApprovedWithBlock(chain, liquid.votes)

FeatureInv == chain \in Seq(Votes) /\ (liquid # NoLiquid => liquid.votes \in Votes)
                /\ StoredMaps /\ LiquidFresh

\* A voting window has a positive size.
LEMMA WindowSize == \A h \in Nat : ActivationWindowSize(h) \in Nat \ {0}
BY PeriodAssumption DEF ActivationWindowSize

\* Merging keeps the maps' type and every height already there.
LEMMA MergedKeeps ==
    ASSUME NEW old \in [Features -> Nat], NEW new, NEW h \in Nat
    PROVE  /\ Merged(new, h, old) \in [Features -> Nat]
           /\ \A f \in Features : old[f] # 0 => Merged(new, h, old)[f] = old[f]
           /\ h # 0 => \A f \in Features : Merged(new, h, old)[f] = 0 => old[f] = 0 /\ f \notin new
BY DEF Merged

\* The store approves what the updater announces, pre-activated features apart.
LEMMA SameApprovals ==
    ASSUME NEW c, NEW votes
    PROVE  NewlyApproved(c, votes) = FeaturesApprovedWithBlock(c, votes) \ PreActivated
BY DEF NewlyApproved, FeaturesApprovedWithBlock

\* The invariant FeatureInv holds in every reachable state.
THEOREM FeatureInvariant == Spec => []FeatureInv
<1>1. Init => FeatureInv
  BY DEF Init, FeatureInv, StoredMaps, LiquidFresh
<1>2. FeatureInv /\ [Next]_vars => FeatureInv'
  <2> SUFFICES ASSUME FeatureInv, [Next]_vars PROVE FeatureInv'
    OBVIOUS
  <2>0. Len(chain) \in Nat
    BY DEF FeatureInv
  <2>1. CASE \E votes \in Votes : StartLiquid(votes)
    <3> PICK votes \in Votes : StartLiquid(votes)
      BY <2>1
    <3> QED
      BY DEF StartLiquid, FeatureInv, StoredMaps, LiquidFresh, FeaturesApprovedWithBlock
  <2>2. CASE \E votes \in Votes : HardenLiquid(votes)
    <3> PICK votes \in Votes : HardenLiquid(votes)
      BY <2>2
    <3> DEFINE h   == Len(chain) + 1
               new == NewlyApproved(chain, liquid.votes)
               hh  == h + ActivationWindowSize(h)
    <3>1. h \in Nat \ {0} /\ hh \in Nat \ {0}
      BY <2>0, WindowSize
    <3>2. approved' = Merged(new, h, approved) /\ activated' = Merged(new, hh, activated)
      BY DEF HardenLiquid
    <3>3. StoredMaps'
      <4> HIDE DEF h, hh, new
      <4>1. approved' \in [Features -> Nat] /\ activated' \in [Features -> Nat]
        BY <3>1, <3>2, MergedKeeps DEF FeatureInv, StoredMaps
      <4>2. ASSUME NEW f \in Features, approved'[f] # 0 PROVE activated'[f] # 0
        BY <3>1, <3>2, <4>2 DEF FeatureInv, StoredMaps, Merged
      <4> QED
        BY <4>1, <4>2 DEF StoredMaps
    <3>4. chain' \in Seq(Votes)
      BY DEF HardenLiquid, FeatureInv
    <3>5. LiquidFresh' /\ (liquid' # NoLiquid => liquid'.votes \in Votes)
      BY DEF HardenLiquid, LiquidFresh, FeaturesApprovedWithBlock
    <3> QED
      BY <3>3, <3>4, <3>5 DEF FeatureInv
  <2>3. CASE \E h \in 1..MaxHeight : RemoveAfter(h)
    <3> PICK h \in 1..MaxHeight : RemoveAfter(h)
      BY <2>3
    <3>1. chain' \in Seq(Votes)
      BY DEF RemoveAfter, FeatureInv
    <3> QED
      BY <3>1 DEF RemoveAfter, FeatureInv, StoredMaps, LiquidFresh
  <2>4. CASE Restart
    BY <2>4 DEF Restart, FeatureInv, StoredMaps, LiquidFresh
  <2>5. CASE UNCHANGED vars
    BY <2>5 DEF vars, FeatureInv, StoredMaps, LiquidFresh, FeaturesApprovedWithBlock
  <2> QED
    BY <2>1, <2>2, <2>3, <2>4, <2>5 DEF Next
<1> QED
  BY <1>1, <1>2, PTL DEF Spec

\* AnnouncedIsStored: whenever a liquid block is persisted, the store records
\* exactly the approvals and activations the updater had announced for it.
THEOREM AnnouncedStored == Spec => AnnouncedIsStored
<1> DEFINE Agrees(f) == /\ approved'[f] = ApprovedFeatures[f]
                        /\ activated'[f] = ActivatedFeatures[f]
<1>1. ASSUME FeatureInv, [Next]_vars
      PROVE  [Len(chain') > Len(chain) => \A f \in Features \ PreActivated : Agrees(f)]_vars
  <2>1. CASE \E votes \in Votes : HardenLiquid(votes)
    <3>1. PICK votes \in Votes : HardenLiquid(votes)
      BY <2>1
    <3>2. ASSUME NEW f \in Features \ PreActivated PROVE Agrees(f)
      <4> DEFINE h   == Len(chain) + 1
                 new == NewlyApproved(chain, liquid.votes)
      <4>1. liquid # NoLiquid /\ Height = h
        BY <3>1 DEF HardenLiquid, Height
      <4>2. LiquidApproved = FeaturesApprovedWithBlock(chain, liquid.votes)
        BY <1>1, <4>1 DEF FeatureInv, LiquidFresh, LiquidApproved
      <4>3. f \in new <=> f \in LiquidApproved
        BY <4>2, SameApprovals
      <4>4. /\ approved' = Merged(new, h, approved)
            /\ activated' = Merged(new, h + ActivationWindowSize(h), activated)
        BY <3>1 DEF HardenLiquid
      <4> HIDE DEF h, new
      <4> QED
        BY <4>1, <4>3, <4>4 DEF Merged, ApprovedFeatures, ActivatedFeatures
    <3> QED
      BY <3>2
  <2>2. CASE \E votes \in Votes : StartLiquid(votes)
    <3>1. chain' = chain
      BY <2>2 DEF StartLiquid
    <3> QED
      BY <1>1, <3>1 DEF FeatureInv
  <2>3. CASE \E h \in 1..MaxHeight : RemoveAfter(h)
    <3>1. PICK h \in 1..MaxHeight : RemoveAfter(h)
      BY <2>3
    <3>2. h \in 1..Len(chain) /\ Len(chain') = h
      BY <1>1, <3>1 DEF RemoveAfter, FeatureInv
    <3> QED
      BY <1>1, <3>2 DEF FeatureInv
  <2>4. CASE Restart
    BY <1>1, <2>4 DEF Restart, FeatureInv
  <2>5. CASE UNCHANGED vars
    BY <2>5
  <2> QED
    BY <1>1, <2>1, <2>2, <2>3, <2>4, <2>5 DEF Next
<1> DEFINE Announced ==
             Len(chain') > Len(chain) =>
             \A f \in Features \ PreActivated :
                 approved'[f] = ApprovedFeatures[f] /\ activated'[f] = ActivatedFeatures[f]
<1> HIDE DEF Announced
<1>2. ASSUME FeatureInv, [Next]_vars PROVE [Announced]_vars
  BY <1>1, <1>2 DEF Announced
<1>3. Spec => [][Announced]_vars
  BY <1>2, FeatureInvariant, PTL DEF Spec
<1> QED
  BY <1>3 DEF AnnouncedIsStored, Announced

\* ApprovalFixed: as long as the chain contains the block that approved a
\* feature, no later vote, restart or rollback moves the two heights.
THEOREM ApprovalKept == Spec => ApprovalFixed
<1>1. ASSUME FeatureInv, [Next]_vars, NEW f \in Features,
             approved[f] \in DOMAIN chain, approved[f] \in DOMAIN chain'
      PROVE  ApprovedFeatures'[f] = approved[f] /\ ActivatedFeatures'[f] = activated[f]
  <2>1. approved[f] # 0 /\ activated[f] # 0
    BY <1>1 DEF FeatureInv, StoredMaps
  <2>2. approved'[f] = approved[f] /\ activated'[f] = activated[f]
    <3>1. CASE \E votes \in Votes : HardenLiquid(votes)
      BY <2>1, <3>1 DEF HardenLiquid, Merged
    <3>2. CASE ~ \E votes \in Votes : HardenLiquid(votes)
      BY <1>1, <3>2 DEF Next, StartLiquid, RemoveAfter, Restart, vars
    <3> QED
      BY <3>1, <3>2
  <2> QED
    BY <2>1, <2>2 DEF ApprovedFeatures, ActivatedFeatures, Merged
<1> DEFINE Fixed == \A f \in Features :
              approved[f] \in DOMAIN chain /\ approved[f] \in DOMAIN chain' =>
                /\ ApprovedFeatures'[f] = approved[f]
                /\ ActivatedFeatures'[f] = activated[f]
<1>2. ASSUME FeatureInv, [Next]_vars PROVE Fixed
  BY <1>1, <1>2
<1> HIDE DEF Fixed
<1>3. Spec => [][Fixed]_vars
  BY <1>2, FeatureInvariant, PTL DEF Spec
<1> QED
  BY <1>3 DEF ApprovalFixed, Fixed
-----------------------------------------------------------------------------
(* The approvals follow the votes *)

\* The window of a height that ends one.
LEMMA WindowEnd ==
  ASSUME NEW h \in Nat \ {0}, h % ActivationWindowSize(h) = 0
  PROVE  \E low \in Nat : low <= h /\ ActivationWindow(h) = low .. h
<1> DEFINE ws == ActivationWindowSize(h)
           q == (h - 1) \div ws
           k == h \div ws
<1>1. ws \in Nat \ {0} /\ h % ws = 0
  BY WindowSize
<1> HIDE DEF ws
<1>2. k \in Nat /\ h = k * ws
  BY <1>1, SMT
<1>3. q \in Nat /\ q * ws <= h - 1 /\ h - 1 < q * ws + ws
  BY <1>1, SMT
<1> HIDE DEF q, k
<1>4. k = q + 1
  <2>1. CASE k <= q
    <3>1. k * ws <= q * ws
      BY <1>1, <1>2, <1>3, <2>1, SMT
    <3>2. k * ws \in Int /\ q * ws \in Int
      BY <1>1, <1>2, <1>3, SMT
    <3> QED BY <1>2, <1>3, <3>1, <3>2
  <2>2. CASE k >= q + 2
    <3>1. k * ws >= (q + 2) * ws
      BY <1>1, <1>2, <1>3, <2>2, SMT
    <3>2. (q + 2) * ws = q * ws + ws + ws
      BY <1>1, <1>3, SMT
    <3>3. k * ws \in Int /\ q * ws \in Int
      BY <1>1, <1>2, <1>3, SMT
    <3> QED BY <1>1, <1>2, <1>3, <3>1, <3>2, <3>3
  <2> QED BY <1>2, <1>3, <2>1, <2>2
<1>5. (q + 1) * ws = h
  BY <1>2, <1>4
<1>6. q * ws + 1 \in Nat /\ q * ws + 1 <= h
  BY <1>1, <1>3, SMT
<1>7. ActivationWindow(h) = (q * ws + 1) .. ((q + 1) * ws)
  BY DEF ActivationWindow, q, ws
<1> QED BY <1>5, <1>6, <1>7

\* The heights at which the votes of a chain approve a feature.
HeightsOf(c, f) ==
    {h \in DOMAIN c : h \in WindowEnds /\ FeatureVotes(c, f, h) >= BlocksForFeatureActivation(h)}

\* Two heights, or none, that a chain gives a feature.
Follows(c, f, a, b) ==
    \/ HeightsOf(c, f) = {} /\ a = 0 /\ b = 0
    \/ /\ a \in HeightsOf(c, f) /\ \A h \in HeightsOf(c, f) : a <= h
       /\ b = a + ActivationWindowSize(a)

\* What the store keeps of a feature are the heights of the persisted chain.
StoredFollows ==
    /\ \A f \in Features \ (PreActivated \cup abandoned) : Follows(chain, f, approved[f], activated[f])
    /\ Len(WholeChain) <= MaxHeight

\* The voters of a window are finitely many.
LEMMA VotersFinite ==
  ASSUME NEW c \in Seq(Votes), NEW f, NEW h
  PROVE  /\ IsFiniteSet({i \in ActivationWindow(h) \cap DOMAIN c : f \in c[i]})
         /\ FeatureVotes(c, f, h) \in Nat
<1>1. DOMAIN c = 1 .. Len(c) /\ Len(c) \in Nat
  OBVIOUS
<1>2. IsFiniteSet(DOMAIN c)
  BY <1>1, FS_Interval
<1>3. {i \in ActivationWindow(h) \cap DOMAIN c : f \in c[i]} \subseteq DOMAIN c
  OBVIOUS
<1>4. IsFiniteSet({i \in ActivationWindow(h) \cap DOMAIN c : f \in c[i]})
  BY <1>2, <1>3, FS_Subset
<1> QED BY <1>4, FS_CardinalityType DEF FeatureVotes

\* Blocks after the end of a window do not change the votes in it.
LEMMA VotesInWindow ==
  ASSUME NEW c \in Seq(Votes), NEW d \in Seq(Votes), NEW n \in Nat, n <= Len(c), n <= Len(d),
         \A i \in 1 .. n : c[i] = d[i], NEW f, NEW h \in 1 .. n, h % ActivationWindowSize(h) = 0
  PROVE  FeatureVotes(c, f, h) = FeatureVotes(d, f, h)
<1>1. PICK low \in Nat : low <= h /\ ActivationWindow(h) = low .. h
  BY WindowEnd
<1>2. DOMAIN c = 1 .. Len(c) /\ DOMAIN d = 1 .. Len(d) /\ Len(c) \in Nat /\ Len(d) \in Nat
  OBVIOUS
<1>3. {i \in ActivationWindow(h) \cap DOMAIN c : f \in c[i]}
        = {i \in ActivationWindow(h) \cap DOMAIN d : f \in d[i]}
  BY <1>1, <1>2
<1> QED BY <1>3 DEF FeatureVotes

\* So the approvals of a chain are those of its beginning, up to its end.
LEMMA HeightsOfPrefix ==
  ASSUME NEW c \in Seq(Votes), NEW d \in Seq(Votes), NEW n \in Nat, n <= Len(c), n = Len(d),
         \A i \in 1 .. n : c[i] = d[i], NEW f
  PROVE  HeightsOf(d, f) = {h \in HeightsOf(c, f) : h <= n}
<1>1. DOMAIN c = 1 .. Len(c) /\ DOMAIN d = 1 .. n /\ Len(c) \in Nat
  OBVIOUS
<1>2. ASSUME NEW h \in 1 .. n, h \in WindowEnds
      PROVE  FeatureVotes(c, f, h) = FeatureVotes(d, f, h)
  BY <1>2, VotesInWindow DEF WindowEnds
<1> QED BY <1>1, <1>2 DEF HeightsOf

\* The block that ends a window counts in it.
LEMMA OneMoreVote ==
  ASSUME NEW c \in Seq(Votes), NEW v \in Votes, NEW f,
         NEW h, h = Len(c) + 1, h % ActivationWindowSize(h) = 0
  PROVE  FeatureVotes(Append(c, v), f, h) = FeatureVotes(c, f, h) + OwnVote(f, v)
<1> DEFINE d == Append(c, v)
           old == {i \in ActivationWindow(h) \cap DOMAIN c : f \in c[i]}
           new == {i \in ActivationWindow(h) \cap DOMAIN d : f \in d[i]}
<1>1. Len(c) \in Nat /\ DOMAIN c = 1 .. Len(c) /\ h \in Nat \ {0}
  OBVIOUS
<1>2. /\ DOMAIN d = 1 .. h /\ d[h] = v
      /\ \A i \in DOMAIN c : d[i] = c[i]
  BY <1>1
<1> HIDE DEF d
<1>3. PICK low \in Nat : low <= h /\ ActivationWindow(h) = low .. h
  BY <1>1, WindowEnd
<1>4. h \in ActivationWindow(h) /\ h \notin DOMAIN c /\ DOMAIN d = DOMAIN c \cup {h}
  BY <1>1, <1>2, <1>3
<1>5. IsFiniteSet(old) /\ h \notin old
  BY <1>4, VotersFinite
<1>6. new = IF f \in v THEN old \cup {h} ELSE old
  BY <1>2, <1>4
<1> HIDE DEF old, new
<1>7. Cardinality(new) = Cardinality(old) + OwnVote(f, v)
  <2>1. CASE f \in v
    BY <1>5, <1>6, <2>1, FS_AddElement DEF OwnVote
  <2>2. CASE f \notin v
    BY <1>5, <1>6, <2>2, FS_CardinalityType DEF OwnVote
  <2> QED BY <2>1, <2>2
<1> QED BY <1>7 DEF FeatureVotes, d, old, new

\* The two counts approve what the votes of the longer chain approve.  A feature
\* only the last block of a window votes for is not listed among the voted ones,
\* but one vote is not enough.
LEMMA CountIsRight ==
  ASSUME Enough > 1, NEW c \in Seq(Votes), NEW v \in Votes, NEW f \in Features,
         Len(c) + 1 <= MaxHeight
  PROVE  f \in FeaturesApprovedWithBlock(c, v) <=> Len(c) + 1 \in HeightsOf(Append(c, v), f)
<1> DEFINE h == Len(c) + 1
<1>1. h \in Nat \ {0} /\ h \in DOMAIN Append(c, v) /\ h \in 1 .. MaxHeight
  BY HeightAssumption
<1>2. CASE h % ActivationWindowSize(h) = 0
  <2>1. FeatureVotes(Append(c, v), f, h) = FeatureVotes(c, f, h) + OwnVote(f, v)
    BY <1>2, OneMoreVote
  <2>2. FeatureVotes(c, f, h) \in Nat /\ OwnVote(f, v) \in {0, 1}
    BY VotersFinite DEF OwnVote
  <2>3. BlocksForFeatureActivation(h) \in Nat /\ BlocksForFeatureActivation(h) > 1
    BY <1>1, PeriodAssumption DEF BlocksForFeatureActivation
  <2>4. f \in FeaturesApprovedWithBlock(c, v) <=>
          /\ FeatureVotes(c, f, h) > 0
          /\ FeatureVotes(c, f, h) + OwnVote(f, v) >= BlocksForFeatureActivation(h)
    BY <1>2 DEF FeaturesApprovedWithBlock, Voted
  <2>5. h \in HeightsOf(Append(c, v), f) <=>
          FeatureVotes(c, f, h) + OwnVote(f, v) >= BlocksForFeatureActivation(h)
    BY <1>1, <1>2, <2>1 DEF HeightsOf, WindowEnds
  <2> DEFINE n == FeatureVotes(c, f, h)
             b == BlocksForFeatureActivation(h)
             o == OwnVote(f, v)
  <2>6. n \in Nat /\ o \in {0, 1} /\ b \in Nat /\ b > 1
    BY <2>2, <2>3
  <2> HIDE DEF n, b, o
  <2>7. (n > 0 /\ n + o >= b) <=> n + o >= b
    BY <2>6
  <2> QED BY <2>4, <2>5, <2>7 DEF n, b, o
<1>3. CASE h % ActivationWindowSize(h) # 0
  BY <1>3 DEF FeaturesApprovedWithBlock, HeightsOf, WindowEnds
<1> QED BY <1>2, <1>3

\* One more block: the heights already there stay, and the new one is merged in.
LEMMA FollowsAppend ==
  ASSUME Enough > 1, NEW c \in Seq(Votes), NEW v \in Votes, NEW f \in Features,
         Len(c) + 1 <= MaxHeight, NEW old, NEW next, Follows(c, f, old[f], next[f]),
         NEW new, f \in new <=> f \in FeaturesApprovedWithBlock(c, v)
  PROVE  LET h == Len(c) + 1
         IN  Follows(Append(c, v), f, Merged(new, h, old)[f],
                     Merged(new, h + ActivationWindowSize(h), next)[f])
<1> DEFINE h == Len(c) + 1
           d == Append(c, v)
           w == ActivationWindowSize(h)
<1>1. Len(c) \in Nat /\ h \in Nat \ {0} /\ d \in Seq(Votes) /\ Len(d) = h
  OBVIOUS
<1>2. DOMAIN d = 1 .. h /\ \A i \in 1 .. Len(c) : d[i] = c[i]
  OBVIOUS
<1>3. f \in new <=> h \in HeightsOf(d, f)
  BY CountIsRight
<1> SUFFICES Follows(d, f, Merged(new, h, old)[f], Merged(new, h + w, next)[f])
  OBVIOUS
<1> HIDE DEF d, h, w
<1>4. HeightsOf(c, f) = {i \in HeightsOf(d, f) : i <= Len(c)}
  BY <1>1, <1>2, HeightsOfPrefix DEF h
<1>5. HeightsOf(d, f) \subseteq 1 .. h /\ HeightsOf(c, f) \subseteq Nat \ {0}
  BY <1>2, <1>4 DEF HeightsOf
<1>6. HeightsOf(d, f) = HeightsOf(c, f) \cup (IF f \in new THEN {h} ELSE {})
  BY <1>1, <1>3, <1>4, <1>5 DEF h
<1>7. /\ Merged(new, h, old)[f] = IF old[f] = 0 /\ f \in new THEN h ELSE old[f]
      /\ Merged(new, h + w, next)[f] = IF next[f] = 0 /\ f \in new THEN h + w ELSE next[f]
  BY DEF Merged
<1>8. CASE HeightsOf(c, f) = {}
  BY <1>1, <1>6, <1>7, <1>8 DEF Follows, w
<1>9. CASE HeightsOf(c, f) # {}
  <2>1. old[f] \in HeightsOf(c, f) /\ next[f] = old[f] + ActivationWindowSize(old[f])
    BY <1>9 DEF Follows
  <2>2. old[f] \in Nat \ {0} /\ next[f] # 0
    <3>1. old[f] \in Nat \ {0}
      BY <1>5, <2>1
    <3>2. ActivationWindowSize(old[f]) \in Nat \ {0}
      BY <3>1, WindowSize
    <3> QED BY <2>1, <3>1, <3>2
  <2>3. old[f] <= h
    BY <1>5, <1>6, <2>1
  <2> QED BY <1>6, <1>7, <1>9, <2>1, <2>2, <2>3 DEF Follows
<1> QED BY <1>8, <1>9

LEMMA StoredFollowsInit == Init => StoredFollows
<1> SUFFICES ASSUME Init PROVE StoredFollows
  OBVIOUS
<1>1. chain = <<>> /\ WholeChain = <<>> /\ Len(<<>>) = 0 /\ DOMAIN chain = {}
  BY DEF Init, WholeChain
<1>2. \A f \in Features : HeightsOf(chain, f) = {} /\ approved[f] = 0 /\ activated[f] = 0
  BY <1>1 DEF Init, HeightsOf
<1> QED BY <1>1, <1>2, HeightAssumption DEF StoredFollows, Follows

LEMMA StoredFollowsNext ==
  ASSUME Enough > 1, FeatureInv, StoredFollows, [Next]_vars
  PROVE  StoredFollows'
<1>0. chain \in Seq(Votes) /\ Len(chain) \in Nat
  BY DEF FeatureInv
<1>1. CASE \E votes \in Votes : StartLiquid(votes)
  <2>1. PICK votes \in Votes : StartLiquid(votes)
    BY <1>1
  <2>2. /\ chain' = chain /\ approved' = approved /\ activated' = activated
        /\ abandoned' = abandoned /\ Len(chain) < MaxHeight
    BY <2>1 DEF StartLiquid
  <2>3. Len(WholeChain') <= MaxHeight
    BY <1>0, <2>2, HeightAssumption DEF WholeChain
  <2> QED BY <2>2, <2>3 DEF StoredFollows, Follows
<1>2. CASE \E votes \in Votes : HardenLiquid(votes)
  <2>1. PICK votes \in Votes : HardenLiquid(votes)
    BY <1>2
  <2> DEFINE h == Len(chain) + 1
             new == NewlyApproved(chain, liquid.votes)
  <2>2. /\ liquid.votes \in Votes /\ h < MaxHeight
        /\ chain' = Append(chain, liquid.votes) /\ abandoned' = abandoned
        /\ approved' = Merged(new, h, approved)
        /\ activated' = Merged(new, h + ActivationWindowSize(h), activated)
    BY <2>1 DEF HardenLiquid, FeatureInv
  <2>3. Len(WholeChain') <= MaxHeight
    <3>1. Len(chain') = h /\ chain' \in Seq(Votes)
      BY <1>0, <2>2
    <3> QED BY <1>0, <2>2, <3>1, HeightAssumption DEF WholeChain
  <2>4. ASSUME NEW f \in Features \ (PreActivated \cup abandoned)
        PROVE  Follows(chain', f, approved'[f], activated'[f])
    <3>1. f \in new <=> f \in FeaturesApprovedWithBlock(chain, liquid.votes)
      BY SameApprovals
    <3>2. Follows(chain, f, approved[f], activated[f])
      BY DEF StoredFollows
    <3>3. h <= MaxHeight
      BY <1>0, <2>2, HeightAssumption
    <3> HIDE DEF new
    <3> QED BY <1>0, <2>2, <3>1, <3>2, <3>3, FollowsAppend
  <2> QED BY <2>2, <2>3, <2>4 DEF StoredFollows
<1>3. CASE \E h \in 1 .. MaxHeight : RemoveAfter(h)
  <2>1. PICK h \in 1 .. MaxHeight : RemoveAfter(h)
    BY <1>3
  <2>2. /\ chain' = SubSeq(chain, 1, h) /\ liquid' = NoLiquid
        /\ abandoned' = abandoned \cup {f \in Features : approved[f] > h}
        /\ approved' = approved /\ activated' = activated /\ h \in 1 .. Len(chain)
    BY <1>0, <2>1 DEF RemoveAfter
  <2>3. /\ chain' \in Seq(Votes) /\ Len(chain') = h
        /\ \A i \in 1 .. h : chain[i] = chain'[i]
    BY <1>0, <2>2
  <2>4. Len(WholeChain') <= MaxHeight
    BY <2>2, <2>3 DEF WholeChain
  <2>5. ASSUME NEW f \in Features \ (PreActivated \cup abandoned')
        PROVE  Follows(chain', f, approved[f], activated[f])
    <3>0. f \in Features /\ f \notin PreActivated /\ f \notin abandoned /\ ~(approved[f] > h)
      BY <2>2
    <3>3. approved[f] \in Nat
      BY <3>0 DEF FeatureInv, StoredMaps
    <3>4. h \in Nat
      BY <2>1
    <3>5. approved[f] <= h
      BY <3>0, <3>3, <3>4
    <3>1. Follows(chain, f, approved[f], activated[f]) /\ approved[f] <= h
      BY <3>0, <3>5 DEF StoredFollows
    <3>2. HeightsOf(chain', f) = {i \in HeightsOf(chain, f) : i <= h}
      <4>1. h \in Nat /\ h <= Len(chain) /\ h = Len(chain')
        BY <1>0, <2>2, <2>3
      <4> QED BY <1>0, <2>3, <4>1, HeightsOfPrefix
    <3> QED BY <3>1, <3>2 DEF Follows
  <2> QED BY <2>2, <2>4, <2>5 DEF StoredFollows
<1>4. CASE Restart
  <2>1. UNCHANGED <<chain, approved, activated, abandoned>> /\ liquid' = NoLiquid
    BY <1>4 DEF Restart
  <2>2. Len(WholeChain') <= MaxHeight
    <3>1. Len(chain) <= Len(WholeChain) /\ Len(WholeChain) \in Nat
      BY <1>0 DEF WholeChain, FeatureInv
    <3> QED BY <1>0, <2>1, <3>1, HeightAssumption DEF WholeChain, StoredFollows
  <2> QED BY <2>1, <2>2 DEF StoredFollows, Follows
<1>5. CASE UNCHANGED vars
  BY <1>5 DEF vars, StoredFollows, Follows, WholeChain
<1> QED BY <1>1, <1>2, <1>3, <1>4, <1>5 DEF Next

\* What the updater answers follows from what is stored and what it announced
\* for the liquid block.
LEMMA AnswersFollow ==
  ASSUME Enough > 1, FeatureInv, StoredFollows,
         NEW f \in Features \ (PreActivated \cup abandoned)
  PROVE  FollowsVotes(f)
<1>0. chain \in Seq(Votes) /\ Len(chain) \in Nat
  BY DEF FeatureInv
<1>1. Follows(chain, f, approved[f], activated[f])
  BY DEF StoredFollows
<1>2. Follows(WholeChain, f, ApprovedFeatures[f], ActivatedFeatures[f])
  <2>1. CASE liquid = NoLiquid
    BY <1>1, <2>1 DEF WholeChain, ApprovedFeatures, ActivatedFeatures, LiquidApproved, Merged
  <2>2. CASE liquid # NoLiquid
    <3>1. /\ liquid.votes \in Votes /\ Height = Len(chain) + 1
          /\ LiquidApproved = FeaturesApprovedWithBlock(chain, liquid.votes)
          /\ WholeChain = Append(chain, liquid.votes)
      BY <2>2 DEF FeatureInv, LiquidFresh, Height, LiquidApproved, WholeChain
    <3>2. Len(chain) + 1 <= MaxHeight
      BY <1>0, <3>1 DEF StoredFollows
    <3> QED BY <1>0, <1>1, <3>1, <3>2, FollowsAppend DEF ApprovedFeatures, ActivatedFeatures
  <2> QED BY <2>1, <2>2
<1>3. HeightsOf(WholeChain, f) = ApprovalHeights(f)
  BY DEF HeightsOf, ApprovalHeights
<1>4. ApprovalHeights(f) \subseteq Nat
  BY DEF ApprovalHeights, WindowEnds
<1>5. CASE ApprovalHeights(f) = {}
  BY <1>2, <1>3, <1>5 DEF Follows, FollowsVotes
<1>6. CASE ApprovalHeights(f) # {}
  <2> DEFINE first == CHOOSE h \in ApprovalHeights(f) : \A i \in ApprovalHeights(f) : h <= i
             a == ApprovedFeatures[f]
  <2>1. /\ a \in ApprovalHeights(f) /\ \A i \in ApprovalHeights(f) : a <= i
        /\ ActivatedFeatures[f] = a + ActivationWindowSize(a)
    BY <1>2, <1>3, <1>6 DEF Follows
  <2>2. first \in ApprovalHeights(f) /\ \A i \in ApprovalHeights(f) : first <= i
    BY <2>1
  <2>3. a <= first /\ first <= a /\ a \in Nat /\ first \in Nat
    BY <1>4, <2>1, <2>2
  <2>4. a = first
    BY <2>3
  <2> QED BY <1>6, <2>1, <2>4 DEF FollowsVotes
<1> QED BY <1>5, <1>6

\* ApprovalFollowsVotes: after any replacements of the liquid block, restarts and
\* rollbacks, the approvals and activations the node answers are those the votes
\* of its chain give, at the first height that has enough of them, when one vote
\* alone is never enough.
THEOREM VotesAreFollowed ==
  ASSUME Enough > 1
  PROVE  Spec => []ApprovalFollowsVotes
<1>1. Init => StoredFollows
  BY StoredFollowsInit
<1>2. FeatureInv /\ StoredFollows /\ [Next]_vars => StoredFollows'
  BY StoredFollowsNext
<1>3. FeatureInv /\ StoredFollows => ApprovalFollowsVotes
  BY AnswersFollow DEF ApprovalFollowsVotes
<1> QED BY <1>1, <1>2, <1>3, FeatureInvariant, PTL DEF Spec
=============================================================================
