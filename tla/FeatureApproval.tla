--------------------------- MODULE FeatureApproval ---------------------------
(***************************************************************************)
(* Voting for protocol features.  Blocks carry votes; at the last height   *)
(* of every voting window the features with enough votes are approved, and *)
(* activated one window later.  The votes are counted twice, by different  *)
(* code: BlockchainUpdaterImpl announces what the liquid block approves,   *)
(* and LevelDBWriter counts again when the block is persisted and stores   *)
(* the result.  A height of 0 stands for "not approved", "not activated".  *)
(***************************************************************************)
EXTENDS Integers, Sequences, FiniteSets

CONSTANTS
    Features,
    PreActivated,      \* fs.preActivatedFeatures
    Votes,             \* the sets of features a block may vote for
    Period,            \* featureCheckBlocksPeriod
    Enough,            \* blocksForFeatureActivation
    DoubleAfter,       \* doubleFeaturesPeriodsAfterHeight
    NoLiquid,
    MaxHeight          \* bound on the height explored

ASSUME PeriodAssumption == Period \in Nat \ {0} /\ Enough \in 1..Period /\ DoubleAfter \in Nat
ASSUME HeightAssumption == MaxHeight \in Nat
ASSUME FeaturesAssumption == PreActivated \subseteq Features /\ Votes \subseteq SUBSET Features

VARIABLES
    chain,      \* the votes of the persisted blocks
    liquid,     \* the liquid block: its votes and NgState.approvedFeatures
    approved,   \* Keys.approvedFeatures and its cache
    activated,  \* Keys.activatedFeatures and its cache
    abandoned   \* auxiliary: features whose approving block was rolled back

vars == <<chain, liquid, approved, activated, abandoned>>

----------------------------------------------------------------------------
ActivationWindowSize(h) == Period * (IF h <= DoubleAfter THEN 1 ELSE 2)
ActivationWindow(h) ==
    LET ws == ActivationWindowSize(h)
    IN  (((h - 1) \div ws) * ws + 1)..(((h - 1) \div ws + 1) * ws)
BlocksForFeatureActivation(h) == Enough * (IF h <= DoubleAfter THEN 1 ELSE 2)

\* The votes for f among the blocks of c in the window of height h.
FeatureVotes(c, f, h) ==
    Cardinality({i \in ActivationWindow(h) \cap DOMAIN c : f \in c[i]})

\* The features featureVotes lists.  One that no block before the last of the
\* window voted for is not among them, even when the last one does.
Voted(c, h) == {f \in Features : FeatureVotes(c, f, h) > 0}

OwnVote(f, votes) == IF f \in votes THEN 1 ELSE 0

\* Bug: the vote of the approving block itself is not counted.
FeaturesApprovedWithBlock_OthersOnly(c, votes) ==
    LET h == Len(c) + 1 IN
    IF h % ActivationWindowSize(h) = 0
    THEN {f \in Voted(c, h) : FeatureVotes(c, f, h) >= BlocksForFeatureActivation(h)}
    ELSE {}

\* What the updater announces for a liquid block with these votes on top of c.
FeaturesApprovedWithBlock(c, votes) ==
    LET h == Len(c) + 1 IN
    IF h % ActivationWindowSize(h) = 0
    THEN {f \in Voted(c, h) : FeatureVotes(c, f, h) + OwnVote(f, votes) >= BlocksForFeatureActivation(h)}
    ELSE {}

\* Bug: one vote too few is asked for.
NewlyApproved_OneFewer(c, votes) ==
    LET h == Len(c) + 1 IN
    IF h % ActivationWindowSize(h) = 0
    THEN {f \in Voted(c, h) \ PreActivated :
             FeatureVotes(c, f, h) + OwnVote(f, votes) >= BlocksForFeatureActivation(h) - 1}
    ELSE {}

\* What the store approves when a block with these votes is appended to c.
NewlyApproved(c, votes) ==
    LET h == Len(c) + 1 IN
    IF h % ActivationWindowSize(h) = 0
    THEN {f \in Voted(c, h) \ PreActivated :
             FeatureVotes(c, f, h) + OwnVote(f, votes) >= BlocksForFeatureActivation(h)}
    ELSE {}

\* Bug: the new heights override the old ones.
Merged_NewerWins(new, h, old) == [f \in Features |-> IF f \in new THEN h ELSE old[f]]

\* new ++ old: an earlier height is never overridden.
Merged(new, h, old) ==
    [f \in Features |-> IF old[f] = 0 /\ f \in new THEN h ELSE old[f]]

----------------------------------------------------------------------------
(* The views of the updater: the liquid block's approvals and the store's. *)

Height == Len(chain) + (IF liquid = NoLiquid THEN 0 ELSE 1)

LiquidApproved == IF liquid = NoLiquid THEN {} ELSE liquid.approved

ApprovedFeatures == Merged(LiquidApproved, Height, approved)

ActivatedFeatures == Merged(LiquidApproved, Height + ActivationWindowSize(Height), activated)

----------------------------------------------------------------------------
\* A block on top of the persisted chain, or one that replaces the liquid block.
StartLiquid(votes) ==
    /\ Len(chain) < MaxHeight
    /\ liquid' = [votes |-> votes, approved |-> FeaturesApprovedWithBlock(chain, votes)]
    /\ UNCHANGED <<chain, approved, activated, abandoned>>

\* A block on top of the liquid block: that one is persisted, and the votes
\* counted for the new one.
HardenLiquid(votes) ==
    /\ liquid # NoLiquid
    /\ Len(chain) + 1 < MaxHeight
    /\ LET h   == Len(chain) + 1
           new == NewlyApproved(chain, liquid.votes)
       IN  /\ approved' = Merged(new, h, approved)
           /\ activated' = Merged(new, h + ActivationWindowSize(h), activated)
    /\ chain' = Append(chain, liquid.votes)
    /\ liquid' = [votes |-> votes, approved |-> FeaturesApprovedWithBlock(chain', votes)]
    /\ UNCHANGED abandoned

\* The rollback reloads both maps from the store, which no removal changes.
RemoveAfter(h) ==
    /\ h \in DOMAIN chain
    /\ chain' = SubSeq(chain, 1, h)
    /\ liquid' = NoLiquid
    /\ abandoned' = abandoned \cup {f \in Features : approved[f] > h}
    /\ UNCHANGED <<approved, activated>>

Restart ==
    /\ liquid # NoLiquid
    /\ liquid' = NoLiquid
    /\ UNCHANGED <<chain, approved, activated, abandoned>>

Init ==
    /\ chain = <<>>
    /\ liquid = NoLiquid
    /\ approved = [f \in Features |-> 0]
    /\ activated = [f \in Features |-> 0]
    /\ abandoned = {}

Next ==
    \/ \E votes \in Votes : StartLiquid(votes) \/ HardenLiquid(votes)
    \/ \E h \in 1..MaxHeight : RemoveAfter(h)
    \/ Restart

Spec == Init /\ [][Next]_vars

----------------------------------------------------------------------------
(* Properties. *)

WindowEnds == {h \in 1..MaxHeight : h % ActivationWindowSize(h) = 0}

\* The chain with its liquid block, and the first height at which the votes
\* on it approve a feature.
WholeChain == IF liquid = NoLiquid THEN chain ELSE Append(chain, liquid.votes)

ApprovalHeights(f) ==
    {h \in DOMAIN WholeChain : /\ h \in WindowEnds
                               /\ FeatureVotes(WholeChain, f, h) >= BlocksForFeatureActivation(h)}

FollowsVotes(f) ==
    IF ApprovalHeights(f) = {} THEN ApprovedFeatures[f] = 0 /\ ActivatedFeatures[f] = 0
    ELSE LET first == CHOOSE h \in ApprovalHeights(f) : \A i \in ApprovalHeights(f) : h <= i
         IN  /\ ApprovedFeatures[f] = first
             /\ ActivatedFeatures[f] = first + ActivationWindowSize(first)

\* A feature is approved when, and only when, the chain the node is on has the
\* votes for it, at the first such height, whichever of the two counts answers
\* and whatever was replaced or removed in between; features whose approval was
\* rolled back are left out.
ApprovalFollowsVotes == \A f \in Features \ (PreActivated \cup abandoned) : FollowsVotes(f)

\* featureStatus, the answer of the program.
FeatureStatus(f, h) ==
    CASE ActivatedFeatures[f] \in 1..h                             -> "activated"
      [] ActivatedFeatures[f] \notin 1..h /\ ApprovedFeatures[f] \in 1..h -> "approved"
      [] OTHER                                                     -> "undefined"

\* A feature the votes of the chain have not approved is not approved, also
\* when a chain that was rolled back had approved it.
StatusRolledBack ==
    \A f \in Features \ PreActivated :
        ApprovalHeights(f) = {} => FeatureStatus(f, Height) = "undefined"

\* What the updater announced while a block was liquid is what the store keeps
\* when the block is persisted: two counts in two places agree.
AnnouncedIsStored ==
    [][Len(chain') > Len(chain) =>
         \A f \in Features \ PreActivated :
             approved'[f] = ApprovedFeatures[f] /\ activated'[f] = ActivatedFeatures[f]]_vars

\* Later voting periods do not move an approval or an activation the chain
\* still contains.
ApprovalFixed ==
    [][\A f \in Features : approved[f] \in DOMAIN chain /\ approved[f] \in DOMAIN chain' =>
         /\ ApprovedFeatures'[f] = approved[f]
         /\ ActivatedFeatures'[f] = activated[f]]_vars
=============================================================================
