------------------------ MODULE ExtensionLoaderProofs ------------------------
(***************************************************************************)
(* The loader and the applier agree: whatever peers answer, in whatever    *)
(* order, and whenever channels close and timers fire, one extension at a  *)
(* time is handed to the appender, and a loaded one has its place in the   *)
(* buffer.  And it has its place on the chain: until a bad block is met or *)
(* a late answer is taken for the one awaited, what is loaded starts where *)
(* the local chain will end when its turn comes.                           *)
(***************************************************************************)
EXTENDS ExtensionLoader, SequenceTheorems, FiniteSetTheorems, WellFoundedInduction, TLAPS

\* The extension under way is the one the applier is in the state of.
Agree ==
    IF applier = Idle THEN toApply = <<>>
    ELSE toApply = <<[channel |-> toApply[1].channel, extension |-> applier.extension]>>

\* An applier that is not idle has an extension and a buffer for the next one.
ApplierShape ==
    applier # Idle =>
        /\ applier = [extension |-> applier.extension, buffer |-> applier.buffer]
        /\ applier.buffer # NoBuffer =>
              applier.buffer = [channel |-> applier.buffer.channel,
                                extension |-> applier.buffer.extension]

\* A result is one of the extension under way.
OutcomeOfFirst == outcome # NoOutcome => toApply # <<>>

\* Nothing is asked for while a loaded extension waits.
BufferStopsLoader == applier # Idle /\ applier.buffer # NoBuffer => loader = Idle

LoaderInv == Agree /\ ApplierShape /\ OutcomeOfFirst /\ BufferStopsLoader

-----------------------------------------------------------------------------

\* A state with fields is not the idle one.
LEMMA NotIdle ==
    /\ \A e, b : [extension |-> e, buffer |-> b] # Idle
    /\ \A c, e : [channel |-> c, extension |-> e] # NoBuffer
    BY DEF Idle, NoBuffer

\* Whatever the loader's next step, it waits only when there is room for what
\* it waits for.
LEMMA SyncNextWaits ==
    ASSUME NEW l, NEW a, NEW sync, SyncNext(l, a, sync),
           a # Idle /\ a.buffer # NoBuffer => loader = Idle
    PROVE  a # Idle /\ a.buffer # NoBuffer => loader' = Idle
    BY DEF SyncNext, Rest, Request, Become, loaderVars

\* What leaves the applier and its extensions alone keeps the invariant, when the
\* loader is left alone or there is room.
LEMMA SameApplier ==
    ASSUME LoaderInv, UNCHANGED <<applier, toApply>>, outcome' \in {outcome, NoOutcome},
           applier # Idle /\ applier.buffer # NoBuffer => loader' = Idle
    PROVE  LoaderInv'
    BY DEF LoaderInv, Agree, ApplierShape, OutcomeOfFirst, BufferStopsLoader

\* An applier that starts on an extension, with an empty buffer.
LEMMA StartsApplying ==
    ASSUME NEW c, NEW e,
           applier' = [extension |-> e, buffer |-> NoBuffer],
           toApply' = <<[channel |-> c, extension |-> e]>>
    PROVE  LoaderInv'
    <1>1. applier' # Idle /\ applier'.extension = e /\ applier'.buffer = NoBuffer
        BY NotIdle
    <1>2. toApply'[1].channel = c /\ toApply' # <<>>
        OBVIOUS
    <1> QED
        BY <1>1, <1>2 DEF LoaderInv, Agree, ApplierShape, OutcomeOfFirst, BufferStopsLoader

LEMMA StopsApplying ==
    ASSUME applier' = Idle, toApply' = <<>>, outcome' = NoOutcome
    PROVE  LoaderInv'
    BY DEF LoaderInv, Agree, ApplierShape, OutcomeOfFirst, BufferStopsLoader

\* A finished extension goes to an idle applier or into the buffer.
LEMMA LoadingFinished ==
    ASSUME LoaderInv, NEW c, NEW e, ExtensionLoadingFinished(c, e), loader # Idle,
           outcome' = outcome
    PROVE  LoaderInv'
    <1>1. CASE applier = Idle
        <2>1. /\ applier' = [extension |-> e, buffer |-> NoBuffer]
              /\ toApply' = Append(<<>>, [channel |-> c, extension |-> e])
            BY <1>1 DEF ExtensionLoadingFinished, LoaderInv, Agree
        <2> QED
            BY <2>1, StartsApplying
    <1>2. CASE applier # Idle
        <2>1. applier.buffer = NoBuffer
            BY <1>2 DEF LoaderInv, BufferStopsLoader
        <2>2. /\ applier' = [applier EXCEPT !.buffer = [channel |-> c, extension |-> e]]
              /\ toApply' = toApply /\ loader' = Idle
            BY <1>2, <2>1 DEF ExtensionLoadingFinished, Rest, Become
        <2>3. applier = [extension |-> applier.extension, buffer |-> NoBuffer]
            BY <1>2, <2>1 DEF LoaderInv, ApplierShape
        <2>4. applier' = [extension |-> applier.extension,
                          buffer |-> [channel |-> c, extension |-> e]]
            BY <2>2, <2>3
        <2>5. /\ applier' # Idle /\ applier'.extension = applier.extension
              /\ applier'.buffer = [channel |-> c, extension |-> e]
            BY <2>4, NotIdle
        <2> QED
            BY <1>2, <2>2, <2>4, <2>5
            DEF LoaderInv, Agree, ApplierShape, OutcomeOfFirst, BufferStopsLoader
    <1> QED
        BY <1>1, <1>2

\* The result of the extension under way frees the applier, or starts it on the
\* one in the buffer.
LEMMA ExtensionApplied ==
    ASSUME LoaderInv, OnExtensionApplied
    PROVE  LoaderInv'
    <1>1. applier # Idle /\ outcome' = NoOutcome
        BY DEF OnExtensionApplied, LoaderInv, OutcomeOfFirst, Agree
    <1>2. Tail(toApply) = <<>>
        <2>1. PICK x : toApply = <<x>>
            BY <1>1 DEF LoaderInv, Agree
        <2>2. toApply \in Seq({x}) /\ Len(toApply) = 1 /\ toApply # <<>>
            BY <2>1
        <2>3. Tail(toApply) \in Seq({x}) /\ Len(Tail(toApply)) = 0
            BY <2>2, HeadTailProperties
        <2> QED
            BY <2>3, EmptySeq
    <1>3. CASE applier.buffer = NoBuffer \/ outcome = "failed"
        BY <1>1, <1>2, <1>3, StopsApplying DEF OnExtensionApplied
    <1>4. CASE ~ (applier.buffer = NoBuffer \/ outcome = "failed")
        <2>1. PICK c, e : applier.buffer = [channel |-> c, extension |-> e]
            BY <1>1, <1>4 DEF LoaderInv, ApplierShape
        <2>2. applier.buffer.extension = e
            BY <2>1
        <2>3. /\ toApply' = Append(<<>>, applier.buffer)
              /\ applier' = [extension |-> applier.buffer.extension, buffer |-> NoBuffer]
            BY <1>2, <1>4 DEF OnExtensionApplied
        <2> QED
            BY <2>1, <2>2, <2>3, StartsApplying
    <1> QED
        BY <1>3, <1>4

-----------------------------------------------------------------------------

LEMMA InitLoader == Init => LoaderInv
    BY DEF Init, LoaderInv, Agree, ApplierShape, OutcomeOfFirst, BufferStopsLoader

LEMMA NextLoader == LoaderInv /\ [Next]_vars => LoaderInv'
    <1> SUFFICES ASSUME LoaderInv, [Next]_vars PROVE LoaderInv'
        OBVIOUS
    <1> DEFINE Room == applier # Idle /\ applier.buffer # NoBuffer => loader = Idle
    <1>1. Room
        BY DEF LoaderInv, BufferStopsLoader
    <1>2. ASSUME UNCHANGED <<applierVars, loader>> PROVE LoaderInv'
        BY <1>1, <1>2, SameApplier DEF applierVars
    <1>3. ASSUME NEW p \in Channels, NEW b \in Blocks, PeerAdvances(p, b) PROVE LoaderInv'
        BY <1>2, <1>3 DEF PeerAdvances, loaderVars
    <1>4. ASSUME NEW p \in Channels, PeerLeaves(p) \/ ScoreExpires(p) PROVE LoaderInv'
        BY <1>2, <1>4 DEF PeerLeaves, ScoreExpires, loaderVars
    <1>5. ASSUME NEW r \in requests, PeerReplies(r) PROVE LoaderInv'
        BY <1>2, <1>5 DEF PeerReplies
    <1>6. ASSUME NEW b \in OwnBlocks, LocalAppends(b) PROVE LoaderInv'
        BY <1>2, <1>6 DEF LocalAppends, loaderVars
    <1>7. CASE Observe
        BY <1>2, <1>7 DEF Observe, SeeLocalScore, SeeRemoteScore, SeeClosed, loaderVars
    <1>8. CASE Timeout
        BY <1>2, <1>8 DEF Timeout
    <1>9. CASE OnSyncWith
        <2>1. UNCHANGED applierVars
            BY <1>9 DEF OnSyncWith
        <2>2. applier # Idle /\ applier.buffer # NoBuffer => loader' = Idle
            BY <1>1, <1>9, SyncNextWaits DEF OnSyncWith, Rest, Become, loaderVars
        <2> QED
            BY <2>1, <2>2, SameApplier DEF applierVars
    <1>10. ASSUME NEW m \in replies, OnSignatures(m) PROVE LoaderInv'
        <2>1. UNCHANGED applierVars
            BY <1>10 DEF OnSignatures
        <2>2. CASE ~ Expects(m.channel, "known")
            BY <1>2, <1>10, <2>1, <2>2 DEF OnSignatures, loaderVars
        <2>3. CASE Expects(m.channel, "known")
            <3>1. ~ (applier # Idle /\ applier.buffer # NoBuffer)
                BY <1>1, <2>3 DEF Expects
            <3> QED
                BY <2>1, <3>1, SameApplier DEF applierVars
        <2> QED
            BY <2>2, <2>3
    <1>11. ASSUME NEW m \in replies, OnBlock(m) PROVE LoaderInv'
        <2>1. outcome' = outcome
            BY <1>11 DEF OnBlock
        <2>2. CASE ~ Expects(m.channel, "expected") \/ m.block \notin loader.expected
            BY <1>2, <1>11, <2>1, <2>2 DEF OnBlock, applierVars, loaderVars
        <2>3. CASE Expects(m.channel, "expected") /\ m.block \in loader.expected
            <3>1. loader # Idle
                BY <2>3 DEF Expects
            <3>2. CASE loader.expected = {m.block}
                BY <1>11, <2>1, <2>3, <3>1, <3>2, LoadingFinished DEF OnBlock
            <3>3. CASE loader.expected # {m.block}
                <4>1. UNCHANGED <<applier, toApply>>
                    BY <1>11, <2>3, <3>3 DEF OnBlock
                <4> QED
                    BY <1>1, <2>1, <3>1, <4>1, SameApplier
            <3> QED
                BY <3>2, <3>3
        <2> QED
            BY <2>2, <2>3
    <1>12. CASE OnExtensionApplied
        BY <1>12, ExtensionApplied
    <1>13. CASE ProcessFork
        <2>1. /\ UNCHANGED <<applier, toApply, loader>> /\ toApply # <<>>
            BY <1>13 DEF ProcessFork, loaderVars
        <2> QED
            BY <1>1, <2>1 DEF LoaderInv, Agree, ApplierShape, OutcomeOfFirst, BufferStopsLoader
    <1>14. CASE UNCHANGED vars
        BY <1>2, <1>14 DEF vars, loaderVars
    <1> QED
        BY <1>3, <1>4, <1>5, <1>6, <1>7, <1>8, <1>9, <1>10, <1>11, <1>12, <1>13, <1>14
        DEF Next, Load

\* One extension at a time is applied, its result is never taken for another's,
\* and no loaded extension is thrown away for want of room.
THEOREM OneExtensionAtATime == Spec => []OneAtATime
    <1>1. LoaderInv => OneAtATime
        <2> SUFFICES ASSUME LoaderInv PROVE OneAtATime
            OBVIOUS
        <2>1. CASE applier = Idle
            BY <2>1 DEF LoaderInv, Agree, OutcomeOfFirst, OneAtATime
        <2>2. CASE applier # Idle
            <3>1. PICK x : toApply = <<x>> /\ x.extension = applier.extension
                BY <2>2 DEF LoaderInv, Agree
            <3>2. [i \in DOMAIN toApply |-> toApply[i].extension] = <<applier.extension>>
                BY <3>1
            <3> QED
                BY <2>2, <3>2 DEF LoaderInv, OutcomeOfFirst, BufferStopsLoader, OneAtATime
        <2> QED
            BY <2>1, <2>2
    <1> QED
        BY <1>1, InitLoader, NextLoader, PTL DEF Spec

-----------------------------------------------------------------------------
(* The tree of blocks.  Chain is defined by recursion along Parent: there is *)
(* a function that satisfies its equation, and it is the only one.           *)

\* A set of blocks that holds the parents of its blocks.
Rooted(S) == S \subseteq Blocks /\ \A b \in S \ {Genesis} : Parent[b] \in S

\* f satisfies the equation of Chain on S.
PathsOn(f, S) == f = [b \in S |-> IF b = Genesis THEN <<b>> ELSE Append(f[Parent[b]], b)]

\* Some part of the tree with the block b has such a function.
Reached(b) == \E S, f : Rooted(S) /\ b \in S /\ PathsOn(f, S)

\* A set of blocks without a first one is empty: what holds of a block when it
\* holds of its parent holds of all.
LEMMA FirstBlock ==
    ASSUME NEW S \in SUBSET Blocks, S # {}
    PROVE  \E b \in S : b = Genesis \/ (b \in Blocks \ {Genesis} /\ Parent[b] \in Blocks /\ Parent[b] \notin S)
    BY TreeAssumption

\* Two functions that satisfy the equation agree where both do.
LEMMA PathsAgree ==
    ASSUME NEW S, NEW T, NEW f, NEW h, Rooted(S), Rooted(T), PathsOn(f, S), PathsOn(h, T),
           NEW x \in S \cap T
    PROVE  f[x] = h[x]
    <1> DEFINE D == {b \in S \cap T : f[b] # h[b]}
    <1>1. \A b \in S : f[b] = IF b = Genesis THEN <<b>> ELSE Append(f[Parent[b]], b)
        BY DEF PathsOn
    <1>2. \A b \in T : h[b] = IF b = Genesis THEN <<b>> ELSE Append(h[Parent[b]], b)
        BY DEF PathsOn
    <1>3. ASSUME D # {} PROVE FALSE
        <2>1. D \in SUBSET Blocks
            BY DEF Rooted
        <2>2. PICK b \in D : b = Genesis \/ (b \in Blocks \ {Genesis} /\ Parent[b] \notin D)
            <3> HIDE DEF D
            <3> QED
                BY <1>3, <2>1, FirstBlock
        <2>3. b \in S /\ b \in T /\ f[b] # h[b]
            BY <2>2
        <2>4. b # Genesis
            BY <1>1, <1>2, <2>3
        <2>5. Parent[b] \in S /\ Parent[b] \in T
            BY <2>3, <2>4 DEF Rooted
        <2>6. f[Parent[b]] = h[Parent[b]]
            BY <2>2, <2>4, <2>5
        <2> QED
            BY <1>1, <1>2, <2>3, <2>4, <2>6
    <1> QED
        BY <1>3

\* Every block is reached.
LEMMA AllReached == \A b \in Blocks : Reached(b)
    <1> DEFINE D == {b \in Blocks : ~ Reached(b)}
    <1>1. ASSUME D # {} PROVE FALSE
        <2>1. PICK b \in D : b = Genesis \/ (b \in Blocks \ {Genesis} /\ Parent[b] \in Blocks /\ Parent[b] \notin D)
            <3>1. D \in SUBSET Blocks
                OBVIOUS
            <3> HIDE DEF D
            <3> QED
                BY <1>1, <3>1, FirstBlock
        <2>2. b \in Blocks /\ ~ Reached(b)
            BY <2>1
        <2>3. CASE b = Genesis
            <3> DEFINE f == [x \in {Genesis} |-> <<x>>]
            <3>1. Rooted({Genesis})
                BY TreeAssumption DEF Rooted
            <3>2. PathsOn(f, {Genesis})
                BY DEF PathsOn
            <3>3. Reached(b)
                <4> HIDE DEF f
                <4> QED
                    BY <2>3, <3>1, <3>2 DEF Reached
            <3> QED
                BY <2>2, <3>3
        <2>4. CASE b # Genesis
            <3>1. Parent[b] \in Blocks /\ Reached(Parent[b])
                BY <2>1, <2>4
            <3>2. PICK S, f : Rooted(S) /\ Parent[b] \in S /\ PathsOn(f, S)
                BY <3>1 DEF Reached
            <3>3. b \notin S
                BY <2>2, <3>2 DEF Reached
            <3> DEFINE T == S \cup {b}
                       h == [x \in T |-> IF x = b THEN Append(f[Parent[b]], b) ELSE f[x]]
            <3>4. Rooted(T) /\ b \in T
                BY <2>2, <3>2 DEF Rooted
            <3>5. \A x \in S : h[x] = f[x]
                BY <3>3
            <3>6. h[b] = Append(h[Parent[b]], b)
                BY <3>2, <3>3
            <3>7. \A x \in S : h[x] = IF x = Genesis THEN <<x>> ELSE Append(h[Parent[x]], x)
                <4>1. ASSUME NEW x \in S PROVE f[x] = IF x = Genesis THEN <<x>> ELSE Append(f[Parent[x]], x)
                    BY <3>2 DEF PathsOn
                <4>2. ASSUME NEW x \in S, x # Genesis PROVE Parent[x] \in S
                    BY <3>2, <4>2 DEF Rooted
                <4> HIDE DEF h
                <4> QED
                    BY <3>5, <4>1, <4>2
            <3>8. PathsOn(h, T)
                <4>1. h = [x \in T |-> h[x]]
                    OBVIOUS
                <4>2. \A x \in T : h[x] = IF x = Genesis THEN <<x>> ELSE Append(h[Parent[x]], x)
                    <5> HIDE DEF h
                    <5> QED
                        BY <2>4, <3>6, <3>7
                <4> HIDE DEF h, T
                <4> QED
                    BY <4>1, <4>2 DEF PathsOn
            <3> HIDE DEF h, T
            <3> QED
                BY <2>2, <3>4, <3>8 DEF Reached
        <2> QED
            BY <2>3, <2>4
    <1> QED
        BY <1>1

\* Chain satisfies its equation.
LEMMA ChainEquation == PathsOn(Chain, Blocks)
    <1> DEFINE Value(b, v) == \E S, f : Rooted(S) /\ b \in S /\ PathsOn(f, S) /\ v = f[b]
               h == [b \in Blocks |-> CHOOSE v : Value(b, v)]
    <1>1. ASSUME NEW b, NEW S, NEW f, Rooted(S), b \in S, PathsOn(f, S)
          PROVE  h[b] = f[b]
        <2>1. b \in Blocks
            BY <1>1 DEF Rooted
        <2>2. Value(b, f[b])
            BY <1>1
        <2>3. h[b] = CHOOSE v : Value(b, v)
            BY <2>1
        <2>4. Value(b, h[b])
            <3> HIDE DEF Value
            <3> QED
                BY <2>2, <2>3
        <2>5. PICK T, k : Rooted(T) /\ b \in T /\ PathsOn(k, T) /\ h[b] = k[b]
            <3> HIDE DEF h
            <3> QED
                BY <2>4
        <2>6. b \in S \cap T
            BY <1>1, <2>5
        <2>7. f[b] = k[b]
            BY <1>1, <2>5, <2>6, PathsAgree
        <2> QED
            BY <2>5, <2>7
    <1>2. ASSUME NEW b \in Blocks
          PROVE  h[b] = IF b = Genesis THEN <<b>> ELSE Append(h[Parent[b]], b)
        <2>1. PICK S, f : Rooted(S) /\ b \in S /\ PathsOn(f, S)
            BY AllReached DEF Reached
        <2>2. f[b] = IF b = Genesis THEN <<b>> ELSE Append(f[Parent[b]], b)
            BY <2>1 DEF PathsOn
        <2> HIDE DEF h
        <2>3. h[b] = f[b]
            BY <1>1, <2>1
        <2>4. CASE b = Genesis
            BY <2>2, <2>3, <2>4
        <2>5. CASE b # Genesis
            <3>1. Parent[b] \in S
                BY <2>1, <2>5 DEF Rooted
            <3>2. h[Parent[b]] = f[Parent[b]]
                BY <1>1, <2>1, <3>1
            <3> QED
                BY <2>2, <2>3, <2>5, <3>2
        <2> QED
            BY <2>4, <2>5
    <1>3. PathsOn(h, Blocks)
        <2>1. h = [b \in Blocks |-> h[b]]
            OBVIOUS
        <2> HIDE DEF h
        <2> QED
            BY <1>2, <2>1 DEF PathsOn
    <1>4. \E k : k = [b \in Blocks |-> IF b = Genesis THEN <<b>> ELSE Append(k[Parent[b]], b)]
        <2> HIDE DEF h
        <2> QED
            BY <1>3 DEF PathsOn
    <1> QED
        BY <1>4 DEF Chain, PathsOn

\* The chain of a block is that of its parent and the block.
LEMMA ChainOf ==
    /\ Chain[Genesis] = <<Genesis>>
    /\ \A b \in Blocks \ {Genesis} : Chain[b] = Append(Chain[Parent[b]], b)
    <1>1. \A b \in Blocks : Chain[b] = IF b = Genesis THEN <<b>> ELSE Append(Chain[Parent[b]], b)
        BY ChainEquation DEF PathsOn
    <1> QED
        BY <1>1, TreeAssumption

\* Blocks each of which is the parent of the next.
Run(s) ==
    /\ s \in Seq(Blocks) /\ s # <<>>
    /\ \A i \in 1 .. Len(s) - 1 : s[i + 1] \in Blocks \ {Genesis} /\ Parent[s[i + 1]] = s[i]

\* One more block makes a longer run.
LEMMA RunAppend ==
    ASSUME NEW s, Run(s), NEW b \in Blocks \ {Genesis}, Parent[b] = s[Len(s)]
    PROVE  /\ Run(Append(s, b)) /\ Append(s, b)[1] = s[1]
           /\ Append(s, b)[Len(Append(s, b))] = b
           /\ Range(Append(s, b)) = Range(s) \cup {b}
    <1> DEFINE t == Append(s, b)
    <1>1. s \in Seq(Blocks) /\ Len(s) \in Nat /\ Len(s) >= 1
        BY DEF Run
    <1>2. /\ t \in Seq(Blocks) /\ Len(t) = Len(s) + 1 /\ t[Len(s) + 1] = b
          /\ \A i \in 1 .. Len(s) : t[i] = s[i]
        BY <1>1
    <1> HIDE DEF t
    <1>3. \A i \in 1 .. Len(t) - 1 : t[i + 1] \in Blocks \ {Genesis} /\ Parent[t[i + 1]] = t[i]
        <2> SUFFICES ASSUME NEW i \in 1 .. Len(t) - 1
                     PROVE  t[i + 1] \in Blocks \ {Genesis} /\ Parent[t[i + 1]] = t[i]
            OBVIOUS
        <2>1. i \in 1 .. Len(s) /\ t[i] = s[i]
            BY <1>1, <1>2
        <2>2. CASE i = Len(s)
            BY <1>2, <2>1, <2>2
        <2>3. CASE i # Len(s)
            <3>1. i \in 1 .. Len(s) - 1 /\ i + 1 \in 1 .. Len(s)
                BY <1>1, <2>1, <2>3
            <3> QED
                BY <1>2, <2>1, <3>1 DEF Run
        <2> QED
            BY <2>2, <2>3
    <1>4. Run(t)
        BY <1>1, <1>2, <1>3 DEF Run
    <1>5. t[1] = s[1] /\ t[Len(t)] = b
        BY <1>1, <1>2
    <1>6. Range(t) = Range(s) \cup {b}
        <2>1. DOMAIN t = 1 .. Len(s) + 1 /\ DOMAIN s = 1 .. Len(s)
            BY <1>1, <1>2
        <2>2. \A i \in 1 .. Len(s) + 1 : i \in 1 .. Len(s) \/ i = Len(s) + 1
            BY <1>1
        <2>3. 1 .. Len(s) \subseteq 1 .. Len(s) + 1 /\ Len(s) + 1 \in 1 .. Len(s) + 1
            BY <1>1
        <2> QED
            BY <1>2, <2>1, <2>2, <2>3 DEF Range
    <1> QED
        BY <1>4, <1>5, <1>6 DEF t

\* A chain is a run from the genesis block to its last block.
ChainOk(b) == Run(Chain[b]) /\ Chain[b][1] = Genesis /\ Chain[b][Len(Chain[b])] = b

LEMMA ChainShape == \A b \in Blocks : ChainOk(b)
    <1> DEFINE D == {b \in Blocks : ~ ChainOk(b)}
    <1>1. ASSUME D # {} PROVE FALSE
        <2>1. PICK b \in D : b = Genesis \/ (b \in Blocks \ {Genesis} /\ Parent[b] \in Blocks /\ Parent[b] \notin D)
            <3>1. D \in SUBSET Blocks
                OBVIOUS
            <3> HIDE DEF D
            <3> QED
                BY <1>1, <3>1, FirstBlock
        <2>2. b \in Blocks /\ ~ ChainOk(b)
            BY <2>1
        <2>3. CASE b = Genesis
            <3>1. Chain[b] = <<b>> /\ b = Genesis
                BY <2>3, ChainOf
            <3>2. <<b>> \in Seq(Blocks) /\ Len(<<b>>) = 1 /\ <<b>>[1] = b /\ <<b>> # <<>> /\ 1 .. Len(<<b>>) - 1 = {}
                BY <2>2
            <3> QED
                BY <2>2, <3>1, <3>2 DEF ChainOk, Run
        <2>4. CASE b # Genesis
            <3>1. ChainOk(Parent[b])
                BY <2>1, <2>4
            <3>2. Chain[b] = Append(Chain[Parent[b]], b)
                BY <2>2, <2>4, ChainOf
            <3>3. b \in Blocks \ {Genesis}
                BY <2>2, <2>4
            <3> QED
                BY <2>2, <3>1, <3>2, <3>3, RunAppend DEF ChainOk
        <2> QED
            BY <2>3, <2>4
    <1> QED
        BY <1>1

\* A block is on its own chain, and with it those of its parent's.
LEMMA ChainGrows ==
    ASSUME NEW b \in Blocks \ {Genesis}
    PROVE  Range(Chain[b]) = Range(Chain[Parent[b]]) \cup {b}
    <1>1. Parent[b] \in Blocks
        BY TreeAssumption
    <1>2. ChainOk(Parent[b])
        BY <1>1, ChainShape
    <1>3. Chain[b] = Append(Chain[Parent[b]], b)
        BY ChainOf
    <1>4. Run(Chain[Parent[b]]) /\ Parent[b] = Chain[Parent[b]][Len(Chain[Parent[b]])]
        BY <1>2 DEF ChainOk
    <1> DEFINE c == Chain[Parent[b]]
    <1>5. Run(c) /\ Parent[b] = c[Len(c)]
        BY <1>4
    <1>6. Range(Append(c, b)) = Range(c) \cup {b}
        <2> HIDE DEF c
        <2> QED
            BY <1>5, RunAppend
    <1> QED
        BY <1>3, <1>6

\* The last block of a chain is on it.
LEMMA OnOwnChain ==
    ASSUME NEW b \in Blocks
    PROVE  OnChain(b, b)
    <1>1. Chain[b] \in Seq(Blocks) /\ Chain[b] # <<>> /\ Chain[b][Len(Chain[b])] = b
        BY ChainShape DEF ChainOk, Run
    <1>2. Len(Chain[b]) \in DOMAIN Chain[b]
        BY <1>1
    <1> QED
        BY <1>1, <1>2 DEF OnChain, Range

\* What is on a chain is a block, the genesis block or its parent is on it too.
LEMMA ParentOnChain ==
    ASSUME NEW b \in Blocks, NEW x, OnChain(x, b)
    PROVE  x \in Blocks /\ (x # Genesis => OnChain(Parent[x], b))
    <1> DEFINE c == Chain[b]
    <1>1. Run(c) /\ c[1] = Genesis
        BY ChainShape DEF ChainOk
    <1>2. PICK i \in DOMAIN c : c[i] = x
        BY DEF OnChain, Range
    <1>3. c \in Seq(Blocks) /\ Len(c) \in Nat /\ DOMAIN c = 1 .. Len(c)
        BY <1>1 DEF Run
    <1> HIDE DEF c
    <1>4. x \in Blocks
        BY <1>2, <1>3
    <1>5. ASSUME x # Genesis PROVE Parent[x] \in Range(c)
        <2>1. i \in 1 .. Len(c) /\ i # 1
            BY <1>1, <1>2, <1>3, <1>5
        <2>2. i - 1 \in 1 .. Len(c) - 1 /\ i - 1 \in DOMAIN c /\ (i - 1) + 1 = i
            BY <1>3, <2>1
        <2>3. Parent[c[(i - 1) + 1]] = c[i - 1]
            BY <1>1, <2>2 DEF Run
        <2> QED
            BY <1>2, <2>2, <2>3 DEF Range
    <1> QED
        BY <1>4, <1>5 DEF OnChain, c

\* The genesis block is on every chain.
LEMMA GenesisOnChain ==
    ASSUME NEW b \in Blocks
    PROVE  OnChain(Genesis, b)
    <1>1. Chain[b] \in Seq(Blocks) /\ Chain[b] # <<>> /\ Chain[b][1] = Genesis
        BY ChainShape DEF ChainOk, Run
    <1>2. 1 \in DOMAIN Chain[b]
        BY <1>1
    <1> QED
        BY <1>1, <1>2 DEF OnChain, Range

\* A set of positions has a first one.
LEMMA MinOf ==
    ASSUME NEW S \in SUBSET Nat, S # {}
    PROVE  Min(S) \in S /\ \A j \in S : Min(S) <= j
    <1> DEFINE order  == StrictSubsetOrdering(Nat)
               finite == FiniteSubsetsOf(Nat)
               upTo   == {0 .. k : k \in S}
    <1>1. IsWellFoundedOn(order, finite)
        BY FS_StrictSubsetOrderingWellFounded
    <1>2. \A k \in S : 0 .. k \in finite
        <2>1. \A k \in S : IsFiniteSet(0 .. k)
            BY FS_Interval
        <2> QED
            BY <2>1 DEF FiniteSubsetsOf
    <1>3. upTo \subseteq finite /\ upTo # {}
        BY <1>2
    <1>4. \E x \in upTo : \A y \in upTo : ~ (<<y, x>> \in order)
        <2> HIDE DEF order, finite, upTo
        <2> QED
            BY <1>1, <1>3, WFMin
    <1>5. PICK i \in S : \A k \in S : <<0 .. k, 0 .. i>> \notin order
        BY <1>4
    <1>6. ASSUME NEW k \in S, k < i PROVE FALSE
        <2>1. i \in 0 .. i /\ i \notin 0 .. k /\ 0 .. k \subseteq 0 .. i
            BY <1>6
        <2>2. <<0 .. k, 0 .. i>> \in order
            BY <1>2, <2>1 DEF StrictSubsetOrdering
        <2> QED
            BY <1>5, <2>2
    <1>7. \A j \in S : i =< j
        BY <1>6
    <1> QED
        BY <1>7 DEF Min

\* Part of a run is a run.
LEMMA SubRun ==
    ASSUME NEW s, Run(s), NEW i \in 1 .. Len(s), NEW k \in i .. Len(s)
    PROVE  /\ Run(SubSeq(s, i, k)) /\ Len(SubSeq(s, i, k)) = k - i + 1
           /\ \A n \in 1 .. k - i + 1 : SubSeq(s, i, k)[n] = s[i + n - 1]
    <1> DEFINE t == SubSeq(s, i, k)
    <1>1. s \in Seq(Blocks) /\ Len(s) \in Nat /\ i \in Nat /\ k \in Nat /\ 1 <= i /\ i <= k /\ k <= Len(s)
        BY DEF Run
    <1>2. /\ t \in Seq(Blocks) /\ Len(t) = k - i + 1
          /\ \A n \in 1 .. k - i + 1 : t[n] = s[i + n - 1]
        BY <1>1, SubSeqProperties
    <1> HIDE DEF t
    <1>3. \A n \in 1 .. Len(t) - 1 : t[n + 1] \in Blocks \ {Genesis} /\ Parent[t[n + 1]] = t[n]
        <2> SUFFICES ASSUME NEW n \in 1 .. Len(t) - 1
                     PROVE  t[n + 1] \in Blocks \ {Genesis} /\ Parent[t[n + 1]] = t[n]
            OBVIOUS
        <2>1. /\ n \in 1 .. k - i + 1 /\ n + 1 \in 1 .. k - i + 1
              /\ i + n - 1 \in 1 .. Len(s) - 1 /\ i + (n + 1) - 1 = (i + n - 1) + 1
            BY <1>1, <1>2
        <2> QED
            BY <1>2, <2>1 DEF Run
    <1>4. t # <<>>
        BY <1>1, <1>2
    <1> QED
        BY <1>2, <1>3, <1>4 DEF Run, t

\* A run whose last block is on a chain is on it from its first block on.
LEMMA RunOnChain ==
    ASSUME NEW s, Run(s), NEW b \in Blocks, OnChain(s[Len(s)], b)
    PROVE  Range(s) \subseteq Range(Chain[b])
    <1>1. s \in Seq(Blocks) /\ Len(s) \in Nat /\ Len(s) >= 1 /\ DOMAIN s = 1 .. Len(s)
        BY DEF Run
    <1> DEFINE D == {n \in Nat : n < Len(s) /\ ~ OnChain(s[Len(s) - n], b)}
    <1>2. ASSUME D # {} PROVE FALSE
        <2>1. D \in SUBSET Nat
            OBVIOUS
        <2>2. PICK n \in D : \A j \in D : n <= j
            <3> HIDE DEF D
            <3> QED
                BY <1>2, <2>1, MinOf
        <2>3. n \in Nat /\ n < Len(s) /\ ~ OnChain(s[Len(s) - n], b)
            BY <2>2
        <2>4. n # 0
            BY <1>1, <2>3
        <2>5. n - 1 \in Nat /\ n - 1 < Len(s) /\ n - 1 \notin D
            BY <2>2, <2>3, <2>4
        <2>6. OnChain(s[Len(s) - (n - 1)], b)
            BY <2>5
        <2> DEFINE i == Len(s) - n
        <2>7. i \in 1 .. Len(s) - 1 /\ Len(s) - (n - 1) = i + 1
            BY <1>1, <2>3, <2>4
        <2>8. s[i + 1] # Genesis /\ Parent[s[i + 1]] = s[i] /\ OnChain(s[i + 1], b)
            BY <2>6, <2>7 DEF Run
        <2>9. OnChain(s[i], b)
            BY <2>8, ParentOnChain
        <2> QED
            BY <2>3, <2>9
    <1>3. \A i \in DOMAIN s : s[i] \in Range(Chain[b])
        <2> SUFFICES ASSUME NEW i \in 1 .. Len(s) PROVE OnChain(s[i], b)
            BY <1>1 DEF OnChain
        <2>1. Len(s) - i \in Nat /\ Len(s) - i < Len(s) /\ Len(s) - (Len(s) - i) = i
            BY <1>1
        <2>2. Len(s) - i \notin D
            BY <1>2
        <2> QED
            BY <2>1, <2>2
    <1> QED
        BY <1>3 DEF Range

\* What dropWhile leaves of a run: nothing when all is in S, else the end of it,
\* whose first block is not in S and is the run's first or the child of one in S.
LEMMA DropWhileRun ==
    ASSUME NEW s, Run(s), NEW S, NEW d, d = DropWhileIn(s, S)
    PROVE  IF d = <<>> THEN Range(s) \subseteq S
           ELSE /\ Run(d) /\ d[Len(d)] = s[Len(s)] /\ d[1] \notin S /\ Range(d) \subseteq Range(s)
                /\ d[1] = s[1] \/ (d[1] \in Blocks \ {Genesis} /\ Parent[d[1]] \in S)
                /\ s[1] \in S => d[1] \in Blocks \ {Genesis} /\ Parent[d[1]] \in S
    <1> DEFINE others == {i \in DOMAIN s : s[i] \notin S}
               k      == Min(others)
               t      == SubSeq(s, k, Len(s))
    <1>1. s \in Seq(Blocks) /\ Len(s) \in Nat /\ Len(s) >= 1 /\ DOMAIN s = 1 .. Len(s)
        BY DEF Run
    <1>2. others \in SUBSET Nat
        BY <1>1
    <1>3. d = IF others = {} THEN <<>> ELSE t
        BY DEF DropWhileIn
    <1>4. CASE others = {}
        BY <1>3, <1>4 DEF Range
    <1>5. CASE others # {}
        <2>1. k \in others /\ \A j \in others : k <= j
            <3> HIDE DEF others
            <3> QED
                BY <1>2, <1>5, MinOf
        <2>2. k \in 1 .. Len(s) /\ s[k] \notin S
            BY <1>1, <2>1
        <2>3. \A j \in 1 .. Len(s) : j < k => s[j] \in S
            <3> SUFFICES ASSUME NEW j \in 1 .. Len(s), j < k, s[j] \notin S PROVE FALSE
                OBVIOUS
            <3>1. j \in others
                BY <1>1
            <3>2. k <= j
                BY <2>1, <3>1
            <3> HIDE DEF k
            <3> QED
                BY <2>2, <3>2
        <2> HIDE DEF others, k
        <2>4. d = t
            BY <1>3, <1>5
        <2>5. Len(s) \in k .. Len(s)
            BY <1>1, <2>2
        <2>6. /\ Run(t) /\ Len(t) = Len(s) - k + 1
              /\ \A n \in 1 .. Len(s) - k + 1 : t[n] = s[k + n - 1]
            BY <2>2, <2>5, SubRun
        <2> HIDE DEF t
        <2>7. /\ 1 \in 1 .. Len(s) - k + 1 /\ k + 1 - 1 = k
              /\ Len(s) - k + 1 \in 1 .. Len(s) - k + 1 /\ k + (Len(s) - k + 1) - 1 = Len(s)
            BY <1>1, <2>2
        <2>8. t[1] = s[k] /\ t[Len(t)] = s[Len(s)]
            BY <2>6, <2>7
        <2>9. Range(t) \subseteq Range(s)
            <3>1. DOMAIN t = 1 .. Len(s) - k + 1
                BY <2>6 DEF Run
            <3>2. \A n \in 1 .. Len(s) - k + 1 : k + n - 1 \in 1 .. Len(s)
                BY <1>1, <2>2
            <3> QED
                BY <1>1, <2>6, <3>1, <3>2 DEF Range
        <2>10. k # 1 => t[1] \in Blocks \ {Genesis} /\ Parent[t[1]] \in S
            <3> HAVE k # 1
            <3>1. k - 1 \in 1 .. Len(s) - 1 /\ (k - 1) + 1 = k /\ k - 1 \in 1 .. Len(s) /\ k - 1 < k
                BY <1>1, <2>2
            <3>2. s[k] \in Blocks \ {Genesis} /\ Parent[s[k]] = s[k - 1]
                BY <3>1 DEF Run
            <3> QED
                BY <2>3, <2>8, <3>1, <3>2
        <2>11. t # <<>>
            BY <2>6 DEF Run
        <2>12. t[1] \notin S
            BY <2>2, <2>8
        <2>13. k = 1 => t[1] = s[1]
            BY <2>8
        <2> QED
            BY <2>4, <2>6, <2>8, <2>9, <2>10, <2>11, <2>12, <2>13
    <1> QED
        BY <1>4, <1>5
-----------------------------------------------------------------------------
(* What is loaded starts where the chain will end.                           *)

\* Neither a bad block was met nor an answer taken that starts on no block asked about.
Clean == invalid = {} /\ ~ mistaken

\* The blocks that will be on the local chain when the extension under way is
\* applied, as far as the loader can know: its own, or those of the chain.
Ground(a, last) == IF a = Idle THEN Range(Chain[last]) ELSE Range(a.extension)

\* The first of these blocks is the child of one in S.
Extends(blocks, S) == blocks[1] \in Blocks \ {Genesis} /\ Parent[blocks[1]] \in S

\* What is asked about is on the ground S, what is being loaded starts on it.
LoaderOk(l, S, clean) ==
    \/ l = Idle
    \/ \E c, known : /\ l = [channel |-> c, known |-> known]
                     /\ known \in Seq(Blocks)
                     /\ clean => Range(known) \subseteq S
    \/ \E c, requested, expected :
          /\ l = [channel |-> c, requested |-> requested, expected |-> expected]
          /\ Run(requested)
          /\ clean => Extends(requested, S)

\* The extension under way starts on the local chain S, when it is applied it is
\* on it; the one in the buffer starts on the extension under way.
ApplierOk(a, result, S, clean) ==
    a # Idle =>
        /\ Run(a.extension)
        /\ a.buffer # NoBuffer => Run(a.buffer.extension)
        /\ clean /\ result = NoOutcome => Extends(a.extension, S)
        /\ clean /\ result # NoOutcome => Range(a.extension) \subseteq S
        /\ clean /\ a.buffer # NoBuffer => Extends(a.buffer.extension, Range(a.extension))

RequestsOk == \A r \in requests : "known" \in DOMAIN r => r.known \in Seq(Blocks)
RepliesOk == \A m \in replies : "ids" \in DOMAIN m => Run(m.ids)

PeersOk == head \in [Channels -> Blocks] /\ open \subseteq Channels

ChainsOk ==
    /\ local \in Blocks /\ mistaken \in BOOLEAN /\ invalid \subseteq BadBlocks
    /\ outcome = "failed" => ~ Clean

GroundInv ==
    /\ LoaderInv /\ PeersOk /\ RequestsOk /\ RepliesOk /\ ChainsOk
    /\ LoaderOk(loader, Ground(applier, local), Clean)
    /\ ApplierOk(applier, outcome, Range(Chain[local]), Clean)

\* A loader is on any larger ground, and whatever it was when a mistake was made.
LEMMA LoaderOnMore ==
    ASSUME NEW l, NEW S, NEW T, NEW c \in BOOLEAN, NEW d \in BOOLEAN,
           LoaderOk(l, S, c), d => c /\ S \subseteq T
    PROVE  LoaderOk(l, T, d)
    <1>1. CASE l = Idle
        BY <1>1 DEF LoaderOk
    <1>2. ASSUME NEW k, NEW known, l = [channel |-> k, known |-> known], known \in Seq(Blocks),
                 c => Range(known) \subseteq S
          PROVE  LoaderOk(l, T, d)
        <2>1. d => Range(known) \subseteq T
            BY <1>2
        <2> QED
            BY <1>2, <2>1 DEF LoaderOk
    <1>3. ASSUME NEW k, NEW requested, NEW expected,
                 l = [channel |-> k, requested |-> requested, expected |-> expected],
                 Run(requested), c => Extends(requested, S)
          PROVE  LoaderOk(l, T, d)
        <2>1. d => Extends(requested, T)
            BY <1>3 DEF Extends
        <2> QED
            BY <1>3, <2>1 DEF LoaderOk
    <1> QED
        BY <1>1, <1>2, <1>3 DEF LoaderOk

\* The reverse of blocks is a sequence of the same blocks.
LEMMA ReverseBlocks ==
    ASSUME NEW s \in Seq(Blocks)
    PROVE  Reverse(s) \in Seq(Blocks) /\ Range(Reverse(s)) = Range(s)
    <1>1. Len(s) \in Nat /\ DOMAIN s = 1 .. Len(s) /\ \A i \in 1 .. Len(s) : s[i] \in Blocks
        OBVIOUS
    <1> DEFINE t == [i \in 1 .. Len(s) |-> s[(Len(s) - i) + 1]]
    <1>2. Reverse(s) = t
        BY DEF Reverse
    <1>3. \A i \in 1 .. Len(s) : (Len(s) - i) + 1 \in 1 .. Len(s)
        BY <1>1
    <1>4. t \in [1 .. Len(s) -> Blocks]
        BY <1>1, <1>3
    <1>5. t \in Seq(Blocks)
        <2> HIDE DEF t
        <2> QED
            BY <1>1, <1>4, SeqDef
    <1>6. Range(t) \subseteq Range(s)
        BY <1>1, <1>3 DEF Range
    <1>7. ASSUME NEW i \in 1 .. Len(s) PROVE s[i] \in Range(t)
        <2>1. (Len(s) - i) + 1 \in 1 .. Len(s) /\ (Len(s) - ((Len(s) - i) + 1)) + 1 = i
            BY <1>1
        <2>2. t[(Len(s) - i) + 1] = s[i]
            BY <2>1
        <2>3. DOMAIN t = 1 .. Len(s)
            OBVIOUS
        <2> HIDE DEF t
        <2> QED
            BY <2>1, <2>2, <2>3 DEF Range
    <1>8. Range(s) \subseteq Range(t)
        BY <1>1, <1>7 DEF Range
    <1> HIDE DEF t
    <1> QED
        BY <1>2, <1>5, <1>6, <1>8

\* The last block ids are of the local chain.
LEMMA LastBlockIdsOk ==
    ASSUME local \in Blocks
    PROVE  LastBlockIds \in Seq(Blocks) /\ Range(LastBlockIds) \subseteq Range(Chain[local])
    <1> DEFINE c == Reverse(Chain[local])
               n == IF Len(c) < MaxRollback THEN Len(c) ELSE MaxRollback
    <1>1. Run(Chain[local])
        BY ChainShape DEF ChainOk
    <1>2. c \in Seq(Blocks) /\ Range(c) = Range(Chain[local])
        BY <1>1, ReverseBlocks DEF Run
    <1>3. LastBlockIds = SubSeq(c, 1, n)
        BY DEF LastBlockIds
    <1> HIDE DEF c
    <1>4. n \in 0 .. Len(c) /\ Len(c) \in Nat /\ DOMAIN c = 1 .. Len(c)
        BY <1>2, TreeAssumption
    <1> HIDE DEF n
    <1> DEFINE t == SubSeq(c, 1, n)
    <1>5. t \in Seq(Blocks) /\ DOMAIN t = 1 .. n /\ \A i \in 1 .. n : t[i] = c[i]
        BY <1>2, <1>4
    <1> HIDE DEF t
    <1>6. Range(t) \subseteq Range(c)
        BY <1>4, <1>5 DEF Range
    <1> QED
        BY <1>2, <1>3, <1>5, <1>6 DEF t

\* Whatever the loader's next step: it is on the ground the applier gives it.
LEMMA SyncNextOk ==
    ASSUME NEW l, NEW a, NEW sync, SyncNext(l, a, sync), NEW c \in BOOLEAN,
           local \in Blocks, RequestsOk, l # Idle => l = loader,
           l # Idle => LoaderOk(l, Ground(a, local), c),
           a # Idle => Run(a.extension)
    PROVE  LoaderOk(loader', Ground(a, local), c) /\ RequestsOk'
    <1>1. ASSUME NEW k, NEW known, Request(k, known), known \in Seq(Blocks),
                 Range(known) \subseteq Ground(a, local)
          PROVE  LoaderOk(loader', Ground(a, local), c) /\ RequestsOk'
        <2>1. /\ loader' = [channel |-> k, known |-> known]
              /\ requests' = requests \cup {[channel |-> k, known |-> known]}
            BY <1>1 DEF Request, Become
        <2>2. LoaderOk(loader', Ground(a, local), c)
            BY <1>1, <2>1 DEF LoaderOk
        <2>3. RequestsOk'
            BY <1>1, <2>1 DEF RequestsOk
        <2> QED
            BY <2>2, <2>3
    <1>2. CASE Rest
        BY <1>2 DEF Rest, Become, LoaderOk, RequestsOk
    <1>3. CASE l # Idle /\ UNCHANGED loaderVars
        BY <1>3 DEF loaderVars, RequestsOk
    <1>4. CASE a = Idle /\ Request(sync.channel, LastBlockIds)
        BY <1>1, <1>4, LastBlockIdsOk DEF Ground
    <1>5. CASE a # Idle /\ Request(sync.channel, Reverse(a.extension))
        <2>1. a.extension \in Seq(Blocks)
            BY <1>5 DEF Run
        <2>2. Reverse(a.extension) \in Seq(Blocks) /\ Range(Reverse(a.extension)) \subseteq Ground(a, local)
            BY <1>5, <2>1, ReverseBlocks DEF Ground
        <2> QED
            BY <1>1, <1>5, <2>2
    <1> QED
        BY <1>2, <1>3, <1>4, <1>5 DEF SyncNext
\* A clean state was clean before: invalid blocks are remembered, and so is a mistake.
LEMMA CleanBefore ==
    ASSUME mistaken \in BOOLEAN, [Next]_vars, Clean'
    PROVE  Clean
    <1>1. invalid \subseteq invalid' /\ (mistaken => mistaken')
        BY DEF Next, vars, chainVars, PeerAdvances, PeerLeaves, ScoreExpires, PeerReplies, LocalAppends,
               Observe, SeeLocalScore, SeeRemoteScore, SeeClosed, Load, OnSyncWith, OnSignatures, OnBlock,
               OnExtensionApplied, Timeout, ProcessFork
    <1> QED
        BY <1>1 DEF Clean

\* Steps of the peers, the observer and the timer, which leave the rest alone.
LEMMA OthersGround ==
    ASSUME GroundInv, LoaderInv', PeersOk', UNCHANGED <<loader, requests, replies, applierVars, chainVars>>
    PROVE  GroundInv'
    BY DEF GroundInv, RequestsOk, RepliesOk, ChainsOk, Clean, applierVars, chainVars

\* What a peer answers is a piece of its chain.
LEMMA SignaturesAreRun ==
    ASSUME NEW r, r.known \in Seq(Blocks), head[r.channel] \in Blocks, NEW m \in SignaturesReply(r)
    PROVE  Run(m.ids)
    <1> DEFINE c      == Chain[head[r.channel]]
               common == {i \in DOMAIN r.known : OnChain(r.known[i], head[r.channel])}
               first  == CHOOSE i \in DOMAIN c : c[i] = r.known[Min(common)]
               ends   == {first + MaxChainLength - 1, Len(c)}
    <1>1. common # {} /\ m = [channel |-> r.channel, ids |-> SubSeq(c, first, Min(ends))]
        BY DEF SignaturesReply
    <1>2. Run(c)
        BY ChainShape DEF ChainOk
    <1>3. Min(common) \in common
        <2>1. common \in SUBSET Nat
            OBVIOUS
        <2> HIDE DEF common
        <2> QED
            BY <1>1, <2>1, MinOf
    <1>4. \E i \in DOMAIN c : c[i] = r.known[Min(common)]
        BY <1>3 DEF OnChain, Range
    <1>5. first \in 1 .. Len(c) /\ Len(c) \in Nat
        <2>1. first \in DOMAIN c
            BY <1>4
        <2> HIDE DEF first, common
        <2> QED
            BY <1>2, <2>1 DEF Run
    <1> HIDE DEF c, common, first
    <1>6. MaxChainLength \in Nat \ {0}
        BY TreeAssumption
    <1>7. Min(ends) \in first .. Len(c)
        <2>1. ends \in SUBSET Nat /\ ends # {} /\ Len(c) \in ends /\ (\A j \in ends : first <= j)
            BY <1>5, <1>6
        <2>2. Min(ends) \in ends /\ (\A j \in ends : Min(ends) <= j)
            <3> HIDE DEF ends
            <3> QED
                BY <2>1, MinOf
        <2> DEFINE least == Min(ends)
        <2>3. least \in Nat /\ first <= least /\ least <= Len(c)
            <3> HIDE DEF ends
            <3> QED
                BY <2>1, <2>2
        <2> HIDE DEF least
        <2>4. least \in first .. Len(c)
            BY <1>5, <2>3
        <2> QED
            BY <2>4 DEF least
    <1> HIDE DEF ends
    <1>8. Run(SubSeq(c, first, Min(ends)))
        BY <1>2, <1>5, <1>7, SubRun
    <1> QED
        BY <1>1, <1>8

LEMMA PeerRepliesGround ==
    ASSUME GroundInv, LoaderInv', NEW r \in requests, PeerReplies(r)
    PROVE  GroundInv'
    <1>1. /\ UNCHANGED <<head, open, loader, applier, toApply, outcome, local, invalid, mistaken>>
          /\ requests' = requests \ {r} /\ r.channel \in open
          /\ replies' = replies \cup IF "known" \in DOMAIN r THEN SignaturesReply(r) ELSE BlockReply(r)
        BY DEF PeerReplies, peerVars, applierVars, chainVars
    <1>2. PeersOk' /\ RequestsOk'
        BY <1>1 DEF GroundInv, PeersOk, RequestsOk
    <1>3. ASSUME NEW m \in replies', "ids" \in DOMAIN m PROVE Run(m.ids)
        <2>1. CASE m \in replies
            BY <1>3, <2>1 DEF GroundInv, RepliesOk
        <2>2. CASE "known" \in DOMAIN r /\ m \in SignaturesReply(r)
            <3>1. r.known \in Seq(Blocks) /\ head[r.channel] \in Blocks
                BY <1>1, <2>2 DEF GroundInv, RequestsOk, PeersOk
            <3> QED
                BY <2>2, <3>1, SignaturesAreRun
        <2>3. CASE m \in BlockReply(r)
            BY <1>3, <2>3 DEF BlockReply
        <2> QED
            BY <1>1, <2>1, <2>2, <2>3
    <1>4. RepliesOk'
        BY <1>3 DEF RepliesOk
    <1> QED
        BY <1>1, <1>2, <1>4 DEF GroundInv, ChainsOk, Clean

\* A local chain that grows is more ground.
LEMMA LocalAppendsGround ==
    ASSUME GroundInv, LoaderInv', NEW b \in OwnBlocks, LocalAppends(b)
    PROVE  GroundInv'
    <1>1. /\ UNCHANGED <<head, open, replies, loader, requests, applier, toApply, outcome, invalid, mistaken>>
          /\ Parent[b] = local /\ local' = b
        BY DEF LocalAppends, peerVars, loaderVars, applierVars
    <1>2. b \in Blocks \ {Genesis}
        BY TreeAssumption
    <1>3. Range(Chain[local]) \subseteq Range(Chain[local'])
        BY <1>1, <1>2, ChainGrows
    <1>4. PeersOk' /\ RequestsOk' /\ RepliesOk' /\ ChainsOk' /\ Clean' = Clean
        BY <1>1, <1>2 DEF GroundInv, PeersOk, RequestsOk, RepliesOk, ChainsOk, Clean
    <1>5. Ground(applier, local) \subseteq Ground(applier', local')
        BY <1>1, <1>3 DEF Ground
    <1>6. Clean \in BOOLEAN
        BY DEF Clean, GroundInv, ChainsOk
    <1>7. LoaderOk(loader', Ground(applier', local'), Clean')
        BY <1>1, <1>4, <1>5, <1>6, LoaderOnMore DEF GroundInv
    <1>8. ApplierOk(applier', outcome', Range(Chain[local']), Clean')
        BY <1>1, <1>3, <1>4 DEF GroundInv, ApplierOk, Extends
    <1> QED
        BY <1>4, <1>7, <1>8 DEF GroundInv

LEMMA CleanBoolean == GroundInv => Clean \in BOOLEAN
    BY DEF GroundInv, ChainsOk, Clean

\* A step of the loader alone.
LEMMA LoaderGround ==
    ASSUME GroundInv, LoaderInv', PeersOk', RequestsOk', RepliesOk',
           UNCHANGED <<applierVars, chainVars>>,
           LoaderOk(loader', Ground(applier, local), Clean)
    PROVE  GroundInv'
    BY DEF GroundInv, ChainsOk, Clean, applierVars, chainVars

LEMMA OnSyncWithGround ==
    ASSUME GroundInv, LoaderInv', OnSyncWith
    PROVE  GroundInv'
    <1>1. UNCHANGED <<peerVars, replies, applierVars, chainVars>>
        BY DEF OnSyncWith
    <1>2. PeersOk' /\ RepliesOk'
        BY <1>1 DEF GroundInv, PeersOk, RepliesOk, peerVars
    <1> DEFINE S == Ground(applier, local)
    <1>3. /\ local \in Blocks /\ RequestsOk /\ Clean \in BOOLEAN /\ LoaderOk(loader, S, Clean)
          /\ applier # Idle => Run(applier.extension)
        BY CleanBoolean DEF GroundInv, ChainsOk, ApplierOk
    <1>4. LoaderOk(loader', S, Clean) /\ RequestsOk'
        <2>1. CASE Rest
            BY <1>3, <2>1 DEF Rest, Become, LoaderOk, RequestsOk
        <2>2. CASE UNCHANGED loaderVars
            BY <1>3, <2>2 DEF loaderVars, RequestsOk
        <2>3. CASE SyncNext(loader, applier, Head(events).sync)
            BY <1>3, <2>3, SyncNextOk
        <2>4. CASE SyncNext(Idle, applier, Head(events).sync)
            BY <1>3, <2>4, SyncNextOk
        <2> QED
            BY <2>1, <2>2, <2>3, <2>4 DEF OnSyncWith
    <1> QED
        BY <1>1, <1>2, <1>4, LoaderGround

\* The signatures that are unknown start on a block that was named, unless the
\* answer starts on none.
LEMMA UnknownOk ==
    ASSUME NEW ids, Run(ids), NEW known \in Seq(Blocks), Unknown(ids, known) # <<>>
    PROVE  /\ Run(Unknown(ids, known))
           /\ Head(ids) \in Range(known) => Extends(Unknown(ids, known), Range(known))
    <1>1. Head(ids) = ids[1]
        BY DEF Run
    <1>2. Unknown(ids, known) = DropWhileIn(ids, Range(known))
        BY DEF Unknown
    <1> QED
        BY <1>1, <1>2, DropWhileRun DEF Extends

LEMMA OnSignaturesGround ==
    ASSUME GroundInv, LoaderInv', NEW m \in replies, OnSignatures(m), Clean' => Clean
    PROVE  GroundInv'
    <1>1. /\ UNCHANGED <<head, applierVars, local, invalid>> /\ replies' = replies \ {m}
          /\ "ids" \in DOMAIN m /\ open' \subseteq open
        BY DEF OnSignatures, Close
    <1>2. PeersOk' /\ RepliesOk'
        BY <1>1 DEF GroundInv, PeersOk, RepliesOk
    <1> DEFINE S == Ground(applier, local)
    <1>3. /\ local \in Blocks /\ RequestsOk /\ Clean \in BOOLEAN /\ LoaderOk(loader, S, Clean)
          /\ applier # Idle => Run(applier.extension)
        BY CleanBoolean DEF GroundInv, ChainsOk, ApplierOk
    <1>4. Run(m.ids)
        BY <1>1 DEF GroundInv, RepliesOk
    <1>5. ASSUME UNCHANGED mistaken, LoaderOk(loader', S, Clean), RequestsOk'
          PROVE  GroundInv'
        BY <1>1, <1>2, <1>5, LoaderGround DEF chainVars
    <1>6. CASE ~ Expects(m.channel, "known")
        BY <1>3, <1>5, <1>6 DEF OnSignatures, loaderVars, RequestsOk
    <1>7. CASE Expects(m.channel, "known") /\ Range(m.ids) \cap invalid # {}
        <2>1. SyncNext(Idle, applier, LastSyncWith) /\ UNCHANGED mistaken
            BY <1>7 DEF OnSignatures
        <2>2. LoaderOk(loader', S, Clean) /\ RequestsOk'
            BY <1>3, <2>1, SyncNextOk
        <2> QED
            BY <1>5, <2>1, <2>2
    <1>8. CASE Expects(m.channel, "known") /\ ~ (Range(m.ids) \cap invalid # {})
        <2> DEFINE unknown == Unknown(m.ids, loader.known)
        <2>1. /\ mistaken' = (mistaken \/ Head(m.ids) \notin Range(loader.known))
              /\ IF unknown = <<>> THEN Rest
                 ELSE Become([channel |-> m.channel, requested |-> unknown, expected |-> Range(unknown)],
                             {[channel |-> m.channel, id |-> b] : b \in Range(unknown)})
            BY <1>8 DEF OnSignatures
        <2>2. loader.known \in Seq(Blocks) /\ (Clean => Range(loader.known) \subseteq S)
            <3>1. loader # Idle /\ "known" \in DOMAIN loader
                BY <1>8 DEF Expects
            <3>2. ~ \E c, requested, expected :
                      loader = [channel |-> c, requested |-> requested, expected |-> expected]
                BY <3>1
            <3>3. PICK c, known : /\ loader = [channel |-> c, known |-> known]
                                  /\ known \in Seq(Blocks) /\ (Clean => Range(known) \subseteq S)
                BY <1>3, <3>1, <3>2 DEF LoaderOk
            <3> QED
                BY <3>3
        <2>3. LoaderOk(loader', S, Clean') /\ RequestsOk'
            <3>1. CASE unknown = <<>>
                BY <1>3, <2>1, <3>1 DEF Rest, Become, LoaderOk, RequestsOk
            <3>2. CASE unknown # <<>>
                <4>1. Run(unknown) /\ (Head(m.ids) \in Range(loader.known) => Extends(unknown, Range(loader.known)))
                    BY <1>4, <2>2, <3>2, UnknownOk
                <4>2. Clean' => Head(m.ids) \in Range(loader.known)
                    BY <2>1 DEF Clean
                <4> HIDE DEF unknown, S
                <4>3. Clean' => Extends(unknown, S)
                    BY <2>2, <4>1, <4>2 DEF Extends
                <4>4. /\ loader' = [channel |-> m.channel, requested |-> unknown, expected |-> Range(unknown)]
                      /\ requests' = requests \cup {[channel |-> m.channel, id |-> b] : b \in Range(unknown)}
                    BY <2>1, <3>2 DEF Become
                <4>5. LoaderOk(loader', S, Clean')
                    BY <4>1, <4>3, <4>4 DEF LoaderOk
                <4>6. RequestsOk'
                    BY <1>3, <4>4 DEF RequestsOk
                <4> QED
                    BY <4>5, <4>6
            <3> QED
                BY <3>1, <3>2
        <2>4. mistaken' \in BOOLEAN
            BY <2>1
        <2>5. ChainsOk'
            BY <1>1, <2>4 DEF GroundInv, ChainsOk, applierVars
        <2>6. ApplierOk(applier', outcome', Range(Chain[local']), Clean')
            BY <1>1 DEF GroundInv, ApplierOk, applierVars
        <2>7. Ground(applier', local') = S
            BY <1>1 DEF applierVars
        <2> QED
            BY <1>2, <2>3, <2>5, <2>6, <2>7 DEF GroundInv
    <1> QED
        BY <1>6, <1>7, <1>8

\* A loaded extension starts where the one before it, or the chain, ends.
LEMMA OnBlockGround ==
    ASSUME GroundInv, LoaderInv', NEW m \in replies, OnBlock(m)
    PROVE  GroundInv'
    <1>1. /\ UNCHANGED <<head, open, outcome, local, invalid, mistaken>> /\ replies' = replies \ {m}
        BY DEF OnBlock, peerVars, chainVars
    <1>2. PeersOk' /\ RepliesOk' /\ ChainsOk' /\ Clean' = Clean
        BY <1>1 DEF GroundInv, PeersOk, RepliesOk, ChainsOk, Clean
    <1> DEFINE S == Ground(applier, local)
    <1>3. /\ local \in Blocks /\ RequestsOk /\ Clean \in BOOLEAN /\ LoaderOk(loader, S, Clean)
          /\ ApplierOk(applier, outcome, Range(Chain[local]), Clean)
        BY CleanBoolean DEF GroundInv, ChainsOk
    <1>4. ASSUME applier' = applier, LoaderOk(loader', S, Clean), RequestsOk'
          PROVE  GroundInv'
        BY <1>1, <1>2, <1>3, <1>4 DEF GroundInv
    <1>5. CASE ~ Expects(m.channel, "expected") \/ m.block \notin loader.expected
        BY <1>3, <1>4, <1>5 DEF OnBlock, loaderVars, RequestsOk
    <1>6. CASE Expects(m.channel, "expected") /\ m.block \in loader.expected
        <2>1. loader # Idle /\ "expected" \in DOMAIN loader
            BY <1>6 DEF Expects
        <2>2. ~ \E c, known : loader = [channel |-> c, known |-> known]
            BY <2>1
        <2>3. PICK c, q, expected :
                 /\ loader = [channel |-> c, requested |-> q, expected |-> expected]
                 /\ Run(q) /\ (Clean => Extends(q, S))
            BY <1>3, <2>1, <2>2 DEF LoaderOk
        <2>4. CASE loader.expected # {m.block}
            <3>1. /\ loader' = [channel |-> c, requested |-> q, expected |-> expected \ {m.block}]
                  /\ requests' = requests \cup {} /\ applier' = applier
                BY <1>6, <2>3, <2>4 DEF OnBlock, Become
            <3>2. LoaderOk(loader', S, Clean)
                BY <2>3, <3>1 DEF LoaderOk
            <3>3. RequestsOk'
                BY <1>3, <3>1 DEF RequestsOk
            <3> QED
                BY <1>4, <3>1, <3>2, <3>3
        <2>5. CASE loader.expected = {m.block}
            <3>1. ExtensionLoadingFinished(m.channel, q)
                BY <1>6, <2>3, <2>5 DEF OnBlock
            <3>2. CASE applier = Idle
                <4>1. /\ applier' = [extension |-> q, buffer |-> NoBuffer]
                      /\ SyncNext(Idle, applier', LastSyncWith)
                    BY <3>1, <3>2 DEF ExtensionLoadingFinished
                <4>2. applier' # Idle /\ applier'.extension = q /\ applier'.buffer = NoBuffer
                    BY <4>1, NotIdle
                <4>3. LoaderOk(loader', Ground(applier', local), Clean) /\ RequestsOk'
                    <5> DEFINE a == applier'
                    <5>1. SyncNext(Idle, a, LastSyncWith) /\ Run(a.extension)
                        BY <2>3, <4>1, <4>2
                    <5> HIDE DEF a
                    <5>2. LoaderOk(loader', Ground(a, local), Clean) /\ RequestsOk'
                        BY <1>3, <5>1, SyncNextOk
                    <5> QED
                        BY <5>2 DEF a
                <4>4. outcome = NoOutcome
                    BY <3>2 DEF GroundInv, LoaderInv, Agree, OutcomeOfFirst
                <4>5. S = Range(Chain[local])
                    BY <3>2 DEF Ground
                <4>6. ApplierOk(applier', outcome', Range(Chain[local']), Clean')
                    BY <1>1, <1>2, <2>3, <4>2, <4>4, <4>5 DEF ApplierOk
                <4> QED
                    BY <1>1, <1>2, <4>3, <4>6 DEF GroundInv
            <3>3. CASE applier # Idle
                <4>1. applier.buffer = NoBuffer
                    BY <2>1, <3>3 DEF GroundInv, LoaderInv, BufferStopsLoader
                <4>2. /\ applier' = [applier EXCEPT !.buffer = [channel |-> m.channel, extension |-> q]]
                      /\ Rest
                    BY <3>1, <3>3, <4>1 DEF ExtensionLoadingFinished
                <4>3. applier = [extension |-> applier.extension, buffer |-> applier.buffer]
                    BY <3>3 DEF GroundInv, LoaderInv, ApplierShape
                <4>4. applier' = [extension |-> applier.extension,
                                  buffer |-> [channel |-> m.channel, extension |-> q]]
                    BY <4>2, <4>3
                <4>5. /\ applier' # Idle /\ applier'.extension = applier.extension
                      /\ applier'.buffer.extension = q
                    BY <4>4, NotIdle
                <4>6. S = Range(applier.extension)
                    BY <3>3 DEF Ground
                <4>7. ApplierOk(applier', outcome', Range(Chain[local']), Clean')
                    BY <1>1, <1>2, <1>3, <2>3, <3>3, <4>5, <4>6 DEF ApplierOk
                <4>8. LoaderOk(loader', Ground(applier', local'), Clean') /\ RequestsOk'
                    BY <1>3, <4>2 DEF Rest, Become, LoaderOk, RequestsOk
                <4> QED
                    BY <1>2, <4>7, <4>8 DEF GroundInv
            <3> QED
                BY <3>2, <3>3
        <2> QED
            BY <2>4, <2>5
    <1> QED
        BY <1>5, <1>6

\* When the extension under way was applied, the ground is the local chain: what
\* was loaded on top of it stands there, and what waits in the buffer.
LEMMA OnExtensionAppliedGround ==
    ASSUME GroundInv, LoaderInv', OnExtensionApplied
    PROVE  GroundInv'
    <1>1. /\ UNCHANGED <<head, open, replies, local, invalid, mistaken>> /\ outcome' = NoOutcome
          /\ outcome # NoOutcome /\ applier # Idle
        BY DEF OnExtensionApplied, peerVars, chainVars, GroundInv, LoaderInv, OutcomeOfFirst, Agree
    <1>2. PeersOk' /\ RepliesOk' /\ ChainsOk' /\ Clean' = Clean
        BY <1>1 DEF GroundInv, PeersOk, RepliesOk, ChainsOk, Clean, NoOutcome
    <1> DEFINE E == applier.extension
               S == Range(Chain[local])
    <1>3. /\ local \in Blocks /\ RequestsOk /\ Clean \in BOOLEAN
          /\ LoaderOk(loader, Range(E), Clean)
          /\ Clean => Range(E) \subseteq S
        BY <1>1, CleanBoolean DEF GroundInv, ChainsOk, Ground, ApplierOk
    <1>4. CASE applier.buffer = NoBuffer
        <2>1. applier' = Idle /\ UNCHANGED loaderVars
            BY <1>4 DEF OnExtensionApplied
        <2>2. Ground(applier', local') = S
            BY <1>1, <2>1 DEF Ground
        <2> HIDE DEF E, S
        <2>3. LoaderOk(loader, S, Clean)
            BY <1>3, LoaderOnMore
        <2>4. LoaderOk(loader', Ground(applier', local'), Clean') /\ RequestsOk'
            BY <1>2, <1>3, <2>1, <2>2, <2>3 DEF loaderVars, RequestsOk
        <2>5. ApplierOk(applier', outcome', Range(Chain[local']), Clean')
            BY <2>1 DEF ApplierOk
        <2> QED
            BY <1>2, <2>4, <2>5 DEF GroundInv
    <1>5. CASE applier.buffer # NoBuffer
        <2>1. loader = Idle
            BY <1>1, <1>5 DEF GroundInv, LoaderInv, BufferStopsLoader
        <2> DEFINE a == applier'
        <2>2. SyncNext(loader, a, LastSyncWith)
            BY <1>5 DEF OnExtensionApplied
        <2>3. /\ Run(applier.buffer.extension)
              /\ Clean => Extends(applier.buffer.extension, S)
            BY <1>1, <1>3, <1>5 DEF GroundInv, ApplierOk, Extends
        <2>4. a = Idle \/ a = [extension |-> applier.buffer.extension, buffer |-> NoBuffer]
            BY <1>5 DEF OnExtensionApplied
        <2>5. a # Idle => a.extension = applier.buffer.extension /\ a.buffer = NoBuffer
            BY <2>4
        <2>6. ApplierOk(a, NoOutcome, S, Clean)
            <3> HIDE DEF a, S
            <3> QED
                BY <2>3, <2>5 DEF ApplierOk
        <2>7. LoaderOk(loader', Ground(a, local), Clean) /\ RequestsOk'
            <3> HIDE DEF a
            <3> QED
                BY <1>3, <2>1, <2>2, <2>3, <2>5, SyncNextOk
        <2> QED
            BY <1>1, <1>2, <2>6, <2>7 DEF GroundInv
    <1> QED
        BY <1>4, <1>5

\* An extension that starts on the local chain is refused for a bad block only;
\* when it is applied the chain holds all its blocks.
LEMMA ProcessForkGround ==
    ASSUME GroundInv, LoaderInv', ProcessFork, Clean' => Clean
    PROVE  GroundInv'
    <1> DEFINE x     == Head(toApply)
               E     == applier.extension
               S     == Range(Chain[local])
               new   == DropWhileIn(E, S)
               bad   == {i \in DOMAIN new : new[i] \in BadBlocks}
               fails == new # <<>> /\ (~ OnChain(Parent[new[1]], local) \/ bad # {})
    <1>1. /\ UNCHANGED <<head, replies, loader, requests, applier, toApply, mistaken>>
          /\ outcome = NoOutcome /\ toApply # <<>> /\ open' \subseteq open
        BY DEF ProcessFork, loaderVars, Close
    <1>2. applier # Idle /\ x.extension = E
        <2>1. applier # Idle
            BY <1>1 DEF GroundInv, LoaderInv, Agree
        <2>2. toApply = <<[channel |-> toApply[1].channel, extension |-> E]>>
            BY <2>1 DEF GroundInv, LoaderInv, Agree
        <2>3. x = [channel |-> toApply[1].channel, extension |-> E]
            BY <2>2
        <2> QED
            BY <2>1, <2>3
    <1>3. /\ local \in Blocks /\ mistaken \in BOOLEAN /\ invalid \subseteq BadBlocks
          /\ Run(E) /\ (Clean => Extends(E, S))
        BY <1>1, <1>2 DEF GroundInv, ChainsOk, ApplierOk
    <1>4. /\ outcome' = IF fails THEN "failed" ELSE "done"
          /\ local' = IF fails \/ new = <<>> THEN local ELSE Last(new)
          /\ invalid' = IF fails /\ OnChain(Parent[new[1]], local)
                        THEN invalid \cup {new[Min(bad)]} ELSE invalid
        BY <1>2 DEF ProcessFork
    <1>5. IF new = <<>> THEN Range(E) \subseteq S
          ELSE /\ Run(new) /\ new[Len(new)] = E[Len(E)]
               /\ new[1] = E[1] \/ (new[1] \in Blocks \ {Genesis} /\ Parent[new[1]] \in S)
        BY <1>3, DropWhileRun
    <1> HIDE DEF x, E, S, new
    <1>6. new # <<>> => Last(new) \in Blocks
        <2> HAVE new # <<>>
        <2>1. new \in Seq(Blocks) /\ Len(new) \in Nat /\ Len(new) >= 1
            BY <1>5 DEF Run
        <2>2. new[Len(new)] \in Blocks
            BY <2>1
        <2> QED
            BY <2>2 DEF Last
    <1>7. invalid' \subseteq BadBlocks /\ (fails /\ OnChain(Parent[new[1]], local) => invalid' # {})
        <2>1. CASE fails /\ OnChain(Parent[new[1]], local)
            <3>1. bad # {} /\ new \in Seq(Blocks)
                BY <1>5, <2>1 DEF Run
            <3>2. bad \in SUBSET Nat
                BY <3>1
            <3>3. Min(bad) \in bad
                <4> HIDE DEF bad
                <4> QED
                    BY <3>1, <3>2, MinOf
            <3>4. new[Min(bad)] \in BadBlocks
                BY <3>3
            <3> HIDE DEF fails, bad
            <3> QED
                BY <1>3, <1>4, <2>1, <3>4
        <2>2. CASE ~ (fails /\ OnChain(Parent[new[1]], local))
            BY <1>3, <1>4, <2>2
        <2> QED
            BY <2>1, <2>2
    <1>8. Clean' => ~ fails
        <2> SUFFICES ASSUME Clean', fails PROVE FALSE
            OBVIOUS
        <2>1. Extends(E, S) /\ new # <<>>
            BY <1>3
        <2>2. Parent[new[1]] \in S
            BY <1>5, <2>1 DEF Extends
        <2>3. OnChain(Parent[new[1]], local)
            BY <2>2 DEF OnChain, S
        <2> QED
            BY <1>7, <2>3 DEF Clean
    <1> HIDE DEF fails, bad
    <1>9. ~ fails => Range(E) \subseteq Range(Chain[local'])
        <2> SUFFICES ASSUME ~ fails PROVE Range(E) \subseteq Range(Chain[local'])
            OBVIOUS
        <2>1. CASE new = <<>>
            BY <1>4, <1>5, <2>1 DEF S
        <2>2. CASE new # <<>>
            <3> DEFINE b == E[Len(E)]
            <3>1. local' = b /\ b \in Blocks
                BY <1>4, <1>5, <1>6, <2>2 DEF Last
            <3> HIDE DEF b
            <3>2. OnChain(E[Len(E)], b)
                BY <3>1, OnOwnChain DEF b
            <3>3. Range(E) \subseteq Range(Chain[b])
                BY <1>3, <3>1, <3>2, RunOnChain
            <3> QED
                BY <3>1, <3>3
        <2> QED
            BY <2>1, <2>2
    <1>10. local' \in Blocks
        BY <1>3, <1>4, <1>6
    <1>11. ChainsOk'
        BY <1>1, <1>3, <1>4, <1>7, <1>8, <1>10 DEF ChainsOk
    <1>12. PeersOk' /\ RequestsOk' /\ RepliesOk'
        BY <1>1 DEF GroundInv, PeersOk, RequestsOk, RepliesOk
    <1>13. Ground(applier', local') = Range(E) /\ Ground(applier, local) = Range(E)
        BY <1>1, <1>2 DEF Ground, E
    <1>14. Clean \in BOOLEAN /\ Clean' \in BOOLEAN
        BY <1>11, CleanBoolean DEF ChainsOk, Clean
    <1>15. LoaderOk(loader', Ground(applier', local'), Clean')
        <2> DEFINE d == Clean'
        <2>1. LoaderOk(loader, Range(E), Clean) /\ d \in BOOLEAN /\ (d => Clean)
            BY <1>13, <1>14 DEF GroundInv
        <2> HIDE DEF d
        <2>2. LoaderOk(loader, Range(E), d)
            BY <1>14, <2>1, LoaderOnMore
        <2> QED
            BY <1>1, <1>13, <2>2 DEF d
    <1>16. ApplierOk(applier', outcome', Range(Chain[local']), Clean')
        <2>1. ApplierOk(applier, outcome, Range(Chain[local]), Clean)
            BY DEF GroundInv
        <2>2. outcome' # NoOutcome
            BY <1>4 DEF NoOutcome
        <2>3. Clean' => Range(E) \subseteq Range(Chain[local'])
            BY <1>8, <1>9
        <2> QED
            BY <1>1, <2>1, <2>2, <2>3 DEF ApplierOk, E
    <1> QED
        BY <1>11, <1>12, <1>15, <1>16 DEF GroundInv

LEMMA InitGround == Init => GroundInv
    <1> SUFFICES ASSUME Init PROVE GroundInv
        OBVIOUS
    <1>1. LoaderInv
        BY InitLoader
    <1>2. PeersOk /\ RequestsOk /\ RepliesOk
        BY DEF Init, PeersOk, RequestsOk, RepliesOk
    <1>3. ChainsOk
        BY TreeAssumption DEF Init, ChainsOk, NoOutcome
    <1>4. LoaderOk(loader, Ground(applier, local), Clean) /\ ApplierOk(applier, outcome, Range(Chain[local]), Clean)
        BY DEF Init, LoaderOk, ApplierOk
    <1> QED
        BY <1>1, <1>2, <1>3, <1>4 DEF GroundInv

LEMMA NextGround == GroundInv /\ [Next]_vars => GroundInv'
    <1> SUFFICES ASSUME GroundInv, [Next]_vars PROVE GroundInv'
        OBVIOUS
    <1>1. LoaderInv'
        BY NextLoader DEF GroundInv
    <1>2. Clean' => Clean
        BY CleanBefore DEF GroundInv, ChainsOk
    <1>3. ASSUME UNCHANGED <<loader, requests, replies, applierVars, chainVars>>, PeersOk'
          PROVE  GroundInv'
        BY <1>1, <1>3, OthersGround
    <1>4. PeersOk
        BY DEF GroundInv
    <1>5. ASSUME NEW p \in Channels, NEW b \in Blocks, PeerAdvances(p, b) PROVE GroundInv'
        BY <1>3, <1>4, <1>5 DEF PeerAdvances, PeersOk, loaderVars
    <1>6. ASSUME NEW p \in Channels, PeerLeaves(p) PROVE GroundInv'
        BY <1>3, <1>4, <1>6 DEF PeerLeaves, Close, PeersOk, loaderVars
    <1>7. ASSUME NEW p \in Channels, ScoreExpires(p) PROVE GroundInv'
        BY <1>3, <1>4, <1>7 DEF ScoreExpires, PeersOk, peerVars, loaderVars
    <1>8. ASSUME NEW r \in requests, PeerReplies(r) PROVE GroundInv'
        BY <1>1, <1>8, PeerRepliesGround
    <1>9. ASSUME NEW b \in OwnBlocks, LocalAppends(b) PROVE GroundInv'
        BY <1>1, <1>9, LocalAppendsGround
    <1>10. CASE Observe
        BY <1>3, <1>4, <1>10 DEF Observe, SeeLocalScore, SeeRemoteScore, SeeClosed, PeersOk, peerVars, loaderVars
    <1>11. CASE Timeout
        BY <1>3, <1>4, <1>11 DEF Timeout, PeersOk
    <1>12. CASE OnSyncWith
        BY <1>1, <1>12, OnSyncWithGround
    <1>13. ASSUME NEW m \in replies, OnSignatures(m) PROVE GroundInv'
        BY <1>1, <1>2, <1>13, OnSignaturesGround
    <1>14. ASSUME NEW m \in replies, OnBlock(m) PROVE GroundInv'
        BY <1>1, <1>14, OnBlockGround
    <1>15. CASE OnExtensionApplied
        BY <1>1, <1>15, OnExtensionAppliedGround
    <1>16. CASE ProcessFork
        BY <1>1, <1>2, <1>16, ProcessForkGround
    <1>17. CASE UNCHANGED vars
        BY <1>3, <1>4, <1>17 DEF vars, PeersOk, peerVars, loaderVars
    <1> QED
        BY <1>5, <1>6, <1>7, <1>8, <1>9, <1>10, <1>11, <1>12, <1>13, <1>14, <1>15, <1>16, <1>17
        DEF Next, Load

\* Until a bad block is met, or an answer is taken that starts on none of the
\* blocks asked about, no extension is refused: each finds its common parent on
\* the local chain, whatever is mined, received and applied while it is loaded
\* and waits.  Only bad blocks are remembered as invalid.
THEOREM NoValidExtensionRefused == Spec => []ValidNotRefused
    <1>1. GroundInv => ValidNotRefused
        BY DEF GroundInv, ChainsOk, Clean, ValidNotRefused
    <1> QED
        BY <1>1, InitGround, NextGround, PTL DEF Spec
=============================================================================
