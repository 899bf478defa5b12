--------------------------- MODULE ExtensionLoader ---------------------------
(***************************************************************************)
(* RxExtensionLoader: how a node catches up with its peers.  It asks the   *)
(* best peer for the signatures that follow its own, then for the blocks,  *)
(* and hands the extension to the appender; while that one is applied it   *)
(* loads the next, optimistically, into a buffer of one.  Every request    *)
(* runs under a timer that closes the peer.                                *)
(*                                                                         *)
(* Blocks form a tree; a chain is given by its last block, and its score   *)
(* is its length.  Peers answer from the chain they have at that moment.   *)
(***************************************************************************)
EXTENDS ScoreObserver, FiniteSets, SequencesExt

CONSTANTS
    Blocks, Genesis, Parent,
    BadBlocks,        \* blocks that fail validation
    OwnBlocks,        \* blocks that reach the node outside an extension
    MaxChainLength,   \* signatures in a reply, the common one included
    MaxRollback,      \* signatures in a request
    Prompt,           \* do peers answer within the second a score is held back?
    MaxEvents         \* bound on the queue of events

ASSUME TreeAssumption ==
    /\ Genesis \in Blocks \ BadBlocks
    /\ OwnBlocks \subseteq Blocks \ (BadBlocks \cup {Genesis})
    /\ Parent \in [Blocks \ {Genesis} -> Blocks]
    \* Going from parent to parent ends at the genesis block.
    /\ \A S \in SUBSET Blocks : S # {} => \E b \in S : b = Genesis \/ Parent[b] \notin S
    /\ MaxChainLength \in Nat \ {0} /\ MaxRollback \in Nat \ {0}
    /\ NoChannel \notin Channels /\ Prompt \in BOOLEAN

VARIABLES
    head,      \* per peer: the last block of its chain
    open,      \* the channels that are open
    announced, \* per peer: a score on its way to the observer; 0 for none
    closing,   \* per channel: closed and timeout signals on their way
    requests,  \* sent to peers, not yet answered
    replies,   \* sent by peers, not yet handled
    local,     \* the last block of the local chain
    invalid,   \* InvalidBlockStorage
    mistaken,  \* history: was an answer accepted that starts on no block asked about?
    loader,    \* LoaderState
    timer,     \* is the blacklisting of the loader's channel scheduled?
    applier,   \* ApplierState
    toApply,   \* extensions handed over
    outcome    \* the result of the first of toApply, on its way back

peerVars == <<head, open, announced>>
loaderVars == <<loader, timer, requests>>
applierVars == <<applier, toApply, outcome>>
chainVars == <<local, invalid, mistaken>>
vars == <<observerVars, peerVars, closing, replies, loaderVars, applierVars, chainVars>>

Chain[b \in Blocks] == IF b = Genesis THEN <<b>> ELSE Append(Chain[Parent[b]], b)

Score(b) == Len(Chain[b])

OnChain(b, last) == b \in Range(Chain[last])

\* dropWhile, span: what follows the leading elements of s that are in S.
DropWhileIn(s, S) ==
    LET others == {i \in DOMAIN s : s[i] \notin S}
    IN  IF others = {} THEN <<>> ELSE SubSeq(s, Min(others), Len(s))

\* The state of a loader or an applier with nothing to do.
Idle == <<>>
NoBuffer == <<>>
NoOutcome == "none"

CloseSignals(c) == [closing EXCEPT ![c] = @ + IF c \in open THEN 1 ELSE 0]

\* peerDatabase.blacklistAndClose
Close(c) ==
    /\ open' = open \ {c}
    /\ closing' = CloseSignals(c)

----------------------------------------------------------------------------
(* What the peers do. *)

\* A peer's chain grows or is replaced by a better one.  The announcements of a
\* connection are debounced: only the last one counts.
PeerAdvances(p, b) ==
    /\ p \in open
    /\ Score(b) > Score(head[p])
    /\ head' = [head EXCEPT ![p] = b]
    /\ announced' = [announced EXCEPT ![p] = Score(b)]
    /\ UNCHANGED <<observerVars, open, closing, replies, loaderVars, applierVars, chainVars>>

\* The first of the known blocks that is on the peer's chain and those that
\* follow it; without one there is no reply.
SignaturesReply(r) ==
    LET c      == Chain[head[r.channel]]
        common == {i \in DOMAIN r.known : OnChain(r.known[i], head[r.channel])}
        first  == CHOOSE i \in DOMAIN c : c[i] = r.known[Min(common)]
        last   == Min({first + MaxChainLength - 1, Len(c)})
    IN  IF common = {} THEN {}
        ELSE {[channel |-> r.channel, ids |-> SubSeq(c, first, last)]}

BlockReply(r) ==
    IF OnChain(r.id, head[r.channel]) THEN {[channel |-> r.channel, block |-> r.id]} ELSE {}

\* HistoryReplier on GetSignatures and GetBlock.
PeerReplies(r) ==
    /\ r.channel \in open
    /\ requests' = requests \ {r}
    /\ replies' = replies \cup IF "known" \in DOMAIN r THEN SignaturesReply(r) ELSE BlockReply(r)
    /\ UNCHANGED <<observerVars, peerVars, closing, loader, timer, applierVars, chainVars>>

PeerLeaves(p) ==
    /\ p \in open
    /\ Close(p)
    /\ UNCHANGED <<observerVars, head, announced, replies, loaderVars, applierVars, chainVars>>

----------------------------------------------------------------------------
(* The score observer's inputs. *)

SeeLocalScore ==
    /\ Len(events) < MaxEvents
    /\ ObserveLocal(Score(local))
    /\ UNCHANGED <<peerVars, closing, replies, loaderVars, applierVars, chainVars>>

SeeRemoteScore(p) ==
    /\ announced[p] # 0 /\ Len(events) < MaxEvents
    /\ Prompt => \A m \in requests \cup replies : m.channel # p
    /\ ObserveRemote(p, announced[p])
    /\ announced' = [announced EXCEPT ![p] = 0]
    /\ UNCHANGED <<head, open, closing, replies, loaderVars, applierVars, chainVars>>

SeeClosed(c) ==
    /\ closing[c] > 0 /\ Len(events) < MaxEvents
    /\ ObserveClosed(c)
    /\ closing' = [closing EXCEPT ![c] = @ - 1]
    /\ UNCHANGED <<peerVars, replies, loaderVars, applierVars, chainVars>>

ScoreExpires(c) ==
    /\ Expire(c)
    /\ UNCHANGED <<peerVars, closing, replies, loaderVars, applierVars, chainVars>>

----------------------------------------------------------------------------
(* The loader, on a thread of its own. *)

\* The last MaxRollback blocks of the local chain, the newest first.
LastBlockIds ==
    LET c == Reverse(Chain[local])
    IN  SubSeq(c, 1, IF Len(c) < MaxRollback THEN Len(c) ELSE MaxRollback)

\* withLoaderState: the timer of the state that is left is cancelled, that of
\* the new state is already running.
Become(l, sent) ==
    /\ loader' = l
    /\ timer' = (l # Idle)
    /\ requests' = requests \cup sent

Rest == Become(Idle, {})

Request(c, known) ==
    Become([channel |-> c, known |-> known], {[channel |-> c, known |-> known]})

\* syncNext, in the loader state l and the applier state a.
SyncNext(l, a, sync) ==
    IF sync = NoSync THEN Rest
    ELSE IF l # Idle THEN UNCHANGED loaderVars
    ELSE IF a = Idle THEN Request(sync.channel, LastBlockIds)
    ELSE IF a.buffer = NoBuffer THEN Request(sync.channel, Reverse(a.extension))
    ELSE Rest

\* lastSyncWith: set when the event is published, before the loader handles it.
LastSyncWith == lastOut.sync

\* Bug: an event that a channel was closed never disturbs the loader.
OnSyncWith_IgnoreClosed ==
    /\ events # <<>>
    /\ events' = Tail(events)
    /\ LET e == Head(events)
       IN  IF e.sync = NoSync THEN Rest ELSE SyncNext(loader, applier, e.sync)
    /\ UNCHANGED <<scores, localScore, best, lastOut, peerVars, closing, replies, applierVars, chainVars>>

\* onNewSyncWithChannelClosed
OnSyncWith ==
    /\ events # <<>>
    /\ events' = Tail(events)
    /\ LET e == Head(events)
       IN  IF e.sync = NoSync THEN Rest
           ELSE IF e.closed = NoChannel THEN SyncNext(loader, applier, e.sync)
           ELSE IF loader # Idle /\ loader.channel # e.closed THEN UNCHANGED loaderVars
           ELSE SyncNext(Idle, applier, e.sync)
    /\ UNCHANGED <<scores, localScore, best, lastOut, peerVars, closing, replies, applierVars, chainVars>>

Expects(c, what) == loader # Idle /\ loader.channel = c /\ what \in DOMAIN loader

\* Bug: the first unknown signature is skipped with the known ones.
Unknown_SkipsOne(ids, known) ==
    LET unknown == DropWhileIn(ids, Range(known))
    IN  IF unknown = <<>> THEN <<>> ELSE Tail(unknown)

\* The signatures that follow the leading known ones.
Unknown(ids, known) == DropWhileIn(ids, Range(known))

\* onNewSignatures
OnSignatures(m) ==
    /\ "ids" \in DOMAIN m
    /\ replies' = replies \ {m}
    /\ IF ~ Expects(m.channel, "known") THEN UNCHANGED <<open, closing, loaderVars, mistaken>>
       ELSE IF Range(m.ids) \cap invalid # {}
       THEN /\ Close(m.channel) /\ UNCHANGED mistaken
            /\ SyncNext(Idle, applier, LastSyncWith)
       ELSE /\ UNCHANGED <<open, closing>>
            /\ mistaken' = (mistaken \/ Head(m.ids) \notin Range(loader.known))
            /\ LET unknown == Unknown(m.ids, loader.known)
               IN  IF unknown = <<>> THEN Rest
                   ELSE Become([channel |-> m.channel, requested |-> unknown, expected |-> Range(unknown)],
                               {[channel |-> m.channel, id |-> b] : b \in Range(unknown)})
    /\ UNCHANGED <<observerVars, head, announced, applierVars, local, invalid>>

\* Bug: a finished extension goes to the applier whatever it is doing.
ExtensionLoadingFinished_NoBuffer(c, extension) ==
    /\ toApply' = Append(toApply, [channel |-> c, extension |-> extension])
    /\ applier' = [extension |-> extension, buffer |-> NoBuffer]
    /\ SyncNext(Idle, applier', LastSyncWith)

\* extensionLoadingFinished: apply it, keep it in the buffer, or discard it.
ExtensionLoadingFinished(c, extension) ==
    IF applier = Idle
    THEN /\ toApply' = Append(toApply, [channel |-> c, extension |-> extension])
         /\ applier' = [extension |-> extension, buffer |-> NoBuffer]
         /\ SyncNext(Idle, applier', LastSyncWith)
    ELSE /\ Rest
         /\ UNCHANGED toApply
         /\ applier' = IF applier.buffer # NoBuffer THEN applier
                       ELSE [applier EXCEPT !.buffer = [channel |-> c, extension |-> extension]]

\* onBlock.  An unexpected block goes to the block appender: see LocalAppends.
OnBlock(m) ==
    /\ "block" \in DOMAIN m
    /\ replies' = replies \ {m}
    /\ IF ~ Expects(m.channel, "expected") \/ m.block \notin loader.expected
       THEN UNCHANGED <<loaderVars, applier, toApply>>
       ELSE IF loader.expected = {m.block}
       THEN ExtensionLoadingFinished(m.channel, loader.requested)
       ELSE /\ Become([loader EXCEPT !.expected = @ \ {m.block}], {})
            /\ UNCHANGED <<applier, toApply>>
    /\ UNCHANGED <<observerVars, peerVars, closing, outcome, chainVars>>

\* The blacklisting scheduled with the last request.
Timeout ==
    /\ timer
    /\ timer' = FALSE
    /\ open' = open \ {loader.channel}
    /\ closing' = [CloseSignals(loader.channel) EXCEPT ![loader.channel] = @ + 1]
    /\ UNCHANGED <<observerVars, head, announced, replies, loader, requests, applierVars, chainVars>>

\* Bug: after a buffered extension nothing more is asked for.
OnExtensionApplied_StopsThere ==
    /\ outcome # NoOutcome
    /\ outcome' = NoOutcome
    /\ IF applier.buffer = NoBuffer \/ outcome = "failed"
       THEN applier' = Idle /\ toApply' = Tail(toApply)
       ELSE /\ toApply' = Append(Tail(toApply), applier.buffer)
            /\ applier' = [extension |-> applier.buffer.extension, buffer |-> NoBuffer]
    /\ UNCHANGED <<observerVars, peerVars, closing, replies, loaderVars, chainVars>>

\* onExtensionApplied
OnExtensionApplied ==
    /\ outcome # NoOutcome
    /\ outcome' = NoOutcome
    /\ IF applier.buffer = NoBuffer
       THEN /\ applier' = Idle
            /\ toApply' = Tail(toApply)
            /\ UNCHANGED loaderVars
       ELSE /\ IF outcome = "failed"
               THEN applier' = Idle /\ toApply' = Tail(toApply)
               ELSE /\ toApply' = Append(Tail(toApply), applier.buffer)
                    /\ applier' = [extension |-> applier.buffer.extension, buffer |-> NoBuffer]
            /\ SyncNext(loader, applier', LastSyncWith)
    /\ UNCHANGED <<observerVars, peerVars, closing, replies, chainVars>>

----------------------------------------------------------------------------
(* The appender thread. *)

\* ExtensionAppender, as far as the loader can tell: all the new blocks or none.
ProcessFork ==
    /\ toApply # <<>> /\ outcome = NoOutcome
    /\ LET x      == Head(toApply)
           new    == DropWhileIn(x.extension, Range(Chain[local]))
           bad    == {i \in DOMAIN new : new[i] \in BadBlocks}
           fails  == new # <<>> /\ (~ OnChain(Parent[new[1]], local) \/ bad # {})
       IN  /\ outcome' = IF fails THEN "failed" ELSE "done"
           /\ local' = IF fails \/ new = <<>> THEN local ELSE Last(new)
           /\ invalid' = IF fails /\ OnChain(Parent[new[1]], local)
                         THEN invalid \cup {new[Min(bad)]} ELSE invalid
           /\ IF fails THEN Close(x.channel) ELSE UNCHANGED <<open, closing>>
    /\ UNCHANGED <<observerVars, head, announced, replies, loaderVars, applier, toApply, mistaken>>

\* A block that is mined, or received on its own, on top of the local chain.
LocalAppends(b) ==
    /\ b \in OwnBlocks /\ Parent[b] = local
    /\ local' = b
    /\ UNCHANGED <<observerVars, peerVars, closing, replies, loaderVars, applierVars, invalid, mistaken>>

----------------------------------------------------------------------------
Init ==
    /\ ObserverInit(Score(Genesis))
    /\ head \in [Channels -> Blocks]
    /\ open = Channels
    /\ announced = [p \in Channels |-> Score(head[p])]
    /\ closing = [p \in Channels |-> 0]
    /\ requests = {} /\ replies = {}
    /\ local = Genesis
    /\ invalid = {} /\ mistaken = FALSE
    /\ loader = Idle /\ timer = FALSE
    /\ applier = Idle /\ toApply = <<>> /\ outcome = NoOutcome

Observe == SeeLocalScore \/ \E c \in Channels : SeeRemoteScore(c) \/ SeeClosed(c)

Load == OnSyncWith \/ (\E m \in replies : OnSignatures(m) \/ OnBlock(m)) \/ OnExtensionApplied

Next ==
    \/ \E p \in Channels : \/ \E b \in Blocks : PeerAdvances(p, b)
                           \/ PeerLeaves(p) \/ ScoreExpires(p)
    \/ \E r \in requests : PeerReplies(r)
    \/ \E b \in OwnBlocks : LocalAppends(b)
    \/ Observe \/ Load \/ Timeout \/ ProcessFork

\* The threads of the node run on; of the peers nothing is assumed unless they
\* are prompt.
Fairness ==
    /\ WF_vars(SeeLocalScore)
    /\ \A c \in Channels : WF_vars(SeeRemoteScore(c)) /\ WF_vars(SeeClosed(c))
    /\ WF_vars(OnSyncWith) /\ WF_vars(OnExtensionApplied)
    /\ WF_vars(\E m \in replies : OnSignatures(m) \/ OnBlock(m))
    /\ WF_vars(Timeout) /\ WF_vars(ProcessFork)
    /\ WF_vars(Prompt /\ \E r \in requests : PeerReplies(r))

Spec == Init /\ [][Next]_vars /\ Fairness

----------------------------------------------------------------------------
(* Properties. *)

\* What is being applied is what the loader believes to be applied: one
\* extension at a time, and no result comes for another one or for none.  No
\* loaded one is thrown away for want of room: nothing is asked for while one
\* waits in the buffer.
OneAtATime ==
    /\ [i \in DOMAIN toApply |-> toApply[i].extension] = IF applier = Idle THEN <<>> ELSE <<applier.extension>>
    /\ outcome # NoOutcome => toApply # <<>>
    /\ applier # Idle /\ applier.buffer # NoBuffer => loader = Idle

\* No extension is refused until a bad block is met: whatever happens to the
\* local chain while one is loaded, buffered and waiting, it finds its common
\* parent when its turn comes.  Only bad blocks are remembered as invalid.
\* (Once one was refused a valid one can be too: what is being loaded on top of
\* a failed extension is not given up, only what is in the buffer is.  So can
\* one that a late answer names: the loader takes any signatures of the peer it
\* waits for, and those it asked for before a fork switch may start on a block
\* it does not have.)
ValidNotRefused ==
    /\ outcome = "failed" => invalid # {} \/ mistaken
    /\ invalid \subseteq BadBlocks

\* The loader never waits for ever for a peer that does not answer.
LoaderRests == []<>(loader = Idle)

\* With a single peer, once all is quiet the local chain scores at least what
\* the peer's does, or the peer is gone.
CatchesUp == <>[](\A p \in open : Score(head[p]) <= Score(local) \/ scores[p] = 0)
=============================================================================
