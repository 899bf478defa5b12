---------------------------- MODULE ScoreObserver ----------------------------
(***************************************************************************)
(* RxScoreObserver: from the score of the local chain and the scores the   *)
(* peers announce it publishes whom to synchronise with.  Its output goes  *)
(* through distinctUntilChanged and waits in a queue for the extension     *)
(* loader, which runs on another thread.                                   *)
(***************************************************************************)
EXTENDS Naturals, Sequences

CONSTANTS Channels, NoChannel, NoSync

VARIABLES
    scores,      \* the score cache; 0 for a channel that is not in it
    localScore,  \* the local score as last seen
    best,        \* currentBestChannel
    lastOut,     \* the last event published
    events       \* published, not yet seen by the extension loader

observerVars == <<scores, localScore, best, lastOut, events>>

BestScore(ss) == CHOOSE n \in {ss[c] : c \in Channels} : \A c \in Channels : ss[c] <= n

BestChannels(ss) == {c \in Channels : ss[c] = BestScore(ss)}

\* calcSyncWith: the answers it may give, for a map iterated in any order.
SyncWith(current, ls, ss) ==
    IF BestScore(ss) <= ls THEN {NoSync}
    ELSE {[channel |-> c, score |-> ss[c]] :
             c \in IF current \in BestChannels(ss) THEN {current} ELSE BestChannels(ss)}

\* An input has been taken in: the new state is published unless it equals the last.
Publish(closed, current, ls, ss) ==
    \E sw \in SyncWith(current, ls, ss) :
        LET out == [closed |-> closed, sync |-> sw]
        IN  /\ scores' = ss
            /\ localScore' = ls
            /\ best' = IF sw = NoSync THEN NoChannel ELSE sw.channel
            /\ lastOut' = out
            /\ events' = IF out = lastOut THEN events ELSE Append(events, out)

ObserveLocal(score) ==
    /\ score # localScore
    /\ Publish(NoChannel, best, score, scores)

ObserveRemote(c, score) ==
    Publish(NoChannel, best, localScore, [scores EXCEPT ![c] = score])

\* A channel was closed, or the extension loader gave up waiting for it.
ObserveClosed(c) ==
    Publish(c, IF best = c THEN NoChannel ELSE best, localScore, [scores EXCEPT ![c] = 0])

\* scoreTtl has passed since the score was announced; nothing is published.
Expire(c) ==
    /\ scores[c] # 0
    /\ scores' = [scores EXCEPT ![c] = 0]
    /\ UNCHANGED <<localScore, best, lastOut, events>>

ObserverInit(score) ==
    /\ scores = [c \in Channels |-> 0]
    /\ localScore = score
    /\ best = NoChannel
    /\ lastOut = [closed |-> NoChannel, sync |-> NoSync]
    /\ events = <<>>
=============================================================================
