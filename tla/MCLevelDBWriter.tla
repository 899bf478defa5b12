--------------------------- MODULE MCLevelDBWriter ---------------------------
(***************************************************************************)
(* Small instances of LevelDBWriter: accounts alice and bob, a subject (an *)
(* asset, a lease, an order) the transactions are about, and an asset      *)
(* issued with a script.  A behaviour has one focus: some of the shapes of *)
(* transactions, the readers that can see them, a miner and a height up to *)
(* which blocks are appended.                                              *)
(***************************************************************************)
EXTENDS LevelDBWriter

CONSTANTS
    alice, bob, thing, smart,
    Focuses,            \* what the behaviours may focus on
    MaxLeft             \* bound on a history with heights no rollback removes

VARIABLE focus

Tx(type)    == [type |-> type, sender |-> alice, recipient |-> bob, subject |-> thing]
Smart(type) == [Tx(type) EXCEPT !.subject = smart]

\* Balances change at different heights, and long enough to be pruned: a
\* transfer changes bob's balance, a lease only what is leased to him.
Balances == [txs |-> {Tx("transfer"), Tx("lease")}, readers |-> {},
             miner |-> alice, top |-> 7]
Holdings == [txs |-> {NoTx, Tx("transfer"), Tx("lease")},
             readers |-> {<<"portfolio", bob>>},
             miner |-> alice, top |-> 3]
Accounts == [txs |-> {NoTx, Tx("data"), Tx("setScript"), Tx("dropScript")},
             readers |-> {<<"script", alice>>}, miner |-> bob, top |-> 4]
Assets   == [txs |-> {NoTx, Tx("issue"), Tx("reissue"), Tx("sponsor"), Tx("assetTransfer"),
                      Tx("exchange")},
             readers |-> {<<"asset", alice>>, <<"description", thing>>},
             miner |-> bob, top |-> 4]
Scripts  == [txs |-> {NoTx, Smart("issueScripted"), Smart("setAssetScript"), Tx("invoke")},
             readers |-> {<<"description", smart>>, <<"assetScript", smart>>},
             miner |-> bob, top |-> 3]
Invocations == [txs |-> {NoTx, Tx("invoke")}, readers |-> {}, miner |-> alice, top |-> 3]

AllFocuses      == {Balances, Holdings, Accounts, Assets, Scripts}
InvocationsOnly == {Invocations}

AllShapes  == UNION {f.txs : f \in Focuses} \ {NoTx}
AllReaders == UNION {f.readers : f \in Focuses}

MCInit == Init /\ focus \in Focuses
Grow ==
    \E tx \in focus.txs, v \in Values :
        /\ height < focus.top
        /\ \A k \in left : Len(history[k]) <= MaxLeft
        /\ Append1(tx, focus.miner, v)
MCNext ==
    \/ Grow /\ UNCHANGED focus
    \/ Append2 /\ UNCHANGED focus
    \/ \E target \in Heights : Begin(target) /\ UNCHANGED focus
    \/ DiscardLeases /\ UNCHANGED focus
    \/ RollbackBatch /\ UNCHANGED focus
    \/ DiscardRest /\ UNCHANGED focus
    \/ \E k \in focus.readers : LoadBegin(k) /\ UNCHANGED focus
    \/ \E k \in focus.readers : LoadEnd(k) /\ UNCHANGED focus
    \/ Crash /\ UNCHANGED focus
MCSpec == MCInit /\ [][MCNext]_<<vars, focus>>
=============================================================================
