---------------------------- MODULE DevnetChain ----------------------------
(***************************************************************************)
(* The chain of a devnet test and the account that pays for everything on  *)
(* it: FiberTest.setup_method clears the pool, mines and issues UDT; tests *)
(* then transfer and issue more (faucet, generate_account), while the      *)
(* background miner runs and fiber1 funds channels from the same account.  *)
(* Coins are picked from the indexer, which follows the chain with a lag,  *)
(* as does the pool that makes the block templates.                        *)
(***************************************************************************)
EXTENDS Integers, Sequences, SequencesExt, FiniteSets, FiniteSetsExt

CONSTANTS
    Coins,      \* the account's first cells
    MaxTxs,     \* bound: transactions sent
    MaxTests,   \* bound: test methods
    MaxFaucets, \* bound: faucet calls of a test
    MineTries,  \* attempts of miner_with_version to submit a block (10)
    MaxRounds   \* blocks miner_until_tx_committed mines before it gives up (100)

\* A cell: the transaction that made it, its capacity in units of 100 CKB, and
\* whether it has a type script (UDT).
Cell(n, c, t) == [of |-> n, cap |-> c, typed |-> t]

ASSUME ChainAssumption ==
    /\ IsFiniteSet(Coins)
    /\ \A c \in Coins :
          c.of \in Int /\ c.of <= 0 /\ c = Cell(c.of, c.cap, FALSE) /\ c.cap \in Nat \ {0}
    /\ {MaxTxs, MaxTests, MaxFaucets, MineTries, MaxRounds} \subseteq Nat \ {0}

VARIABLES
    txs,       \* the transactions sent, in order
    live,      \* the account's live cells at the tip
    seen,      \* those the indexer reports
    idxFresh,  \* is the indexer at the tip?
    poolFresh, \* is the pool at the tip?
    minerOn,   \* does the background miner run?
    unseen,    \* has it mined since the indexer was last at the tip?
    work,      \* what the test has left to do
    tries, rounds, \* loop counters of miner_with_version, miner_until_tx_committed
    tests, faucets \* methods begun; faucet calls of this one

chainState == <<txs, live, seen, idxFresh, poolFresh, minerOn, unseen>>
testState == <<work, tries, rounds, tests, faucets>>
chainVars == <<chainState, testState>>

Statuses == {"pending", "proposed", "committed", "unknown"}
InPool(tx) == tx.status \in {"pending", "proposed"}
Total(cells) == MapThenSumSet(LAMBDA c : c.cap, cells)

\* The cells the pool has transactions of the given senders for.
Claimed(senders) ==
    UNION {txs[n].ins : n \in {m \in DOMAIN txs : InPool(txs[m]) /\ txs[m].by \in senders}}

-----------------------------------------------------------------------------
(* The node. *)

\* A block commits what was proposed and proposes what is pending.
Block ==
    LET done == {n \in DOMAIN txs : txs[n].status = "proposed"} IN
    /\ txs' = [n \in DOMAIN txs |->
                 CASE n \in done -> [txs[n] EXCEPT !.status = "committed"]
                   [] txs[n].status = "pending" -> [txs[n] EXCEPT !.status = "proposed"]
                   [] OTHER -> txs[n]]
    /\ live' = (live \ UNION {txs[n].ins : n \in done}) \cup UNION {txs[n].outs : n \in done}
    /\ idxFresh' = FALSE /\ poolFresh' = FALSE
    /\ UNCHANGED <<seen, minerOn>>

BackgroundBlock ==
    /\ minerOn
    /\ Block
    /\ unseen' = TRUE
    /\ UNCHANGED testState

IndexerCatchesUp ==
    /\ ~idxFresh
    /\ seen' = live /\ idxFresh' = TRUE /\ unseen' = FALSE
    /\ UNCHANGED <<txs, live, poolFresh, minerOn, testState>>

PoolCatchesUp ==
    /\ ~poolFresh
    /\ poolFresh' = TRUE
    /\ UNCHANGED <<txs, live, seen, idxFresh, minerOn, unseen, testState>>

Tx(who, ins, outs) == [status |-> "pending", by |-> who, ins |-> ins, outs |-> outs]

\* The pool takes a transaction whose inputs are live and not claimed.
Accepts(ins) ==
    /\ ins \subseteq live
    /\ ins \cap Claimed({"test", "fiber"}) = {}

\* fiber1 signs with ACCOUNT_PRIVATE_1 too: its funding spends the same cells.
FiberFunds ==
    /\ minerOn /\ Len(txs) < MaxTxs
    /\ \E c \in seen :
          /\ ~c.typed /\ Accepts({c})
          /\ txs' = Append(txs, Tx("fiber", {c},
                       IF c.cap > 1 THEN {Cell(Len(txs) + 1, c.cap - 1, FALSE)} ELSE {}))
    /\ UNCHANGED <<live, seen, idxFresh, poolFresh, minerOn, unseen, testState>>

-----------------------------------------------------------------------------
(* The test. *)

Enough == 2  \* invoke_ckb_contract stops adding inputs above this
Large == 10  \* more than this is split into a cell of UdtCap and change
UdtCap == 5
UdtSize == 2 \* a cell with a type script takes 142 CKB, one without 61
Gift == 1    \* what faucet transfers, at least

SetupWork == <<"clear">> \o [i \in 1 .. 5 |-> "mine"] \o <<"issue_own", "until", "start_miner">>
FaucetWork == <<"transfer", "until_known", "issue", "until_known">>

Doing(step) == work # <<>> /\ Head(work) = step
Done == work' = Tail(work)
Raise == work' = <<"raised">>

\* clear_tx_pool: transactions the pool forgets are unknown again.
ClearPool ==
    /\ Doing("clear") /\ Done
    /\ txs' = [n \in DOMAIN txs |->
                 IF InPool(txs[n]) THEN [txs[n] EXCEPT !.status = "unknown"] ELSE txs[n]]
    /\ UNCHANGED <<live, seen, idxFresh, poolFresh, minerOn, unseen,
                   tries, rounds, tests, faucets>>

StartMiner ==
    /\ Doing("start_miner") /\ Done
    /\ minerOn' = TRUE
    /\ UNCHANGED <<txs, live, seen, idxFresh, poolFresh, unseen,
                   tries, rounds, tests, faucets>>

\* The block has the parent of its template: if the pool lags behind, not the tip.
ExtendsTip == poolFresh

SubmitBlock ==
    /\ Doing("mine")
    /\ IF ExtendsTip THEN Block ELSE UNCHANGED <<txs, live, seen, idxFresh, poolFresh, minerOn>>
    /\ work' = <<"sync">> \o Tail(work)
    /\ tries' = 0
    /\ UNCHANGED <<unseen, rounds, tests, faucets>>

\* Mutated form: one attempt too many.
SubmitFailsOnceMore ==
    /\ Doing("mine")
    /\ IF tries < MineTries
       THEN tries' = tries + 1 /\ UNCHANGED work
       ELSE tries' = 0 /\ (Raise \/ work' = <<"sync">> \o Tail(work))
    /\ UNCHANGED <<chainState, rounds, tests, faucets>>

\* A failed attempt is repeated; after the last one the call goes on without a
\* block, or raises if it never got a template.
SubmitFails ==
    /\ Doing("mine")
    /\ IF tries + 1 < MineTries
       THEN tries' = tries + 1 /\ UNCHANGED work
       ELSE tries' = 0 /\ (Raise \/ work' = <<"sync">> \o Tail(work))
    /\ UNCHANGED <<chainState, rounds, tests, faucets>>

\* Mutated form: it returns without waiting for the indexer.
SyncPoolOnly ==
    /\ Doing("sync")
    /\ IF poolFresh THEN Done ELSE Raise
    /\ UNCHANGED <<chainState, tries, rounds, tests, faucets>>

\* miner_with_version returns when pool and indexer are at the tip, or times out.
Sync ==
    /\ Doing("sync")
    /\ IF poolFresh /\ idxFresh THEN Done ELSE Raise
    /\ UNCHANGED <<chainState, tries, rounds, tests, faucets>>

\* miner_until_tx_committed, about the transaction sent last.
LastSent == CHOOSE n \in DOMAIN txs :
    /\ txs[n].by = "test"
    /\ \A m \in DOMAIN txs : txs[m].by = "test" => m <= n

SeeStatus(step) ==
    /\ Doing(step)
    /\ LET status == txs[LastSent].status IN
       \/ status = "committed" /\ Done /\ rounds' = 0
       \/ /\ InPool(txs[LastSent]) \/ (status = "unknown" /\ step = "until_known")
          /\ IF rounds < MaxRounds
             THEN work' = <<"mine">> \o work /\ rounds' = rounds + 1
             ELSE Raise /\ rounds' = 0
       \/ status = "unknown" /\ step = "until" /\ Raise /\ rounds' = 0
    /\ UNCHANGED <<chainState, tries, tests, faucets>>

\* Add live cells until there is enough, or all of them.
Picks(ins, candidates, enough) ==
    /\ ins \subseteq candidates /\ ins # {}
    /\ \/ Total(ins) > enough /\ \E last \in ins : Total(ins \ {last}) <= enough
       \/ ins = candidates /\ Total(ins) <= enough

\* The outputs of invoke_ckb_contract; "own": the UDT goes to the account itself.
IssueOutputs(n, total, own) ==
    LET udt == IF total > Large THEN UdtCap ELSE total IN
    (IF own THEN {Cell(n, udt, TRUE)} ELSE {})
    \cup (IF total > Large THEN {Cell(n, total - UdtCap, FALSE)} ELSE {})

\* "fits": are the inputs worth what the transaction has to make of them?  If not
\* ckb-cli does not build it, or the pool does not take it.
Send(ins, outs, fits) ==
    /\ IF fits /\ Accepts(ins)
       THEN txs' = Append(txs, Tx("test", ins, outs)) /\ Done
       ELSE UNCHANGED txs /\ Raise
    /\ UNCHANGED <<live, seen, idxFresh, poolFresh, minerOn, unseen,
                   tries, rounds, tests, faucets>>

\* issue_udt_tx skips cells with a type script.
IssueCandidates == {c \in seen : ~c.typed}

Issue(step) ==
    /\ Doing(step) /\ Len(txs) < MaxTxs
    /\ \E ins \in SUBSET IssueCandidates :
          /\ Picks(ins, IssueCandidates, Enough)
          /\ Send(ins, IssueOutputs(Len(txs) + 1, Total(ins), step = "issue_own"),
                  Total(ins) >= UdtSize)

\* ckb-cli's wallet transfer picks from the indexer, too.
Transfer ==
    /\ Doing("transfer") /\ Len(txs) < MaxTxs
    /\ LET coins == {c \in seen : ~c.typed} IN
       \E ins \in SUBSET coins :
          /\ Picks(ins, coins, Gift)
          /\ Send(ins, {Cell(Len(txs) + 1, Total(ins) - Gift, FALSE)}, Total(ins) > Gift)

\* Nothing to pay with: the assertion on live cells, or ckb-cli, raises.
OutOfCoins ==
    /\ \E step \in {"issue", "issue_own", "transfer"} : Doing(step)
    /\ IssueCandidates = {}
    /\ Raise
    /\ UNCHANGED <<chainState, tries, rounds, tests, faucets>>

\* It transfers if more than 60 CKB are asked for, and issues if it has an owner.
Faucet ==
    /\ work = <<>> /\ tests > 0 /\ faucets < MaxFaucets /\ minerOn
    /\ work' \in {FaucetWork, SubSeq(FaucetWork, 1, 2), SubSeq(FaucetWork, 3, 4)}
    /\ faucets' = faucets + 1
    /\ UNCHANGED <<chainState, tries, rounds, tests>>

\* Whatever the last method left, the next one sets up on the same chain.
BeginTest ==
    /\ work = <<>> \/ Doing("raised")
    /\ tests < MaxTests
    /\ work' = SetupWork
    /\ tests' = tests + 1 /\ faucets' = 0 /\ tries' = 0 /\ rounds' = 0
    /\ UNCHANGED chainState

-----------------------------------------------------------------------------

ChainInit ==
    /\ txs = <<>> /\ live = Coins /\ seen = Coins
    /\ idxFresh = TRUE /\ poolFresh = TRUE /\ minerOn = FALSE /\ unseen = FALSE
    /\ work = <<>> /\ tries = 0 /\ rounds = 0 /\ tests = 0 /\ faucets = 0

ChainNext ==
    \/ BackgroundBlock \/ IndexerCatchesUp \/ PoolCatchesUp \/ FiberFunds
    \/ ClearPool \/ StartMiner \/ SubmitBlock \/ SubmitFails \/ Sync
    \/ SeeStatus("until") \/ SeeStatus("until_known")
    \/ Issue("issue") \/ Issue("issue_own") \/ Transfer \/ OutOfCoins
    \/ Faucet \/ BeginTest

ChainSpec == ChainInit /\ [][ChainNext]_chainVars

-----------------------------------------------------------------------------
(* Properties. *)

Works == Range(SetupWork) \cup Range(FaucetWork) \cup {"sync", "raised"}

ChainTypeOK ==
    /\ \A n \in DOMAIN txs :
          /\ txs[n].status \in Statuses /\ txs[n].by \in {"test", "fiber"}
          /\ \A c \in txs[n].ins \cup txs[n].outs : c.cap \in Nat \ {0} /\ c.typed \in BOOLEAN
    /\ Len(txs) <= MaxTxs
    /\ {idxFresh, poolFresh, minerOn, unseen} \subseteq BOOLEAN
    /\ Range(work) \subseteq Works
    /\ tries \in 0 .. MineTries - 1 /\ rounds \in 0 .. MaxRounds
    /\ tests \in 0 .. MaxTests /\ faucets \in 0 .. MaxFaucets

Picking == \E step \in {"issue", "issue_own", "transfer"} : Doing(step)

\* No cell is spent by two transactions, but for those the pool has forgotten.
SpentOnce ==
    \A m, n \in DOMAIN txs :
        m # n /\ "unknown" \notin {txs[m].status, txs[n].status} => txs[m].ins \cap txs[n].ins = {}

\* Whenever a test picks coins, every cell the indexer offers is live and is not
\* an input of a transaction of an earlier step or method: only the background
\* miner (a block the indexer has not seen) and fiber1's own funding may have
\* taken it.  And no transaction ever spends a UDT cell for its capacity, or a cell
\* that another one spends.
CoinsAreFree ==
    /\ Picking /\ ~unseen => /\ seen = live
                             /\ IssueCandidates \cap Claimed({"test"}) = {}
    /\ \A n \in DOMAIN txs : \A c \in txs[n].ins : ~c.typed
    /\ SpentOnce
=============================================================================
