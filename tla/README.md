# A verification project for tidex6

tidex6 is a payment system with hidden amounts and unlinkable spends. A *note*
is a commitment in a Merkle tree kept by a pool contract or program; whoever
knows its opening spends it with a zero-knowledge proof against a recent root
of the tree and a nullifier that can be used once. Pools exist on EVM chains
(Solidity, and Stylus for Arbitrum) and on Solana, with several generations of
each. Around them are an operator's service that turns public payments into
notes, an indexer, client libraries, MCP servers for agents, and the circuits.

This directory holds TLA+ models of the parts whose state and interleavings
decide whether money is kept, the TLC configurations that check them, and the
TLAPS proofs of what they promise. `PROJECT.json` is the index: components, runs,
mutants, the source lines of each definition, findings, hazards, theorems.

To run a check: `tlc -workers 2 -config HiddenPoolV2.cfg MCHiddenPoolV2.tla`;
to check the proofs: `tlapm HiddenPoolV2Proofs.tla`. A module `X` is checked
through `MCX` with `X.cfg`.

## 1. Inventory

| part | state it keeps | operations | works with |
|---|---|---|---|
| Hidden pool v2, EVM (`contracts/src/Tidex6HiddenPoolV2.sol`) | incremental tree, ring of 30 roots, leaf index, spent nullifiers, token custody | deposit, transferNote, withdraw, refund | circuits `transfer_v2`, `withdraw_v2`; token; relayer |
| Hidden pool v2, Stylus (`stylus/hidden-pool-v2`) | the same | the same, effects in another order | as above |
| Hidden pool v2, Solana (`programs/tidex6-pool-v2`) | pool account per mint, memo accounts, nullifier accounts, vaults | init_pool, publish_owner_key, deposit, append_memo, refund, withdraw, transfer_note | indexer, client `pool_v2` |
| wUSDC pool (`programs/tidex6-wusdc-pool`) | tree, ring, memo accounts with `written_len` | deposit, append_memo, refund, withdraw | the operator's service, which is its depositor |
| Confidential pool v1, verifier pools, hidden pool v1 | earlier generations of the same | | |
| Confidential token and token pool (`contracts/src/Tidex6ConfidentialToken.sol`, `Tidex6TokenPoolV2.sol`) | encrypted balances, pending and available; used proofs; one reserve for both contracts | register, wrap, transfer, applyPending, unwrap, depositToPool, payOut | circuits `token/*`, token pool |
| Reader registry, owner keys | a reader's key, written in chunks and sealed | init, write_chunk, close; publish | senders |
| Operator's service (`crates/tidex6-ct-lab/src/bin/service.rs`) | lock file per payment, envelope copies, payout files; its float of tokens | deposit_browser, withdraw_browser, send_quote, scans, demo operations; one request at a time | wallet of the sender, Solana RPC, wUSDC pool, vault |
| Mover and cashout (`ct.rs`) | payout files, renamed when paid | mover, pay_one, cashout | Token-2022 |
| Gas keeper (`gas.rs`) | none | swap a fee for SOL when gas is low | service |
| Indexer (`crates/tidex6-indexer`) | none on disk; the history it replays | fetch history, rebuild_tree, find_leaf | RPC |
| Client SDK (`crates/tidex6-client`) | daily limit, wallet keys | send, scan, collect, refund; EVM notes | service, relayer, pools |
| MCP servers | sessions, spending limit | tools over the client | client SDK |
| Circuits and ceremony | proving keys, chain of contributions | prove, contribute, verify | pools |
| Core cryptography | none | notes, envelopes, ElGamal, post-quantum keys | all |

**How they interact.** On EVM a sender calls the pool's `deposit` with tokens;
the recipient's wallet downloads the list of leaves from a relayer, rebuilds
the tree, proves, and the relayer submits. All state is the contract's, and
everything a client reads is stale by the time it is used. On Solana the sender
pays the *operator* in the open, with the commitment in the payment's memo, and
asks the service over a socket to make the deposit. The service checks the
payment, moves its own tokens into the confidential vault (`wrap`), files the
commitment, and appends the envelope the recipient needs in chunks. Every step
is a transaction of its own; a lock file per payment is the only memory across
them.

**What is hard.** In the pool: three ways to consume a note that must share
one nullifier; a ring that loses roots while proofs are being made; calls that
file two or three leaves; a full tree; units and rounding that contract and
circuit compute differently. In the client: a list of leaves that came from
somebody else. In the service: retries over steps that cannot be rolled back,
transactions that land after they were given up, a restart anywhere, a disk
that fills, and answers that tell a human whether to pay again. In the payouts:
two records of one payment, a file and the chain. The complete list, with the
line of each, is `hazards` in `PROJECT.json`.

**What makes each part correct.**

- *Pool*: the tokens in custody are those of the unspent notes; a note is
  consumed once, by whichever operation; the ring is the last roots; a leaf is
  filed once; an unspent note can always be proved, in a full tree too; no
  payment escapes the fee. In one sentence: the pool is a shielded ledger.
- *Tree and replica*: the incremental tree has the root of the plain binary
  tree; a client's proof is accepted exactly while every pair it was served is true
  and its root is recent; whatever siblings a prover uses, a path proves one
  position.
- *Service*: one payment wraps money at most once; a lock that allows a repeat
  says the truth; nothing moves on a payment that did not land; every filed note
  is backed by the vault; every filed note that was paid for can be completed;
  "done" means delivered.
- *Solana pool*: the vault of a mint backs its unspent notes, but for what it
  paid in refunds of other mints' notes (finding 4); the memo accounts are a complete list of the leaves; a finished envelope has no hole; a
  refund and a spend exclude each other; the funder can rebuild his refund.
- *Confidential token*: one reserve is what encrypted balances and notes are
  worth together; a proof is carried out once, and only its owner can make it
  stale.
- *Payouts*: the vault covers every wrapped token whatever failed half-way; a
  note is paid to a browser once and by one route, whatever amount is asked for;
  a payout that is set up is closed, if the mover is kept running and the
  operator can pay.
- *Local agent*: payments on record and the one under way stay within the day's
  cap; every call is answered or the process is restarted; the cap bounds what
  really leaves the wallet.
- *Indexer* (planned): the replay ends with the root of the chain, or an error;
  it ends when deposits stop.
- *Registry* (planned): a reader is used only when sealed and as sealed.

## 2. Modules

| module | models | composes |
|---|---|---|
| `ShieldedLedger` | the abstract ledger: notes with values, spent once, backed by custody | - |
| `HiddenPoolV2` | the EVM pool with its circuits, accounts and clock | implements `ShieldedLedger` |
| `HiddenPoolV2Proofs` | theorems about `HiddenPoolV2` | extends it |
| `MerkleReplica` | the incremental tree node by node, the ring, a client with a served list | - |
| `PaymentService` | deposit_browser with the chain, the disk, the sender and restarts | service, wUSDC pool, vault |
| `SolanaPoolV2` | the Solana program with pools of several mints, and the client that writes envelopes | program, paying client, network |
| `PlainToken` | the abstract token: plain balances and notes over one reserve, orders carried out once | - |
| `ConfidentialToken` | the token and its pool, with ciphertexts and proofs in flight | two contracts, circuits, relayers; implements `PlainToken` |
| `ConfidentialTokenProofs`, `SolanaPoolV2Proofs`, `PayoutsProofs`, `MerkleReplicaProofs`, `PaymentServiceProofs`, `LocalAgentProofs` | theorems about the modules of that name | each extends its own |
| `SumTheorems` | sums of a function over a finite set, for the proofs about money | extended by the proofs that add |
| `LocalAgent` | the local MCP server: workers, mutex, budget, hard timeout | handlers, library, wallet, host |
| `Payouts` | withdrawals, payout files, mover, cashout, browser payouts | service, files, token program, vault |
| `MC...` | what TLC needs: model values' sets, symmetry | |

### HiddenPoolV2

`tree` is the record of the contract's tree storage: `leaves` (the events'
leaves by position), `nextLeafIndex`, `rootRingHead`, `rootHistory`,
`positionPlusOne` (`leafPositionPlusOne`). `nullifierSpent` is the mapping,
`tokens` and `custody` are the token balances of accounts and of the pool, `now`
is the block's time. `Deposit`, `TransferNote`, `Withdraw` and `Refund` are the
four functions with every check in place; `Tick` is the clock. `FileNote`,
`MarkLeaf`, `AppendLeaf`, `RoomFor`, `IsKnownRoot`, `FeeFor` carry the names of
the functions they translate. A call that reverts changes nothing and is no step.

A *leaf* is the record of what the commitment commits to (owner, rho, amount,
and the sender and time of a refund), so that Poseidon is injective by
construction. A *root* is the number of leaves under it plus one: the tree only
grows, so this is injective as well; that the stored nodes do compute the root
of those leaves, and that the numbers stand for the hashes, is what `MerkleReplica`
is about (`RingIsHistory`, `NumberingSound` below). What a proof shows is a guard:
`TransferStatement` is the constraint system of `transfer_v2` (conservation,
range of each amount, `fee * 100 >= pay`, floor), `Member` the membership path,
and the nullifier is that of the leaf at its position.

Abstractions: the fourth field of a note's core, `aux`, opaque to the contract
and equal on both sides of every check, is left out; cores are well formed (a
sender who deposits for a malformed core loses only his own money); tokens sent
to the pool without a deposit, and withdrawals whose recipient is the pool
itself, are excluded; the token neither calls back nor charges on transfer.
`MaxTime`, `Capacity`, `InitialBalance`, `DepositAmounts` and `SentAmounts` (what
a forward sends) bound the model;
`FeePercentDivisor` is 100 in the code and small in the runs so that rounding
happens with small amounts. Two rhos matter: with one, a tree holds one fee note
of each amount and a leaf's neighbour has the same nullifier secret.

### MerkleReplica

Nodes are built from leaves by an injective pair; `Zero`, the empty leaf and the
value of an unset slot, is the empty sequence, which is no pair and no commitment.
`Above` are the indices the loops halve from level to level, `Width` the leaves
under a node of a height; both are recursive functions of the level. `PathUp` is
the loop that contract, client and circuit share; `Climb` and `Refill` are it in
`_appendLeaf` (`AppendLeaf`), the same in the Solidity, Stylus and Solana
sources; a batch of two or three leaves is one step, as in a call of the pool
(the Solana function files one leaf, its two callers the batch).
`InOrder`, `RootOfList`, `Siblings`, `RootOfPath` are the client's
`leaves_in_order`, `build_tree`, `MerkleTree::proof` and `verify_proof`.
`Prove(indices)` takes what it is served at some time, *any* leaf values under
indices that count up, true or not, and the tree goes on growing; indices that
do not count up are the client's error and no step. In the run `MaxServed` bounds
the number of pairs. `ServedTruly` says that every pair served is a leaf of the
pool at its index. `SiblingChoices` are the nodes a prover may put beside a path,
for TLC; `ProvesPosition` is what one choice proves, and the theorem takes any
siblings at all.

### PaymentService

The state is the chain (`payment`, `underlying`, `vault`, `wraps`, `filed`,
`memo`, `feeNotes`, and `flights`, the transactions that were sent and not
confirmed), the disk (`lock`, `saved`), the request being served and the last
answer of each client. The service holds a mutex over a request, so at most one
request runs; everything else interleaves with its steps. Each step of a
request that talks to the chain or the disk is an action with its outcomes:
`Confirmed`, `Rejected` and `Unconfirmed` are the three ends of `send_ix`;
`LandsLate` and `Expires` decide the third later; `Restart` ends the request at
any step without an answer. `Marks` is `fs::write` of the lock file, whose error
the code ignores: with `DiskMayFill` the file may be left empty, with
`OpenMayFail` it keeps the stage it had. The copy of the envelope is none, torn or
whole: `Preflight` opens the file, which empties a copy that is there
(`flow.rs:136`, `:456-467`), and `Save` fills it; `SaveFails` and a restart in
between leave it torn. A payment whose lock says it is past the wrap is not let in
again, so its copy is opened once; a demo deposit has no lock, and a repeat of
one empties the copy of a note that may be filed (§5).

Abstractions: all deposits have the same amount and fee; a note is one deposit
request with its commitment, a payment signature names one commitment, and a
client that repeats a request sends the same envelope; the fee's note is one transaction here, its own memo chain has the
same code as the user's; a chain's reorganisation after confirmation is left
out. The gate of the main network and unreadable fields of a request
refuse it before anything happens and are one action, `Refuse`.

### SolanaPoolV2

`tree` is a pool account's list of leaves for each opened mint, `vault` its
token account, `memo` the `MemoRecord` accounts of the program, `nullifiers` the
nullifier accounts, `ownerKey` the published keys. `InitPool`,
`PublishOwnerKey`, `AppendMemo`, `Refund`, `Withdraw` and `TransferNote` are the
instructions; `Pay` is the client's `pay` up to the landing of `handle_deposit`,
with whatever window and randomness it may choose, and with the first piece of
the envelope in the deposit itself or without. A forward may send any amount, 0
too, and pay any fee the circuit accepts (`ForwardProved`), not the least only. What the client still has to
write is `session`, in its order; what it has sent is `wire`, from which a
transaction lands in any order (`AppendMemo`) or is refused or expires (`Drop`).
The wallet waits for a confirmation before the next piece, a browser with a
one-time writer key does not (`SendPiece`); `GiveUp` is an error that returns
from `pay`, or the end of the process, and with it of the only copy.

`Refund` has the pool's mint as an input of its own (`from`), because the
accounts of the instruction tie the vault to the pool and the memo to the leaf,
but the pool not to the memo's mint. What the program says of itself is
`VaultBacksMint`: the vault of a mint holds what the mint's unspent notes are
worth. That is false of the code and is finding 4. `foreign` is a history of what
each vault paid for notes of other mints, and `MintBacked` says that this is the
*only* thing a vault may lack: whatever else is done, by whomever, in whatever
order, each mint is backed on its own.

Abstractions: an envelope has `Pieces` pieces, or `FeePieces` for the treasury's
note, which carries none when it is 0; the ring of roots and the tree's nodes
are `MerkleReplica`'s, and a leaf is filed once, as there; rent, events and the
compute budget are left out.

### ConfidentialToken and PlainToken

A ciphertext is the pair of its openings, amount and blinding (`Cipher`), which
is what the circuits bind both points to; `available` and `pending` are the two
ciphertexts of an account. A *proof* is the record of its public inputs, made at
one time (`Prove`, against the `available` of that time) and used at another, in
any order, twice or never (`Transfer`, `Unwrap`, `DepositToPool`); the constraint
systems are `TransferStatement`, `UnwrapStatement`, `DepositStatement`. `Nonces`
gives several proofs of one statement different bytes, since what the contract
remembers is the bytes (one nonce in the run, any in the theorems). `RequireAvailable`, `ConsumeProof`, `Credit` are
`_requireAvailable`, `_consumeProof`, `_credit`. The pool's `TransferNote`,
`WithdrawToToken` and `Withdraw` call the token's `creditPending` and `payOut`.
Owners, tree, ring and uniqueness of leaves are those of `HiddenPoolV2`; a note
here is its position and amount.

`PlainToken` is what the two contracts promise together, in numbers: `orders`
are the proofs that were made and not yet carried out, `balance` is available
plus pending. `ImplementsPlainToken` maps each call to one step or to a stutter
(`ApplyPending`, `Register`, `SetPool`).

### LocalAgent

A call goes through `phase`: it waits for a worker (`called`), blocks its worker
on the budget's mutex (`lock`) or on the quote (`quote`), then its library work
runs on a thread of its own (`Library`) and the worker is free. `send` is
`Check`, `Quote`, `SendPayment` (the mutex, held for the whole payment, and the
second check), `LibraryQuote`, `PayOperator`, `Deposit` (which records the
payment, at the time it read when it began). `other_send` stands for `evm_send`
and `sol_v2_send` on a mainnet, which check and pay. `Finish` is any tool that
only works. `HardTimeout` is the timer that ends the process: it needs a free
worker to fire, every call is lost, and `budget`, kept in memory, is empty again.
`moved` is what really left the wallet. Within `send`, a payment sent and not
confirmed in time moves money and fails.

### Payouts

`keyFile` and `payout` are the files of a note's fresh recipient, `configured`
the accounts, `spent` the pool's nullifiers. `op` is the operation the service
is in, with its stage: `Withdraw`, `WithdrawSend`, `WithdrawFile` are the steps
of `flow::withdraw`; `Configure` and `Mover` start a run of the mover over the
open files in the directory's order; `MoverPay`, `MoverClose`, `MoverMark`,
`MoverSkip`, `MoverEnd` go through it; `Cashout...` and `WithdrawBrowser`,
`BrowserBurn`, `BrowserRelease` are the two ways to underlying tokens. `Stop` is an
error that ends the operation, or the end of the process, between any two
steps; `MoverFault` is a payout that was made and stays open.

Abstractions: notes of one amount; the gate of the main network refuses before
anything happens; the service's own operations only, one at a time: the mover's
command line, which takes no lock against the service, is left out. A
browser's request names an amount of its own, which the code pays without
comparing it with the note's (`service.rs:824`, `:850`): `Asked` are the amounts,
less and more than the note's among them, and `paid` counts the payouts a note
had.

## 3. Runs

| run | bounds | what it shows |
|---|---|---|
| `pool_v2` | 1 account with 16 tokens, 2 rhos (symmetric), 1 owner and the treasury, tree of 7, ring of 3, deposits of 5, forwards of 0, 1 or 3, fee 1/2 with floor 1, 2 base units to a unit, one tick | every order of the four operations, with rhos that are fresh and rhos that are used again; trees of 0, 2, 4, 5 and 7 leaves, so one with room for two leaves and not for three, and a full one; a ring that turns over by calls of both batch sizes; a percentage fee that the floor does not hide |
| `merkle_replica` | depth 3, ring of 4, two leaf values, any list of up to 3 pairs of index and leaf | every left and right turn of three levels, full tree, turnover; lists that are true, short, wrong, repeated or out of order; equal leaves at different positions |
| `payment_service` | 2 payments and a demo deposit, envelope of 2 chunks, fee collector, disk that fills, lock files that open | retries, late transactions and restarts of two payments against one float; the fee as treasury, as a note, as gas |
| `payment_no_means_no` | 1 payment, sound disk | finding 1 |
| `payment_unused_replay` | 1 payment, sound disk | finding 2 |
| `solana_pool_v2` | 2 mints, 1 wallet, amount 3, tree of 5, 5 notes in all, 2 pieces per envelope and none for the fee's, 1 tick | deposits, forwards, withdrawals and refunds across two pools with the pieces of two envelopes on the way |
| `solana_refund` | 1 mint, 2 pieces, 1 for the fee's | finding 3 |
| `solana_mints` | as `solana_pool_v2` | finding 4 |
| `confidential_token` | 2 owners, 2 tokens, 2 proofs, 5 notes | late, repeated and conflicting proofs while balances change; notes of notes; both ways out of the pool |
| `local_agent` | 3 calls, 2 workers, a day of 2 ticks, cap 2, 2 ticks | three sends that compete for the cap and the mutex, work that hangs while every worker is blocked, restarts |
| `local_agent_budget` | amounts 1 and 2, cap 3 | finding 5 |
| `payouts` | 2 notes of 1, a float of 2, browsers that ask for 0, 1 or 2, 2 faults of the mover | every order of the operations of two notes, each stopped anywhere |

**Properties.** `pool_v2`: `TypeOK`; `Solvent` (custody covers the unspent
notes, through the ledger's `Backed`); `NullifiersNameNotes` (a spent nullifier
is that of a note at its position); `RingHoldsRecentRoots`; `IndexMatchesTree`
(index and tree are inverse); `NotesStayReachable` (every note has a known root
over it); `ImplementsLedger` (refinement); `EveryPaymentPaysFee` (action
property). `merkle_replica`: `RingHoldsReferenceRoots` (the incremental roots
are those of the plain tree), `ProofGoodWhileRecent` (accepted if and only if
every pair served was true and the root is still in the ring),
`PathProvesPosition` (a path under the root proves the leaf at its position, with
any nodes of the tree as siblings). `payment_service`: `RetryOnlyBeforeMoney`,
`OneWrapPerPayment`, `MovedIsPaid`, `Backed`, `EnvelopeKept` (of a paid note in the tree, the chunks on chain or the copy
make the envelope), `DoneIsDelivered`.
`solana_pool_v2`: `LeafListComplete` (the memo accounts are the list of leaves,
without a gap), `MintBacked`, `EnvelopeWhole` (finished means every piece).
`confidential_token`: `ImplementsPlainToken` (refinement), `Backed` (the reserve
is exactly balances plus notes), `OnlyOwnerMovesAvailable` (what others send
leaves a proof in flight usable). `local_agent`: `RecordedWithinCap` (records and
the payment under way, in every sliding day), `Answered` (liveness). `payouts`:
`VaultCoversSupply`, `PaidByOneRoute` (a note is paid to a browser at most once, and
then by no other route), `PayoutClosed` (liveness). Each module has
a `TypeOK`.
Each property has a mutant of the code that breaks it, in `PROJECT.json`.

**Why the bounds are enough.** What the pool's properties depend on is the
position of a leaf modulo the ring, the difference between two and three free
places, and whether fee and amount round; a ring of 3 in a tree of 7 meets each
of these. A forward of a forwarded note's change needs eight leaves and more and
does not happen in TLC's run: that chains of forwards keep the properties rests on
the theorems below, which remove the bounds for all properties but the two of
liveness. Depth 3 has each combination of turns on
consecutive levels and a complete tree; lists of three pairs have two leaves to
swap, to repeat or to replace beside the one that is proved. Two payments are what the service's
actions can relate, since a request touches one lock and the common float; a
third would only repeat the second. In `SolanaPoolV2` two mints are what a refund
can confuse, two pieces what an order can swap, and five notes hold a payment
with its fee and a forward of it; a tree of that size also refuses the third
leaf of a forward. Two proofs are the least that can make each other stale, and
equal ciphertexts come back within two tokens. Two workers are the code's
number, and a third call is the one that finds both blocked. In `Payouts` a
second note is what a payout file or a browser can be confused with, and an
amount above the note's is what can drain the operator: then the hypothesis of the
liveness fails, and the safety properties must hold all the same.

**Deadlock.** `HiddenPoolV2`, `MerkleReplica` and `SolanaPoolV2` stop when the
tree, the notes and the time are used up, so the check is off there; it is on
for all others.

**Fairness.** Most properties are safety properties and assume none; nothing
obliges a client to repeat a request, and no part of the deposit service retries
by itself. Two modules have liveness:

- `LocalAgent`: weak fairness of each call's steps that the code bounds by a
  timeout of its own (HTTP and RPC clients, a thread that is scheduled), and of
  its timer, which fires when it is due *and* a worker is free. Library work
  that only computes (`Finish`) and the failing lookup are under no fairness: it
  may hang, and `Answered` must then come from the timer. A payment, which holds
  the budget's mutex, is taken to end: the code bounds it by the life of a
  blockhash and has no timeout of its own there. One that hangs for ever, with
  both workers on the mutex, is not covered. A mutex is not fair in
  general; with finitely many calls, each made once, weak fairness is enough.
- `Payouts`: weak fairness of `Progress` (an operation ends, by its own step or
  with the process) and strong fairness of `MoverPay` of each note: what a node
  refuses now it does not refuse for ever. There is no fairness of `Mover`: the
  code runs it after `configure` and on request, without a timer
  (`service.rs:301-302`), and nothing obliges anyone to ask. So `PayoutClosed` has
  that as a hypothesis, `MoverKeptRunning`: runs get past the scan again and
  again, and from some time on the operator has the tokens for a payout, which
  browsers and repeated payouts may take from him. What it does say is that then
  no payout is left behind, by whatever failed of it or of another in a run.
  `MaxFaults` bounds the failures after a payment was made.

## 4. Proofs

`HiddenPoolV2Proofs` proves, for every value of the constants that satisfies
`PoolAssumption`:

- `Invariance`: `Spec => []IInv`, where `IInv` is `TypeOK` and
  `RingHoldsRecentRoots` and `IndexMatchesTree` and `NullifiersNameNotes`;
- `TypeCorrect`, `RingCorrect`, `IndexCorrect`, `NullifierCorrect`: the four
  conjuncts;
- `Reachability`: `Spec => []NotesStayReachable`;
- `FeeCorrect`: `Spec => EveryPaymentPaysFee`;
- `LedgerRefinement`: `Spec => ImplementsLedger`, the pool implements
  `ShieldedLedger`.

*The argument.* None of the four conjuncts is inductive alone. The ring needs
the head in range and as many roots as leaves, which are types; the index needs
the domain of the leaves; the nullifiers need that the tree only grows and that
the index tells the true position of a leaf that is refunded. The proof goes
through one fact about filing, `FileNoteGood`: filing a note that is not in a
good tree (typed, ring, index) gives a good tree. A deposit files two notes and
a transfer three; the contract marks all leaves before it appends any, and
`MarkAppendCommute` shows that this is the same as filing one after the other.
`RingStep` is the arithmetic of the ring: the new head has age zero and every
other slot ages by one. `Reachability` follows from the ring, whose newest root
lies over every leaf. `FeeCorrect` rests on `CeilingDivision`, that the
contract's division is the least fee the circuit's inequality accepts
(`FeeForIsLeast`). For the refinement, a step that files maps to the ledger's
filing step (`GrowthFiles`), a step that spends adds exactly one number to the
ledger's `spent` (`SpentAfterGrowth`, `RefundSpendsNote`), and a tick stutters.

*Assumptions* of these theorems. `PoolAssumption` only: the treasury is an owner, the value that
stands for "no funder" is no account, the sizes and amounts are natural numbers,
and the ring, the scale, the divisor of the fee and the least refund window are
not zero, as the contract's constants and constructor have them; besides, the
injectivity built into leaves and roots.

`ConfidentialTokenProofs` proves, from `TokenAssumption`:

- `Invariance`: `Spec => []IInv`, `IInv` being `TypeOK` and `ProofsGood`;
- `TypeCorrect`; `PlainRefinement`: `Spec => ImplementsPlainToken`;
  `OwnerMovesAvailable`: `Spec => OnlyOwnerMovesAvailable`.

*The argument.* A proof outlives the balance it was made for, so that a debit
leaves no balance negative cannot be read off the call that makes it:
`ProofsGood` says that every proof ever made has a statement that is true of the
ciphertext it names, and the contract's comparison with `available` does the
rest (`Covered`). In the refinement, `OrderCloses` is the point where a proof that
was used once is no order any more, even when its ciphertext comes back.
`SpendDisturbsItsOwn` is the step of `OwnerMovesAvailable`.

`SolanaPoolV2Proofs` proves, from the module's `PoolAssumption`: `Invariance`;
`TypeCorrect`; `ListCorrect`: `Spec => []LeafListComplete`; `EnvelopeCorrect`:
`Spec => []EnvelopeWhole`.

*The argument.* `Filing` is the fact about a call that files leaves: the accounts
are new to the whole program and to each other, so each leaf gets the account
made for it (`OwnMemo`), and list and tree grow by the same positions. That
nothing ever closes an account is what keeps the list complete afterwards.
`PrefixesGood` strengthens `EnvelopeWhole`: what is written of an envelope is a
prefix, and it is finished exactly when the prefix is the whole; a piece is
accepted only where the last one ended (`AppendGood`).

`PayoutsProofs` proves, from `PayoutAssumption`: `Invariance`; `TypeCorrect`;
`RouteCorrect`: `Spec => []PaidByOneRoute`.

`PaidByOneRoute` counts payouts, since the amount is whatever the request said; it
holds for every set `Asked` of amounts. *The argument.* While an operation runs,
what it did to a note is known to the operation alone; when it stops, only the files and the chain are left.
`OneRoute` says that a note is in the pool, or held by the running operation, or
has a payout file, or was paid to a browser, and never two of these; a note
that was held when the operation stopped stays spent and is in none of them.
`QueueWritten` keeps a run of the mover within files that were written.

`MerkleReplicaProofs` proves, from `TreeAssumption`, for every depth, every size
of the ring and every set of commitments: `TypeCorrect`; `RingIsHistory`:
`Spec => []RingHoldsReferenceRoots`; `ProofsAccepted`:
`Spec => []ProofGoodWhileRecent`, with any leaf values under any indices that
count up; `PositionProved`: `Spec => [](\A siblings : ProvesPosition(siblings))`,
with siblings that need not be nodes of any tree;
`RootTellsList`, that two lists with one root are the same list; and
`NumberingSound`, that a slot of the ring holds the root over n leaves exactly when
`HiddenPoolV2` would have the number of n there.

*The argument.* The invariant is about what is stored: `FilledGood` says that at
every level where the next leaf's node is a right child, the stored node is its
left neighbour in the tree over all leaves (`TreeOver`); the other stored nodes
are old and are never read. From that a climb computes exactly the nodes of the
new tree above the leaf (`ClimbNode`), because a leaf changes nothing to its left
(`SameLeft`) and everything to its right is empty (`EmptyRight`), and what the climb
stores is what the next one needs (`RefillGood`). `RingStep` ages the ring by a leaf.
The client replays the same loop (`RootOfListGood`), and its own nodes, siblings
and path are those of the tree over its list (`NodesGood`, `SiblingGood`,
`PathGood`). The converse directions go down from the root: equal roots have
equal nodes at every level and so equal leaves (`RootTellsList`), and a path
under a root passes the nodes over the position it claims (`PathTells`).

`PaymentServiceProofs` proves, from `ServiceAssumption` and, but for `TypeCorrect`,
the hypothesis `~OpenMayFail` (each lock file opens; without it two of the
properties are false, see §5), all the safety properties of `payment_service`:
`TypeCorrect`, `RetryIsSafe`, `WrappedOnce`, `MovedOnlyIfPaid`,
`EnvelopeNeverLost`, `DoneMeansDelivered`, `TreeBacked`.

*The argument.* Nothing but the lock file and the envelope survives a restart, and
either may be empty or missing, so no property can be read off the lock alone.
`Course` is what the chain, the lock, the running request and the transactions
still on their way say together about one note: `LockFits` (what the lock says at
each step), `Untouched` (a lock that lets a request through, and a request before
its transfer, find nothing moved), `WrapOnce` (wrapped at most once, and a
transfer that may still land is the only one and finds the payment not wrapped),
`PaidFor`, `Fresh` (while the copy is being opened and written nothing of the note is filed or
on its way, so emptying it loses nothing) and `EnvelopeGood` (the memo account and
the saved copy make the envelope together). A step concerns one note and leaves the others' course alone.
`TreeBacked` is not inductive on the notes in the tree: the money of a note is in
the vault before the note is, so `Covered` counts every note that is filed or
could be filed without another transfer (`Entitled`, `FeeEntitled`). In writing this down,
one bound of `TypeOK` turned out to be too small: a transaction's size was said to
be at most an amount and a fee, which an envelope of more pieces than that exceeds.

`LocalAgentProofs` proves, from `AgentAssumption`, `TypeCorrect` and `CapHolds`:
`Spec => []RecordedWithinCap`. *The argument.* `MutexGood`: the lock is held by
exactly the call that is between its check and its record, and that call began
before now. So the check that let it pass still speaks of the same record when the
record is written, and no entry is younger than it: what it saw in its own day
bounds every day that contains its entry.

**Sums.** `PoolSolvent` (`Spec => []Solvent`), `ReserveBacksAll`
(`Spec => []Backed`, of the confidential token), `MintBacking`
(`Spec => []MintBacked`) and `SupplyCovered` (`Spec => []VaultCoversSupply`) are
about sums over notes, owners, mints and recipients, as is the cap of
`LocalAgent`. `SumTheorems` proves what they need: adding, removing and updating an
element, and that a part is worth no more than the whole. The first two follow
from the refinements, since every step of the abstract ledger or token keeps its
books; `MintBacking` needs, for each mint by itself, that a note's worth does not change
once it is filed and that a payment for a note of another mint is counted in
`foreign`;
`SupplyCovered` that a burn comes before its release, while the operation that burnt is
the only one that may release.

**Induction.** The library's induction theorems have the formula as an operator
parameter, which the installed provers do not instantiate. Both kinds used here
avoid it by speaking of a set: a sum is the entry of a table, and of the finite
sets where two tables disagree there is a smallest (`Smallest`); a fact about
the levels of the tree is the set of the levels where it holds, which contains 0
and with each level the next (`Climbing`). That a recursive function satisfies its
equation is such a fact as well, one lemma for each function (`AboveIs`, `TreeIs`, ...).
`2^l` is not used in the models that are proved about: the provers know no
exponent that is not a number.

*Assumptions* of all these theorems are the `ASSUME`s of the modules: that sizes are
natural numbers and the sets that are summed over (owners, mints, notes, payments)
are finite, as the accounts of a chain and the requests of a service are; that values which
stand for "none" are no members; and that hashing is injective, by construction.

*Only model-checked.* `Answered` and `PayoutClosed` are liveness under fairness,
which needs ENABLED. The properties of the five runs that expect a violation are
false of the code.

## 5. Findings

1. **A refusal that costs nothing, after the money has moved**
   (`payment_no_means_no`, `NoMeansRetrySafe`). `preflight_operator_sol` is
   described as running before the first transaction, when nothing has moved and a
   repeat is safe, and answers `FundsMoved::No` (`flow.rs:167-169`, `:202`). It
   is the first line of `flow::deposit_browser`, which the service calls after
   `ct::wrap` has moved the payment into the vault and the lock says `wrapped`
   (`service.rs:614-624`). The repeat it recommends is refused.
2. **A payment of which nothing was used, refused as a replay**
   (`payment_unused_replay`, `UnusedIsNotReplay`). The lock is created empty
   and first written after the payment has been verified over RPC
   (`service.rs:501`, `:546`). A restart between the two leaves an empty file,
   which is read as `done`. The comment promises the retry for exactly this case
   (`service.rs:494-495`).
3. **A refund that cannot be rebuilt** (`solana_refund`, `FunderCanRecover`). The
   client's module promises that a funder takes an uncollected payment back
   after its window, from the chain (`pool_v2.rs:3`, `:9-10`). `pay` sends the
   deposit, then the pieces of the envelope from memory (`:419-421`, `:451-462`);
   if one fails, no later call writes the rest, and `my_refunds` skips a memo
   that is not finished (`:865`).
4. **A refund out of another mint's vault** (`solana_mints`, `VaultBacksMint`). The
   program files each leaf from the amount it received, and "a note cannot claim
   more than was paid into it" (`programs/tidex6-pool-v2/src/pool.rs:5-8`).
   `handle_refund` (`:405-439`) checks leaf, window and nullifier and never compares
   the memo's mint with the pool it pays from; the accounts of `Refund` tie pool,
   mint and vault to each other only (`lib.rs:288-319`). A note of one mint that is
   taken back from the other's pool leaves that vault with less than its own
   unspent notes are worth. `MintBacked` shows that nothing else does.
5. **A cap that two of three tools do not count for** (`local_agent_budget`,
   `BudgetHolds`). `per_day` is the most per day, in sum (`limits.rs:56`). On a
   mainnet `evm_send` and `sol_v2_send` check it and record nothing
   (`handler.rs:790-870`, `:1166-1237`).

   The trace is of checks that record nothing. A payment of `send` that left the
   wallet and failed before its record breaks the same property in the same way;
   TLC reports the shorter one.

More observations, which no line of the repository contradicts and which are kept
in the models as they are:

- A payout that was made and not marked is made again by the next run of the
  mover; one whose file was torn stops the runs for the other notes too.
- A browser's payout is of the amount its request names, compared with nothing but
  what operator and vault hold (`service.rs:824`, `:850`). `Payouts` pays `Asked`,
  and no property bounds what a note is paid; only how often.
- A stage of the lock is meant to be written before what it announces
  (`service.rs:608-614`), but the error of `fs::write` is dropped. When the file is
  cut short the lock is empty and refuses; when it does not even *open* the lock
  keeps `verified` and lets the payment in again. With `OpenMayFail` TRUE and one
  payment TLC finds `RetryOnlyBeforeMoney`, `OneWrapPerPayment` and `EnvelopeKept`
  violated, while `MovedIsPaid`, `Backed` and `DoneIsDelivered` hold.
- A demo deposit has no lock. Repeated for a note whose envelope is unfinished, it
  empties the only copy (`flow.rs:136`) before it writes it again; if the write
  fails, the note cannot be completed. `EnvelopeKept` is therefore about payments.

## 6. Plan

What is left, the most important first:

1. `Reentrancy`: a token that calls back, against the order of effects of the
   Solidity and the Stylus pool v2.
2. `send_payment` composed with `PaymentService`: a second payment for the same
   deposit after a payment that seemed lost; the asset setting shared by requests.
3. `Indexer`: history in pages while deposits land, skipped transactions, the
   replay; liveness under fairness of the RPC.
4. `Registry`: reader records written in chunks, sealed, rewritten while a sender
   reads them; refund and finalization of verifier-v2.
5. The ceremony's chain of contributions; the mover's command line beside the
   service.

Theorems planned: that a browser's payout and a payment are each exactly-once
operations of an abstract account, as refinements of `Payouts` and
`PaymentService`.

## 7. Not modelled

Numeric and cryptographic code without state (constraint systems, Poseidon,
BabyJubjub, Groth16 verifiers, ElGamal, envelopes, post-quantum keys): a model
at a size TLC can enumerate would say nothing about the real fields. Generated
verifier contracts. Command lines, notifications, layout, WASM bindings, day-1
spikes and the Aleo demonstration: I/O over the modelled parts, or not part of
the running system. Pools of earlier generations are superseded by the ones
modelled; `components` in `PROJECT.json` says for each what differs.

The hosted MCP server prepares links and holds no key and no budget; tools that
only read are one action of `LocalAgent`. Within the modelled parts the
following is left out because no property depends on it: events, envelopes'
contents, the counter of pending credits, rent and gas. Measured in lines, most
of the implementation is of the kinds above: constants and arithmetic of the
curves and hashes, constraint systems, encodings, generated verifiers, several
generations of the same pool in three languages, and user interfaces.
