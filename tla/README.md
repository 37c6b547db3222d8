# TLA+ verification of cloakkchain

cloakkchain is a ledger of private coins on a public board. A *spend* is a
Groth16 proof that a transaction consumes coins of its prover and conserves
their value; the transaction is encrypted for its recipients and posted as a
board entry. A wallet scans every entry, decrypts those addressed to it, and
proves one *receipt* per coin it finds: that the entry is on the board, that its
spend proof is good, and that it was not itself a double spend. The receipt is
the provenance of the coin when it is spent in turn. Double spends are caught by
*nullifiers*, collected in an indexed Merkle tree.

This directory holds TLA+ models of that code, TLC configurations that check
them on small instances, and TLAPS proofs of what matters most for every size.
`PROJECT.json` lists the runs, the source lines each definition stands for, the
hazards, and for every property a mutated definition that breaks it.

    tlc -config Ledger.cfg MCLedger        # model-check one run
    tlapm LedgerProofs.tla                 # check the proofs of a module

## 1. Inventory

Paths are relative to the repository; `lib.rs` is `lib/src/lib.rs` and `main.rs`
is `script/src/bin/main.rs`.

| Component | State | Operations | Module |
|---|---|---|---|
| Board tree (`lib.rs` 276-419) | `Vec<BoardEntry>`; fixed-depth Merkle tree over it, recomputed | `merkle_leaf`, `merkle_path_for_index`, `append_proof_for`, `append_path_for_next`, `merkle_root_of`, `merkle_verify` | `Merkle`, `BoardPaths`, `BoardTree` |
| Nullifier accumulator (`lib.rs` 421-619) | `leaves`, `index_of`, `nodes` of `NullifierTree` | `new`, `insert`, `prove_non_membership`, `verify_nonmembership`, `root` | `Merkle`, `IndexedTree`, `NullifierTree`, `NullifierSet` |
| Spend and receipt relations (`lib.rs` 621-926) | none; predicates over witnesses | `check_spend`, `check_coin_receipt` | `Guests` in full; `Ledger`, `CoinBook` |
| Encryption (`lib.rs` 102-274) | none; keys derived per transaction | `encrypt_tx`, `scan_entry`, `recover_session_key`, `build_note_enc`, `decrypt_note` | `NoteCipher`, `Notes` |
| Wallet (`main.rs` 85-240) | `coins`: a receipt per commitment | `process_slot`, `bootstrap`, `run_coin_receipt` | `Driver`, `Ledger`, `Notes` |
| Host driver (`main.rs` 675-1003) | `entries`, `nullifier_tree`, three wallets | `--prove`: make, prove, verify, push, scan, insert; `--execute`; two benches | `Driver`, `Ledger` |
| Proving subprocess (`main.rs` 380-576) | two files per program in the temporary directory; a child process | `prove_subprocess`, `run_internal_prove` | `ProveSubprocess` |
| Guest programs (`program-*/src/main.rs`) | input stream, committed values, exit code | read, relation, deferred verification, commit | `Guests` |
| Groth16 adapter (`groth16-verifier`) | none | `verify_sp1_spend_proof`, VK padding, hex | `Groth16Adapter` |
| snark-bn254-verifier, Groth16 (vendored) | none | key and proof parsing, input combination, pairing equation | `Groth16Adapter` |
| snark-bn254-verifier, PLONK (vendored) | `Transcript` | PLONK verification, KZG, challenges | none: no program calls it |
| substrate-bn (vendored) | none | 256-bit arithmetic, Fq to Fq12, curve groups, pairing | `Groth16Adapter` (what it relies on) |
| `vkey`, `build.rs`, mnt-test | none | print a hash, build, verify one MNT4-753 Groth16 proof | none: no logic of their own |

How they interact. `main` builds a transaction (`make_tx`), takes the append
path of the next slot from the board and a non-membership witness from the
accumulator, and has a child process prove the spend. It checks the proof and
the root it commits to, pushes the encrypted entry, calls `process_slot` of every
wallet, and only then inserts the entry's nullifier: a wallet's receipt for a
coin needs the accumulator *before* the slot the coin came in. A receipt takes
two more child processes, one that checks the spend proof inside the recursive
prover and one for the receipt relation.

What is hard about it:

- **Stale views.** A witness, an anchor or a receipt is made against one state
  of the board and used against a later one. Proving takes minutes. Nothing in
  the board's code rejects an entry, so spends proved from stale views land and
  must be harmless.
- **Order.** Nullifier after wallets; low leaf before new leaf; both Merkle
  updates of an insertion through one cache.
- **Partial failure.** A receipt that does not hold panics its host
  (`main.rs:217`); a halted guest leaves a proof with exit code 1; a child can die, or be interrupted with files half written.
- **Boundaries.** Boards whose length is no power of two, a full accumulator,
  u64 sums, strict comparisons with sentinels.
- **Shared files.** The child's files carry the program's name and nothing else.
- **Conventions.** Items of a guest's input are matched by order, verification keys
  and public values by whoever compares them, bytes of a key by offsets that two
  crates compute differently; a guest that panics is proved all the same.

What makes each part correct:

- board tree: any way of computing the root gives the root of the full tree; the
  anchor of a spend is the root before its entry and the same path opens the entry
  after it; an inclusion proof opens to nothing but what was posted;
- accumulator: it is a set, for fresh and for held witnesses;
- relations: a coin is spent once, custody starts at genesis, no value appears;
- wallets: exactly the own coins of entries that take effect, in the end all;
- encryption: recipients find all their coins, others read nothing;
- subprocess: the proof returned is of the input given, and every call ends;
- driver, guests, adapter: a good transfer goes through every check of host, guest
  and proof system, a bad one through none; a receipt is of the coin it was asked for.

## 2. Modules and how they stand for the code

**Hashing and encryption** are free constructors throughout (`<<"node", l, r>>`):
two hashes are equal exactly when what was hashed is, and a keystream undoes only
itself. Collisions and the strength of the primitives are outside the models.

**`Merkle`**: what both trees share: powers of two, zero hashes, sibling and ancestor
indices, `compute_root_from_path` by way of `NodesOnPath`, the nodes the walk visits; and
`FullTree`, a reference that spells out every level over a function that gives the leaves.
Recursive functions, no RECURSIVE operators, so that it can be proved about.

**`BoardPaths`**: the functions of `lib.rs` on a board; `Levels` are the values `level` takes
in the loop of `merkle_path_for_index`, `CollapseLevel` is one turn of it.
**`BoardTree`**: `entries` is the host's `Vec`, `anchor` what the last spend
committed to. `AnchorSpend` is the code before a proof (path of the next slot, root
of the zero leaf on it, `lib.rs:845`), `Push` is `entries.push`. Bound: `TREE_DEPTH` (32 in
the code).

**`IndexedTree`**: `NullifierTree` field by field and its methods. `insert` is the early
return plus `Splice`; `set_leaf` updates the path of one leaf in the cached nodes.
**`NullifierTree`**: the host's `tree`, and `held`, a witness someone keeps while the tree
moves on. Nullifiers are naturals between the sentinels 0 and `MAX_NULLIFIER`, as the comment
on the sentinels assumes of hashes. **`NullifierSet`** is what it promises: a set, with a
witness good exactly while the set is the one it was made for.

**`Ledger`**: the protocol with any number of hosts on one board. The repository
runs one host after a fixed schedule; the model is the design its relations are
written for, in which each host has processed its own prefix of the board.
`scanned[sk]` is how many slots host `sk` has processed, and stands for its copy of
the accumulator (the nullifiers of those slots). `ProveSpend` is everything from
`make_tx` to the verified proof, evaluated against that prefix; the result waits in
`pending` until `Post` puts it on the board, in any order. `ProcessSlot` is
`process_slot` with `bootstrap` for each coin found, then the insertion of the
slot's nullifier; `panicked` is the panic of a failed receipt. `main`'s own run is
the schedule in which every host is up to date before each proof. `Effective` is
the property's word for an entry whose nullifier was new. Witnesses stand for the
facts `BoardTree` and `NullifierTree` establish; a proof is the fact that its
relation held. `CoinBook` is the abstract specification: coins created and spent.

**`NoteCipher`**: keys, wrapped keys, notes, and the scan of an entry. **`Notes`**: `Post`
makes an entry for any list of outputs, `process_slot` records which notes a wallet discovers
and which it can read. Session keys depend on sender and id only, and ids are reused: by a sender
within a board, as by runs that each number their transactions from 0. `KeyOpens` says which
bodies, of any slot, the session key recovered of one slot opens. `lib.rs:85` speaks of a random
session key per transaction; `make_tx` (`main.rs:598`) hashes sender and id, so the guarantee
is `SessionKeyOpensOneId` and no more: it is for the caller never to use an id twice.

**`Groth16Adapter`**: `verify_sp1_spend_proof` down to the pairing equation. Byte strings are
sequences of 4-byte words, each marked with the value it belongs to and its place in it, so
that a read at a wrong offset yields no value and the parser panics. Points are names, a
pairing is a formal sum of signed terms, and the Groth16 equation holds when the terms of a
true statement cancel. **`Guests`**: the three guests item by item over the concrete trees,
ciphertexts and public values, what each commits and which deferred proofs it asks for; and
what the SDK proves of a run: its exit code and its public values, none if a deferred proof
does not hold.

**`Driver`**: `main`, one action per step between two calls of a child: `BuildSpend`,
`ChildProves` (the child, by way of `Guests`), `AcceptSpend`, then for each wallet in turn a
`PassNote` or `Bootstrap`/`ProveReceipt`/`FileReceipt` per note, `NextWallet`, and
`InsertNullifier`; `ExecuteReceipt`, `BenchValidate` and the like are the other two modes.
`main` writes three transfers out; here a run is given any script, with transfers the relation
must reject among them. It composes `BoardPaths`, `IndexedTree`, `NoteCipher`,
`Groth16Adapter` and `Guests`, and implements `Ledger` with hosts that never race: the
mapping at the end of the module says when a wallet counts as having scanned a slot.

**`ProveSubprocess`**: hosts (runs of the binary) and their children over the two
files of each program. `fs::write` is an opening that truncates and a write, so a
reader can meet a torn file; a file removed while open takes the write with it.
`Reap` is the poll loop and the assertion on the status; `Interrupt` ends a run with
its child at any point, and the next run finds the files as they are.

**`MCLedger`, `MCNotes`, `MCProveSubprocess`, `MCDriver`** give the constants for TLC.
**`TreeProofs`, `BoardTreeProofs`, `NullifierTreeProofs`, `NotesProofs`, `LedgerProofs`,
`DriverProofs`, `ProveSubprocessProofs`, `SumProofs`** hold theorems; `TreeProofs` those about
the operators of `Merkle`, `BoardPaths` and `IndexedTree`, which the modules of both trees and
the driver's share.

## 3. Runs

| Run | Instance | What it shows |
|---|---|---|
| `board_tree` | depth 3, two ciphertexts: all boards of up to 8 entries | root, append paths, anchors and inclusion proofs agree with the full tree |
| `nullifier_tree` | depth 2, five nullifiers: all orders of inserting three, until full | sorted list, cached root, exact witnesses, the tree implements `NullifierSet` |
| `ledger` | genesis, two parties, coins of 1 and 2, two outputs, three slots | wallets exact, panics only on double spends, no inflation |
| `ledger_race` | coins of one value, two proofs in flight, three slots, fair wallets | coins spent once, double spends are races, custody starts at genesis, the board implements `CoinBook`, coins reach wallets |
| `notes` | three parties, four coins, two ids, two entries of up to two outputs | own coins found, outsiders read nothing of an entry, a session key opens exactly the bodies of its sender and id |
| `prove_alone` | one run at a time, two programs, three inputs | each call returns the proof of its own input, and ends |
| `driver` | scripts of up to three of seven transfers, three wallets, trees of depth 2, three modes | receipts answer their request, posted spends are anchored, the accumulator is what the board determines, a run panics over bad transfers only and ends, and implements `Ledger` |
| `board_genuine` | finding | the leaf covers the ciphertext only |
| `ledger_two_inputs` | finding | one nullifier for two inputs |
| `ledger_wide` | finding | u64 sums wrap |
| `notes_private` | finding | a recipient who is not the sender reads another recipient's note |
| `prove_shared` | finding | two runs overwrite each other's files |

Bounds and why they are enough. Depth 3 has every mix of filled, half-filled and
empty subtrees at three levels, and odd lengths at each. Three new leaves fill the
depth-2 accumulator; with five values to choose from, each is spliced at the front,
in the middle and at the end of the list, and values are left to be absent. A double
spend needs two slots, and a spend of what it or its victim created a third. Two proofs
in flight are the least that race.
Nothing in the relations compares more than two entries at a time. In `driver` every
transaction has one input; three slots of the four a depth-2 tree has are what the
accumulator's sentinel leaves, and enough for a mint, a split and a payment on; the seven
transfers hold one bad in each way the relation tells apart (worth, owner, provenance, a coin
spent before) and one that creates a tracked coin again. Nullifiers are numbered in an order
unlike that of their coins.
`CHECK_DEADLOCK FALSE` where the board is bounded: a full board with nothing left to
scan is the end of the instance, not a fault. `NullifierTree` and `ProveSubprocess`
have no such end and are checked for deadlock.

Fairness. `CoinsReachWallets` assumes WF of each host's `ProcessSlot`: `main` calls it
for every wallet after every push, and nothing disables it but the end of the host.
Proving and posting are not assumed to happen. `CallEnds` assumes WF of the host's and
of the child's steps: the scheduler runs both, and proving ends. There is no timeout in
the code; a prover that never ends would hang the call. `RunEnds` of `Driver` assumes the
same of host and child. Interruptions and dying children are not fair: they may happen or not.

Findings. The five `violation` runs show where code and documentation part; each
quotes the line in `PROJECT.json`. The demonstration's own schedule meets none of
them but `notes_private`: it has one input per transaction, small values, an id of its own for
each transaction, and one run.

## 4. Proofs

Every theorem is for every value of the constants that meets the named assumptions of
its module (`TreeDepthAssumption`, `MaxNullifierAssumption`, `KeysAssumption`,
`CoinsAssumption`, `BoundsAssumption`, `InputsAssumption`, `NullifierAssumption`,
`ScriptsAssumption`, `WalletsAssumption`), which TLC evaluates in the runs. A theorem with a condition of its own says so in its statement.

**Trees of every depth.** What a tree computes is a recursive function, so each proof is an
induction over the depth, a level, or an index. The library's induction theorems take an
operator and cannot be instantiated by the provers at hand; `NatSetInduction` of
`TreeProofs` states the principle over a *set* of naturals instead, from the
well-foundedness of `<` (`LeastElement`). A recursive function is unfolded through a
lemma that a function with its equations exists (`PowerExists`, `ZeroHashesExist`,
`FullTreeExists`, `LevelsExist`, ...).

- `TreeProofs`: `PathOpens`: a walk along the siblings of a leaf ends in the root.
  `RootBinds`: whatever opens to the root on some path is that leaf, and the path is its
  siblings. `RootDeterminesLeaves`: two trees with one root have the same leaves. All rest
  on `node` being injective.
- `BoardTreeProofs`: `TypeCorrect`, `RootExact`, `OnePathBothRoots`, `InclusionIsExact`,
  `AnchorHolds`, `AnchorPathOpensOwn`. The heart is `LevelsAreTheTree`: the vector that the
  loop of `merkle_path_for_index` halves, with zero hashes for what it leaves out, is a
  level of the full tree, whatever the length of the board. `AnchorFromPrefix`, the
  inductive invariant, says which prefix the last anchor was computed from.
- `NullifierTreeProofs`: `ListStaysSorted`, `CacheStaysExact`, `WitnessesAreExact`,
  `LeavesAreBound`, `TypeCorrect`, and `TreeImplementsSet`, the refinement of
  `NullifierSet`. The invariant is `Linked` (the index maps exactly the leaves' values, and
  no value lies in a gap), `Cached` (each node is of the full tree) and
  `HeldOpensEarlierRoot`, without which nothing could be said of a held witness after the
  tree moved on. `SpliceKeepsList` and `SpliceKeepsCache` are `insert`'s two halves: the
  second applies `SetLeafCaches` twice, to the low leaf and then to the new one.

**The protocol**, in `LedgerProofs`, for every set of keys, coins and bounds:

- `TypeCorrect`: `TypeOK`.
- `SpentOnce`: `CoinSpentOnce`, assuming `MaxInputs = 1` and `KeysInjective`. Both are
  needed: with two inputs the run `ledger_two_inputs` violates it, and with two raw keys
  that clamp to one scalar (`Party::new`, `main.rs:76`) one owner makes two nullifiers
  of one coin. Inductive invariant `NullifierInv`: each proof, in flight or on the board,
  carries the nullifier of its first input under a key that owns it. Then two entries
  with one coin carry one nullifier, and the later takes no effect.
- `WalletsCorrect`: `WalletExact` and `PanicOnlyOnDoubleSpend`, which are inductive
  together with `TypeOK`: a host's accumulator is the prefix it scanned, so its receipt
  check decides exactly whether the slot's entry takes effect. `GrowthKeepsSlots` says a
  longer board changes nothing about earlier slots. `HostsEndOnDoubleSpendOnly` is its half
  about the panic.
- `CustodyHolds`: `ChainOfCustody`, assuming `MaxInputs = 1`. `CustodyInv` says of proofs
  in flight too where their coin came from; it rests on `WalletInv`, since a receipt is
  only ever made for an entry that took effect.
- `RacesOnly`: `DoubleSpendIsARace`. `AnchorInv`: no proof's nullifier is among those
  before its anchor.
- `BoardBalanced`: what the circuit's sums modulo the width of a value say over the integers.
- `ValueIsNeverMinted`: `NoInflation`, under the hypotheses of `SpentOnce` and `NoWrap` (the
  run `ledger_wide` shows why): all wallets together can never spend more than genesis
  issued. `LiveInv` says that the value of the coins alive (made by an effective entry or by
  genesis, and spent by none) is at most the supply; a spend takes its input out of them and
  adds outputs of no more worth. That wallets hold live coins only is `WalletExact`.
- `LedgerImplementsCoinBook`: the refinement of `CoinBook` under the same hypotheses, step by
  step: the post of an effective entry is one `Spend`, everything else a stutter.

`SumProofs` has the sums these rest on, which are folds of the community modules: a sum over
a set changes with one element as a sum should (`SumFamily`, `SumImage`), by induction over
`NatSetInduction` on the cardinality.

**Notes**, in `NotesProofs`, for any parties, coins and lists of outputs:
`WalletsFindTheirCoins`, `EntriesAreSealed`, `KeyOpensOneId`, `TypeCorrect`. The crucial facts
are `KeyRecovered`: exactly the recipients of an entry recover its session key, and
`OpenedIsAllOrNothing`: who recovers it opens all the notes of the entry, anybody else none.

**The driver**, in `DriverProofs`, for any script, list of wallets and depth: `TypeCorrect`,
`TreeIsReplay`, `SpendsAreAnchored` and `ReceiptsAnswer`. `main` does not compare what a proof
says with what it asked for, except for the board's root; the theorems say that it need not.
The invariant `Control` carries what the running guest will leave (`SpendOutcome`,
`ReceiptOutcome`) from the call to the answer, and that board, accumulator and turn stay
where they are meanwhile; `SpendRun` and `ReceiptRun` get it from the guests' programs.

`ValidationsHold` (`ValidationNeverHalts`): the Groth16 guest accepts the package of any entry
on the board. It is a statement about layout: `VkIsLaidOut` and `ProofIsLaidOut` say that
every read of the parser meets the word it is after, `KeyIsLoaded` and `ProofIsRead` that key
and proof come out as they went in, `PairingHolds` that the terms of the equation then cancel.
The invariant `PackagesGenuine` says that every package on the board, in hand or in a pending
call is `GenuinePackage`: the one of the very public values the entry carries.

`PanicsOnBadTransfersOnly` (`PanicsExactlyOnBadTransfers`): every entry posted is of a payable
transfer, and a run panics over the first transfer that is not payable and over nothing else.
The theorem joins the parts: the paths of one tree, the witnesses of the other, the notes, the
guests and the adapter. Its invariant `Honest` says

- of the board, that every entry is the one `main` makes of its transfer (`EntriesMade`), and
  that the accumulator is a linked list, with an exact cache, of the nullifiers of the finished
  slots (`Accumulated`): a witness exists just when the input was not spent before;
- of the wallets, that what they hold are proofs of the receipt program (`ReceiptsProved`), and
  that whoever owns an output of a slot its turn has passed holds its receipt (`ReceiptsFiled`):
  a sender lacks the receipt of its input just when nobody sent it that coin;
- of a pending call, that a spend commits to the board's root just when the transfer is valid
  (`SpendJudged`), that a receipt always commits and asks for no proof that was not written
  (`ReceiptJudged`), and that a validation is of the newest entry (`ValidationOfNewest`);
- of a panic, that the upcoming transfer is not valid (`PanicsRight`).

`Valid` is `Payable` with the sums the relation computes, modulo 2^64. `ValidVerdict` and
`ReceiptVerdict` evaluate `check_spend` and `check_coin_receipt` condition by condition on what
the host wrote. So far no script is excluded (`HonestHolds`); only the last step, from valid to
payable, needs the hypothesis `NoWrap`, that no transfer of a script moves 2^64 or more. Without
it the relation accepts transfers that do not balance (the run `ledger_wide`); no script of the
run `driver` comes near.

`DriverImplementsLedger` (`ImplementsLedger`): the whole binary, over concrete trees, ciphertexts,
guests and proofs, is a schedule of `Ledger`, the protocol over sets and facts. The mapping reads
the ledger's entry out of the one posted; an entry is pending while the host holds its proof,
and a wallet has scanned a slot when its turn is over. Then the answer of a child that accepts a
spend is `ProveSpend` (`ChildProvesSpend`: what the guest checked by witness and path, the ledger
checks on its sets, `LedgerAccepts`), `AcceptSpend` is `Post`, the `NextWallet` that ends a turn is
`ProcessSlot` with all the receipts filed since it began (`WalletScans`), the insertion of the
nullifier is `ProcessSlot` of the genesis key (`GenesisScans`), and every other step is none of the
ledger's. Two more invariants are needed: a spend is pending of the upcoming transaction and no
other, and ends without output only if its guest halted (`SpendAsked`); and a receipt held is of
its holder's coin (`ReceiptsOwned`). The hypothesis `FitsLedger` says that each transfer has one
input and at most two outputs: that is how the mapping bounds the ledger's transactions, and how
all of `main`'s are. `LedgerImplementsCoinBook` takes it further, to the book of coins created and
spent, where no sum wraps.

**The subprocess**, in `ProveSubprocessProofs`, for one run at a time and any programs and
inputs: `TypeCorrect`, `AloneAnswered` (`ProofAnswersRequest`) and `AloneReadsProof`
(`SuccessMeansProof`). `AloneInv` follows the input from file to child and the proof back;
the run `prove_shared` shows why one run at a time is needed.

**Only model-checked.** Liveness (`CoinsReachWallets`, `CallEnds`, `RunEnds`) is out of the
prover's reach, and so is ENABLED. Every invariant of a passing run, and every refinement, has
its theorem.

## 5. Not modelled

- Entries that carry no `SpendProofPackage`, beyond the empty ones of `--execute`: `main`
  posts none.
- Provers that lie about the accumulator. `check_spend` verifies the non-membership witness
  against a root its prover supplies. In `Ledger` every prover supplies the root of the
  accumulator its host has, and no action compares it with the board; `Driver` has the
  comparison that `main` makes (of the board's root) and `PostedSpendsAnchored` shows what
  follows for its own run.
- Secret keys that clamp to one scalar: the runs have one secret key per public key, and the
  theorems that need it assume `KeysInjective`.
- That two bodies under one key stream reveal their XOR: ciphertexts are free constructors.
  Which keys open which bodies is modelled.
- Failures of file operations other than a missing or torn file, failures of
  serialisation, diagnostics, tables, and timing.
- A run killed without its child: the child that goes on is a second user of the files,
  which `prove_shared` covers.
- The mnt-test guest and `--bench-mnt-test`: they deserialise three fixtures and verify one
  MNT4-753 Groth16 proof with an external verifier, to measure it. Nothing depends on them.
- PLONK, KZG and the transcript of the vendored verifier: no program calls them.
- 256-bit limbs, the extension tower, the Miller loop and the final exponentiation: what
  the verifier needs of them is the bilinear pairing of `Groth16Adapter`. Their state
  spaces are 2^256 wide and the formulas do not shrink with the modulus. The coordinates
  and flag bits of a point are not decoded: a point is a name that occupies its words.
- `vkey` and `build.rs`: they print a hash and start a build.

## 6. What is left

The vendored arithmetic over small limbs, as pure operators against their definitions.
