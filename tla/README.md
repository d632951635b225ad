# CryptisDchat: a verification project

CryptisDchat is an end-to-end encrypted messenger: a FastAPI backend on MariaDB and Redis, a Celery
worker, three "realm" services that keep shares of a backup secret, a browser client that holds all
private keys, and a service wallet on the TON blockchain that anchors what the server claims to have
delivered. This directory holds TLA+ modules that model its server core and its browser client, TLC
configurations that check them on small instances, and proofs that TLAPS checks.

1. [Inventory](#1-inventory)
2. [Modules](#2-modules)
3. [The delivery journal](#3-the-delivery-journal)
4. [Groups and their keys](#4-groups-and-their-keys)
5. [Accounts: sessions, pairing, wallets](#5-accounts-sessions-pairing-wallets)
6. [The client: vault, pairing page, backup](#6-the-client-vault-pairing-page-backup)
7. [The client: keys of chats](#7-the-client-keys-of-chats)
8. [The client: messages and the list of chats](#8-the-client-messages-and-the-list-of-chats)
9. [The client: screens and pure algorithms](#9-the-client-screens-and-pure-algorithms)
10. [Runs](#10-runs)
11. [What is proved](#11-what-is-proved)
12. [Limits](#12-limits)

## 1. Inventory

Paths are relative to `src/`; `services/` stands for `backend/app/services/`.

| Component | State | Operations | Interacts with | Hard because | Correct when |
|---|---|---|---|---|---|
| **Delivery journal** `services/chain_service.py`, `worker/tasks/blockchain.py` | rows of `chain_events`, Redis list `chain:pending`, lock `lock:chain:flush` | `record_sent`, `record_receipt`, `after_commit`, `flush_batch`, `sweep_orphans` | called by messages and receipts, feeds the anchoring | three stores written one after the other, any process may die in between, ids may be queued twice, the lock expires | every event comes under exactly one batch, none is lost |
| **Batch anchoring** `worker/tasks/blockchain.py`, webhook | rows of `chain_batches`, messages of the broker | `submit_batch`, `confirm_batch`, `recheck_submitted`, `retry_batch`, `ton_tx_status` | journal, wallet | tasks redelivered, run twice and overtaking each other; rows written blindly after a network call | confirmed means executed, and whole |
| **TON gateway** `worker/gateways/ton.py` | transactions and seqno of the service wallet | `anchor`, `check` | anchoring, membership | a lost answer, a lost message, the scan limit of 50 | one transaction per batch |
| **Group membership** `services/group_service.py`, worker | `thread_members`, `group_membership_events` | `create`, `add_members`, `remove_member`, `anchor_membership`, `confirm_membership` | key tree, wallet | changes overlap, confirmations arrive in any order, snapshots are stale | leaves are unique, every change reaches the tree |
| **Group key tree** `services/treekem.py`, `services/key_service.py`, `static/js/lib/treekem.js` | `group_tree_nodes`, `threads.key_epoch`, `rotation_pending`; private keys on clients | `tree_plan`, `tree_commit`, `tree_commits`, `register` | membership, client | who can open which node key after several changes | members can open the group key, others cannot |
| **Direct conversation keys** `services/key_service.py`, `static/js/app/data.js` | `conversation_keys`, `key_epoch` | `upload_conversation_keys`, `createDmKey`, `sendKeyNow` | messages | two clients create the same epoch | one key per epoch, known to both |
| **Messages** `services/message_service.py` | `messages`, `threads.last_seq` | `send`, `forward`, reactions | threads, journal, event bus | idempotent retries, checks before the lock | one message per client id, gapless order |
| **Threads and receipts** `services/thread_service.py` | `thread_members` watermarks, Redis `unread:*` | `open_direct`, `hide`, `clear`, `mark_read`, `mark_delivered`; `reconcile_unread` | messages, event bus | unlocked read-compare-write, a counter in a cache | watermarks only advance, counters converge |
| **Sessions** `services/auth_service.py`, `services/security.py` | `devices`, `refresh_tokens`, one-time payloads in Redis | `login`, `refresh`, `logout`, `logout_all`, `authenticate`, wallets | pairing, WebSocket, client | concurrent exchange of a token, revocation racing it | a revoked session stays revoked, one live token per device |
| **Device pairing** `services/device_pairing_service.py` | Redis `pairing:*`, `device_pairing_quotas` | `create`, `inspect`, `approve`, `reject`, `cancel`, `complete`, `poll` | sessions | WATCH/MULTI retries, two stores finalised in turn, refund of a quota slot | one device per request, one refund per slot |
| **Key backup and realms** `services/key_service.py`, `worker/tasks/keys.py`, `realm/app.py` | `key_backups`, shares in three realms, attempt counters | `create_backup`, `store_shares`, `start_recovery`, `recover`, `destroy_all` | client vault | versions overtaking each other, redelivered recoveries, realms answering differently | the right PIN recovers, wrong ones are bounded |
| **Client vault** `static/js/lib/vault.js`, `lockout.js` | encrypted file, PIN counter | `unlock`, `save`, `changePin`, `wipe` | key backup | asynchronous saves around a key change | the file opens with the current PIN, or is gone |
| **Event bus and WebSocket** `services/event_bus.py`, `routers/ws.py`, `static/js/lib/ws.js` | queues, subscriptions, membership cache | `publish`, `subscribe`, `pump_events`, frames | everything that notifies | bounded queues that drop, subscription after authentication | a revoked socket closes |
| **Client API session** `static/js/lib/api.js` | tokens, the refresh in flight | requests, single-flight refresh | sessions | several tabs, 401 while refreshing | a live session survives |
| **Rate limiter** `services/rate_limiter.py` | sorted sets in Redis | `hit` | API | concurrent hits | no more than the limit pass |
| **Merkle tree** `services/merkle.py` | none | `build`, `verify` | journal | odd levels | every proof verifies |
| **Maintenance, media, notifications** `worker/tasks/` | files, expired rows | purges, backups, push | most tables | little beyond `reconcile_unread` | - |
| **Settings, block list, reports** `static/js/app/data.js`, `services/settings_service.py` | a row per account; the switches on the screen | `loadSettings`, `patchSettings` | API | answers that cross switches | the screen shows what is stored |
| **User interface** `static/js/app/` | the state, the history, the page | the router, `render`, the searches, the camera page | everything in the tab | callbacks of the browser in the middle of other work | address and screen agree, the page shows the state |
| **Cryptography and codecs** `static/js/lib/`, `realm/`, `backend/app/proto/wire.py` | none | Shamir's shares, the protobuf codec, Merkle proofs | all | bytes | what is encoded is decoded |
| **Deployment** | - | - | - | - | not modelled, see section 12 |

How they interact: an API process commits a message together with its journal event and pushes the event's
id to Redis. The worker seals what Redis holds into a Merkle batch, sends one transfer whose comment names the root,
polls the chain, and confirms the batch. A change of a group's membership is committed by the API, anchored by
the worker with a transfer of its own from the same wallet, applied to the key tree when the transfer is
confirmed, and followed by a key commit that a client computes from the server's plan. Both paths share the worker, the broker and
the wallet; the wallet's seqno is where they meet.

## 2. Modules

| Group | Modules | Checked by | Proofs |
|---|---|---|---|
| Journal | `TonWallet`, `BatchAnchor`, `ChainJournal`; `Journal` (abstract) | `MCChainJournal` | `ChainJournalProofs` |
| Groups | `KeyTree`, `GroupKeys` | `MCGroupKeys` | `GroupKeysProofs` (also `GroupClient`) |
| Accounts | `Sessions`, `Pairing`; `Wallets` | `MCPairing`; `Wallets` itself | `PairingProofs` |
| Client: vault | `Vault`, `PairingPage`, `KeyBackup` | `MCVault` | `VaultProofs` (`Vault`), `RecoveryProofs` (the other two) |
| Client: keys | `DirectKeys`, `GroupClient` | `MCKeys` | `DirectKeysProofs`; `GroupKeysProofs` |
| Client: messages | `MessageList`, `ThreadList` | `MCChat` | `ChatProofs` |
| Client: screens | `Router`, `ScanPage`, `SettingsPage`, `Reactions`, `Searches`, `Rendering`, `SecretShares`, `MerkleTree`, `WireFormat` | `MCScreens` | `ScreenProofs` (`Router`, `SettingsPage`, `Reactions`, `Searches`, `Rendering`), `PairingProofs` (`ScanPage`) |

In the first three groups a module EXTENDS what it is composed with: tasks and wallet, pairing and sessions. The parts of
the client in the other groups share no variable (each models as its own environment what the rest of the tab and the server do
to it), so a product of them would only multiply states. There an MC module is the *sum* of its
parts: it holds the variables of all, `subject`, a variable that never changes, names the part at work in a behaviour, and the variables of the others
keep their first values. The MC module EXTENDS the parts, so that TLC evaluates their assumptions and the runs check
the very definitions that the theorems state. Where names would clash it instantiates them instead (`SecretShares`, `MerkleTree` and `WireFormat`, which are slow to
evaluate and checked only when they are the subject), and `PartsAssumption` restates what they assume of their constants.

The order of the work was the order of the table: what the server promises about delivery, who can open a group, who holds a session,
and then the client, which alone holds the private keys, from the vault outwards. What is left is in
section 12.

## 3. The delivery journal

`TonWallet` is the chain as the gateway sees it, `BatchAnchor` the Celery tasks around a batch,
`ChainJournal` adds the API process, Redis and `flush_batch`, and `Journal` says what all this is for.
Each EXTENDS the one before it, except `Journal`, which `ChainJournal` instantiates.

| State | In the code |
|---|---|
| `chain`, `inflight` | transactions of the service wallet (its length is the seqno); messages accepted by `/sendBoc` and not executed |
| `batch` | `chain_batches`: `status`, `tx_hash` (nothing, the comment, or the transaction's hash) |
| `broker` | messages in the `blockchain` queue with their retry number |
| `worker` | a worker process, the message it executes, the next step of the task |
| `event`, `leaves` | `chain_events`: `status`, `batch_id`; the set of events under a batch's root |
| `unpushed`, `pending`, `locked` | ids committed and not pushed; the list `chain:pending`; the key `lock:chain:flush` |
| `flusher` | a process inside `flush_batch`: next step and the ids it popped |

A task is cut where another process can run: after it has read the row (`TakeSubmit`, `TakeConfirm`), between
`_find` and `sendBoc` (`AnchorFind`, `AnchorSend`), before the commit (`SubmitCommit`, `ConfirmEvents`) and before the
next message is queued (`EnqueueConfirm`). The commit writes the row whatever it holds by then, as the code does.
`flush_batch` is cut at the lock, LPOP, SELECT, commit, `.delay` and DEL.

Failures: a worker or flush process may be killed at any step (its message returns to the queue, `task_acks_late`
with `task_reject_on_worker_lost`; the lock stays), the API process may die with ids unpushed, a call to
toncenter may raise before or after its effect, a message in flight may be lost, and the membership tasks may use up the seqno. Every
one is counted by `faults`.

Two waiting messages with equal contents are one element of the set `broker`. That is sound for safety: handling a message
twice in a row from the queue is covered by `RecheckSubmitted` and `Webhook`, which can add a copy again at any time, also while
one is being executed.

`LockCoversFlush` is the one timing assumption: a flush that is not killed ends within the 300 s of its lock. The code
does not enforce it. Without it the refinement fails (the mutant `LockExpiresEarly` shows how: two flushes select the same
event). Type correctness and `ConfirmedIsAnchored` are proved without it.

**Fairness** (`FairSpec`). Beat starts `flush_batch`, `sweep_orphans` and `recheck_submitted` periodically
(`celery_app.py:52-56`), so each is taken again and again; a process that is not killed takes its next step; Redis
drops an expired lock; a queued message is delivered when workers keep becoming free. `recheck_submitted`
picks up pending rows older than five minutes: every row that stays pending becomes that old, which is what `RecheckAll` says. The
sweep is strongly fair only because the bound on the list's length can close it for a moment. Validators run the wallet's
messages (`Land`). Nothing is assumed of the API process, the operator or the webhook.

A batch `submitted` whose message the chain never executes stays so: `recheck_submitted` polls such rows and does not send again.
`PendingIsResolved` therefore speaks of pending batches. And `submit_batch` looks for an earlier transaction before it asks for the seqno:
if the earlier one is executed in between, the second message carries the next seqno and is executed too. The batch is anchored
twice, which costs a fee, and no property here says otherwise.

## 4. Groups and their keys

`KeyTree` is `services/treekem.py` as operators: node numbers, direct paths, resolutions and `plan_commit`. The source's
bit operations are written as the arithmetic they amount to. `Ones` is the only recursive function that the models use: what `level` counts,
as the number 2^level - 1. A path and a resolution are written as the sets of nodes that the code's walks find (the nodes above a node, the highest
nonblank nodes below it), which is what can be reasoned about; the walks themselves are the last section of the module, and two ASSUMEs
of `MCKeys` make TLC compare the two, for every blanking of every tree of up to four leaves.

`GroupKeys` is one group.

| State | In the code |
|---|---|
| `member` | `thread_members`: in or out (`left_at`), `role`, `leaf_index` |
| `capacity`, `epoch`, `flag` | `threads.tree_leaf_capacity`, `key_epoch`, `rotation_pending` |
| `events` | `group_membership_events` in order of creation: `chain_status`, `rotation_status` |
| `leaf` | leaf rows of `group_tree_nodes`: whose identity key stands there, NULL, or no row |
| `node` | inner rows: which commit wrote the key, and the users whose clients hold the private half |
| `secret` | the users whose client can open the group key of the current epoch |
| `orphaned` | history only: users who held the key of a node at the moment it was blanked |
| `job` | a transaction that has read and not committed |

Every API request and worker task is a database transaction with the default isolation of MariaDB 11.4, REPEATABLE READ, and
SQLAlchemy does not overwrite a loaded row when a later `SELECT ... FOR UPDATE` returns it. So a transaction decides on the
snapshot of its first read and writes later: two steps (`...Read`, `...Write`). Columns are written only if
their value changed against the snapshot, which matters for `rotation_pending`. What the database refuses at the
commit is a guard of the write: the UNIQUE key on (thread, epoch), the primary keys of members and nodes.

A client opens a node key when it holds the private key of one of the targets it was sealed to
(`HoldersAfter`, from `processCommit`). Every client is assumed to process every commit in order, the
removed ones included: that is the strongest reader. Sealing is perfect.

Assumptions, as constants: `ConfirmIsSlow`, a transaction in flight when a membership event is created ends before
that event is confirmed (between them lie a transaction on the chain and `CONFIRM_POLL_SECONDS`); `OneAddAtATime`, two
`add_members` requests do not overlap; `NoQuickReturn`, nobody is added while a request is in flight that takes the same user out. The last two are restrictions
of the model: two overlapping additions read the same snapshot and may choose the same leaf, and a removal that has read an older row names an older leaf.
The properties of leaves and keys fail then for these two reasons alone (section 11), so they are listed as hazards and kept out of the way of the others.

## 5. Accounts: sessions, pairing, wallets

`Sessions` is one account and the requests that issue, exchange and revoke its tokens. `Pairing` EXTENDS it with the QR code
that connects a further device. `Wallets` is the list of wallets the account logs in with; it shares no state with the others.

| State | In the code |
|---|---|
| `device` | `devices`: `revoked_at`, `tokens_revoked_at`, whether the row exists |
| `token` | `refresh_tokens`: its device, live, rotated (exchanged) or revoked; with the access token issued beside it |
| `job` | a request that has read and not committed, with what it read |
| `pairing` | the status in the Redis record `pairing:<id>` |
| `refund` | `quota_refund_pending`, or a `cancel` that has yet to return the slot |
| `slot` | the attempt of a code in `device_pairing_quotas`: held, released, or older than the window |
| `wallet` | `user_wallets`: primary, linked or none |
| `late`, `out`, `clobbered` | history only, see below |

**Requests.** As for groups, a request decides on the snapshot of its first read and writes later, so it is two steps
(`...Read`, and the step that commits). What is read with `FOR UPDATE`, and what an UPDATE touches, is the last commit, and stays so
until this transaction ends: `active_devices(for_update=True)` is therefore part of the second step (`ActiveLocked`).
An INSERT of a device or a token shares the lock of the user's row through its foreign key, and waits for whoever holds it (`UserFree`).
`Drop` ends a request that was refused after its read, chosen as the victim of a deadlock, or whose process died.

**Time** is the order of issue. A moment is the set of tokens issued by then, which is all the code asks of it:
`iat` against `revoked_at` and `tokens_revoked_at`. Tokens that expire and accounts that are suspended only have more requests
refused.

**Pairing.** A change of the record is a WATCH/MULTI loop, hence one step. `complete` reads the record, locks the account,
reads the record again and finalises it in Redis (`CompleteFinalise`), and only then commits the device and its
token in MariaDB (`CompleteCommit`). If that commit is lost, the record stays completed and the browser may complete again. A second
completion finds the device, which has the id of the request, and gives the same credentials out again. `cancel` marks
the refund in the record, releases the slot in MariaDB and clears the mark: three steps, any of which may be the last or be taken twice.

**History variables.** The code accepts two overlaps, and the properties name them instead of leaving them out.
`late`: two requests may exchange one token at once, and both get a session; a token issued that way, or from such a token, is in
`late`. `README.md:29` promises that reusing an old token revokes the device, and so it does when the second request
reads after the first has committed. `clobbered`: a login that resets `revoked_at` writes the moment it read, and reuse detection takes
its moment before it waits for the rows; either can overwrite a revocation it has not seen with an earlier moment.
`OneLiveToken` and `RevokedStaysOut` say that these are the only ways to a second usable token, or back to a revoked one.

**Wallets.** `unlink_wallet` counts the wallets in its snapshot and locks nothing, which is what `last_wallet` shows.

## 6. The client: vault, pairing page, backup

A tab runs JavaScript: between two `await`s nothing else runs, so a step of these modules is what happens from one `await` to the next.
Everything a function reads before an `await` and uses after it is kept in the element that stands for the call.

**`Vault`** is one tab: `lib/vault.js`, `lib/api.js`, and the pages that open, lock and leave it.

| State | In the code |
|---|---|
| `file`, `failed`, `lockout` | the encrypted file and `META` in IndexedDB |
| `key`, `salt`, `pending`, `writes`, `change`, `tries` | the variables of `vault.js`: the derived key, the debounced save, saves, derivations and PIN checks in flight |
| `page`, `step`, `mem`, `handoff`, `refreshing` | the gate, `API.session.refresh`, the token the login page leaves in `sessionStorage`, the one exchange in flight |
| `live` | the server's side: the turn of the token that each session accepts |

`overlaps` records which asynchronous steps ran into another; each property names the ones that excuse it. What the code allows and
the properties excuse: a write in flight when the user logs out puts the file back; a PIN check that began before
the PIN was changed ends after it and restores the old key; `changePin` writes the token it read before the derivation.

**`PairingPage`** is the page of a device being paired: the code, the polls, the verification and the PIN, and the session that is saved at the
end; the server's record is the abstract one that `Pairing` details. **`ScanPage`** (section 9) is the page of the other device.

**`KeyBackup`** is a backup from `backupKeys` through `store_shares` to three realms, and a recovery from `restoreWith` back. Versions
overtake each other, a realm fails and is retried, the worker is killed in `recover` (before or after it counted in Redis) and the task delivered again, counters in Redis and in each realm lock separately. While a
newer backup has not reached every realm, the right passcode may be answered as wrong (`RightCodeRestores` names this);
an older `store_shares` may mark rows as stored or active after a newer one, which the properties do not depend on, since the realms refuse
the older share.

## 7. The client: keys of chats

**`DirectKeys`** is a direct conversation: the server's keys by epoch, and the two clients with their sends, lists and frames.
Two clients make the key of an epoch at once, an answer is lost, the list of chats is older than the chat, a
member resets the keys while the other wraps for the old ones. `own` in a send is the `keyEpoch` of the thread object it holds: the listed
object, or one that a reload has replaced. Two things the code does that cost a retry or an epoch but break no property: after `stale_epoch` the
client refreshes the listed object (`data.js:609`) while the send may keep the replaced one and fails again; and
`t.keyEpoch + 1` is read again after an `await` (`data.js:606`), which makes a needless epoch after a reset.

**`GroupClient`** is one member of a group against the server's list of commits: overlapping calls of `syncTree`, the member's own
`rotateGroup`, the reset of the member's keys. The member has leaf 0. The key of a node is the number of the epoch that made it, and a sealed key opens if the client
holds one of its targets in that epoch's version. A call of `syncTree` asks (`asked`), has its answer on the way (`list`), and steps through it (`work`), one commit for each step: the code
waits inside a commit as well, but then two calls are at work, which `calm` excuses.

`base` is the epoch from which the client is let in again after a reset: the next commit that keys the member's whole branch and was planned after the reset
(`key_service.py:149`: the reset asks for no rotation, and a plan fetched before it seals to the old leaf key, which is why `tree.vers` keeps the keys that the leaf has had since the last commit).
`NoEpochLost` is what the code promises from `base` on, and the run `lost_epoch` refutes it. `calm` is the same epoch, but set back to "never" when a call works on a list that ends
before what was processed since, or while another one works (`Disturbs`): `EpochsOpen` says that there is no other way to lose an epoch. A rotation
request that arrives while another waits for its timer is dropped (`data.js:621`); `rotation_pending` makes the client ask again when the list of chats is next loaded at the opening of the app.
The tree has as many leaves as at the start: it grows in `GroupKeys` only.

`GroupKeys` (section 4) assumes clients that process every commit in order: `GroupClient` is where that is examined.

## 8. The client: messages and the list of chats

**`MessageList`** is an open chat of one tab. `log` is the server's order. Pages are read, decrypted one by one and then replace or
extend the list; frames arrive in order and are decrypted meanwhile; drafts wait in the chat's queue, are sealed, posted, answered, or fail;
messages expire; the chat is cleared; the socket closes and its frames are lost; the chat is closed and opened again from the cache. `ListIsTheLog` says what all
this comes to. `missed` excuses what the code accepts, until the newest page is read again: a page overtaken by another change
and then written over it, a frame lost with the socket (nothing is read again after a reconnect), a page in which a message has expired (which looks like the
last one), an answer that was lost, a failed clear. A failed draft disappears on a reload; a frame whose draft is marked failed is ignored.

**`ThreadList`** is the list of chats with its unread counters. The server is exact; answers with the whole list overlap and come in any order
(`threadsRev`), frames change single chats, a message of a chat not yet listed waits for the list. `skewed` names the chats whose counter
crossed an answer, `outdated` that a frame or an answer was lost since the list was last asked for. Nobody but the user is assumed to reload.
A counter crosses an answer wherever it moves on one side only while an answer that was read before is on its way: when a frame
counts a message, when the screen or the server marks one as read, when a chat is entered or left (`Crossing`).

## 9. The client: screens and pure algorithms

| Module | What it is | What is excused |
|---|---|---|
| `Router` | `app/router.js` with `setState`: the history, the app's own `history.back()` that the browser carries out later, the user's Back and Forward, lock and reload | a chat closed by a frame, until the next `setState` |
| `ScanPage` | the camera: permission, preview, the loop of looks, codes found after Stop; inspection; the answer and its envelope. A failed old start may stop a newer camera, and an outcome is shown whatever page is open: neither leaves a camera on | - |
| `SettingsPage` | switches, their PATCH, and reads of all settings that cross them, by `settingsRev` | a read asked for while a PATCH is unanswered, two PATCHes at once, a failed read |
| `Reactions` | the optimistic reaction, its PUT, the frame; the server's rows | two changes at once, a lost frame |
| `Searches` | both searches: the delay after typing, numbered answers | a failed search |
| `Rendering` | `engine.js`: `morphChildren` node by node, with the `blur` handler of a removed field calling `setState` inside it | - |
| `SecretShares` | `shamirSplit` and `shamirCombine` over GF(256) | - |
| `MerkleTree` | `build` of `merkle.py`, `merkleVerify` of `crypto.js` | - |
| `WireFormat` | the protobuf codec of `proto.js`: unknown fields, frames cut short | fields whose wire type is wrong, where `proto.js` and `wire.py` differ |

`CountsAgree` speaks of counts only. The flag `mine` of a row does not agree: `message_service.py:229-236` reads the rows as the account that reacted
and sends them to all members, so the others' screens show its `mine` (`repositories/messages.py:94`, `views.js:679`).
`MerkleTree` says what a proof means given the root; `loadProof` compares only with a root that the same server sends.

In `SecretShares` the field is tabulated (`gfMul` is a function), in `MerkleTree` a digest is the term it was computed from, in
`WireFormat` a frame is the sequence of its bytes.

## 10. Runs

| Run | Instance | Checks | Shows |
|---|---|---|---|
| `journal` | 2 events, 2 batches, 1 worker, 2 flushes, 1 poll, 1 fault, list of 2 (2.8 million states) | `OneBatchPerEvent`, `ImplementsJournal` | sealing is exactly-once although ids are queued twice and processes die; the code implements the abstract journal |
| `journal_live` | 1 event, 1 batch, 2 workers, 1 flush, 1 retry, 1 fault, fair (166,000) | `ConfirmedIsAnchored`, `ConfirmedBatchIsWhole`, `EventIsBatched`, `PendingIsResolved` | stale writes of overtaking tasks never make a false confirmation, and nothing is forgotten |
| `group` | 3 users, 2 overlapping transactions, 4 leaves, 3 changes, 2 epochs | `TypeOK`, `ExcludedUnlessOrphaned`, `MembersHoldSecret`, `OneCommitPerEpoch` | who can open the group key |
| `accounts` | 1 browser and 2 pairing requests, 3 tokens, 2 requests in flight, a quota of 1 | `OneLiveToken`, `RevokedStaysOut`, `LastDeviceStays`, `RejectedStaysOut`, `OpenCodeIsCounted` | revocation holds against every overlap but the two named; cancelled codes connect nobody; the quota is exact |
| `vault` | vault: 2 PINs, 2 checks, 2 saves, 2 sessions of 2 tokens; page: 2 codes; backup: 3 realms, 2 versions, 3 runs of `recover` | `VaultTypeOK`, `PinOpensVault`, `VaultHoldsToken`, `TokenPresentedOnce`, `GuessesBounded`, `NothingOrphaned`, `RecoverySound` | what is in the file opens with the PIN and holds a live token; no code, vault or session is orphaned; the right passcode recovers the right version |
| `keys` | direct: 2 members, 2 sends each, 2 epochs; group: 4 leaves, 3 epochs, `syncTree` beside `rotateGroup`, 1 reset (1.5 million) | `KeysAgree`, `MessagesReadable`, `OneEpochUntilReset`, `EpochsOpen` | one key per epoch, known to both; commits open unless calls get into each other's way |
| `chat` | messages: 2 own, 1 foreign, pages of 2; list: 2 chats, 3 requests (1.4 million) | `MessageTypeOK`, `ListIsTheLog`, `DraftsSettle`, `ThreadsCurrent` | the screen converges to the server |
| `screens` | one small instance for each of nine modules, with the fairness of `ScanPage` | `RouteAgrees`, `ScanSound`, `CameraReleased`, `SettingsAgree`, `CountsAgree`, `SearchShowsLast`, `DrawingRight`, `SharesWork`, `TreeSound`, `FramesSurvive` | late callbacks and answers leave no wrong screen; the algorithms do what they are for |
| `removed_excluded` | as `group` | `RemovedExcluded` | **violated**: a removed member opens the next epoch |
| `last_wallet` | 2 wallets, 2 requests in flight | `WalletRemains` | **violated**: two requests unlink the last two wallets |
| `lost_vault` | as `vault` | `VaultStillOpens` | **violated**: a file without its salt |
| `lost_epoch` | as `keys` | `NoEpochLost` | **violated**: an older list of commits undoes a newer one |

Each passing run takes between one and three minutes with two workers; the states are given where there are most or fewest.

The four violations are disagreements between the code and what its comments, documents or tests say; PROJECT.json quotes the
lines. In short:

* `plan_commit` blanks a node and in the same plan still seals the fresh key of its parent to the old key of that node.
  It happens when the removed member was the last one below the node.
  `ExcludedUnlessOrphaned` says that this is the only way, but for the overlap that heads the next list: any other user who is out is out after the rotation.
* `unlink_wallet` refuses the only wallet, but two requests for different wallets each count two. The first makes the other
  wallet primary, the second deletes that one, and nothing is left to log in with.
* `encryptState` reads the key before it waits for the cipher and the salt after it. A session that is revoked meanwhile
  (`sessionEnded`) sets the salt to null, and the file is written without one: no PIN opens it again. The comment at
  `data.js:283-284` promises that the keys stay and open with the same PIN.
* Calls of `syncTree` do not wait for each other. One with a shorter list works later than, or beside, a longer one and puts older node keys over newer ones while
  `processed` stays ahead: the next commit cannot be opened and counts as processed. `EpochsOpen` says that such calls are the only way.

Known disagreements that have no run of their own:

* `remove_member` locks nothing. When two requests take the same user out and an addition brings the user back between their commits, the
  second one takes the user out of the new leaf while its event names the old one. If the new leaf is in the tree by then (the confirmation of `create` sets the leaf of
  every active member), no event blanks it, and the user opens every later epoch. `NoQuickReturn` keeps
  this out of the model, as `OneAddAtATime` does its overlap. With `NoQuickReturn = FALSE`, two users, `MaxEvents = 4` and `MaxEpoch = 1` TLC finds
  `ExcludedUnlessOrphaned` violated in 19 steps.
* `confirm_membership` sets `rotation_pending` on a row that it has read as TRUE, which writes nothing, while a `tree_commit` that began before writes FALSE
  (`blockchain.py:278`): a rotation stays requested and the flag is down.
* A batch `submitted` whose message is never executed stays so (`blockchain.py:168`, section 3).

**Bounds.** `MaxChain`, `MaxPending`, `MaxEvents`, `MaxEpoch`, `MaxFaults`, `Slots` and `MaxLeaves` close the state space and are
named in the modules, as are the `Max...` constants of the client's. Two flushes, two workers and two transactions are what an interleaving of
two needs; one fault can fall between any two steps. One batch suffices for `journal_live` because no task
touches two; two batches are needed for `journal`, where an event might come under both, and two events let two flushes
select overlapping sets. `ScanLimit = 2` with a chain of 2 lets `Found` see everything; the proofs hold for any limit. Four leaves are the
smallest tree with an inner node off a removed member's path, and the smallest that grows (from 2).

In `accounts` two requests overlap, three devices allow a logout of two by each other beside a pairing, and with a quota of 1 the second
code depends on the first one's slot. Three tokens reach an exchange of one token by two requests, and a login after a revocation.
They do not reach a login whose stale read overwrites a revocation (four tokens do; a browser with two devices and no
pairing then has 32,000 states and satisfies the same invariants); the theorems cover it, for any number.

Three MC modules cut behaviours with a CONSTRAINT named `Bound`. In `MCVault` at most two asynchronous steps run at once and a behaviour is not
followed further when two kinds of overlap have happened in it: every pair of steps overlaps, three at once do not. In `MCKeys` two sends are under way,
with one unusual event (a lost answer, a reload, a second key made) and one frame per member. In `MCChat` one message expires, and only in a chat that is not cleared;
the list has two things on their way, at most one unusual event, and the window is hidden only with a chat open. The constraints are on
safety runs only; an excused race followed by another excused race is what they leave out. `MaxAttempts = 2` in the vault and `Tries = 2`
in the backup stand for the ten of the code: the counters are compared with them and nothing else. In `MCScreens`, three history entries are the fewest in which a Back can
land on the wrong one, two starts of the camera the fewest of which one may overtake the other, and three nodes the fewest in which a
marked node moves over another; batches of five events are the first with an odd level above the leaves.

**Fairness.** `FairSpec` of the journal is explained in section 3. `ScanFairness` says that a preview starts or fails within
its eight seconds, that the timer of 250 ms fires and that a look at a picture ends; the user may leave the browser's
question open for ever, and `CameraReleased` holds all the same. No other run needs any.

`CHECK_DEADLOCK` is off where the bounds end every behaviour. Symmetry is used in safety runs only.

Every property of a passing run has a mutant in PROJECT.json, a change of one definition that a plausible bug would
make, under which TLC finds the property violated.

## 11. What is proved

Eight modules hold machine-checked proofs. Every safety property that a run checks is a theorem, but for those of section 12; the runs show it on a
small instance, the theorem for every value of the constants that the named assumptions allow. The assumptions are that bounds are numbers and that the
values standing for "nothing" are none of the others; where more is assumed, the table says so.

| Module | About | Length of the argument |
|---|---|---|
| `ChainJournalProofs` | the journal, and that it implements `Journal` | three invariants |
| `PairingProofs` | the sessions and pairings of an account; the page that scans and approves | `SafeInv` and one invariant for each property |
| `GroupKeysProofs` | who can open the key of a group; one commit for each epoch; the keys that a member's client opens | `GroupInv`, four parts; `EpochInv`; `OpenInv`, seven parts |
| `VaultProofs` | the vault of a tab | `VaultInv`, ten parts |
| `RecoveryProofs` | the backup and its recovery; the page of a device being paired | `BackupInv`, five parts; `PageInvariant`, seven |
| `DirectKeysProofs` | the keys of a direct conversation | `KeyInv`, five parts |
| `ChatProofs` | the messages of a chat; the list of chats | `MessageInv`, five parts; `ThreadInv`, five |
| `ScreenProofs` | searches, settings, reactions, drawing, router | one invariant for each |

**The journal.** `ChainJournalProofs`, for every number of events, batches, workers and flushers, every retry
limit, every scan limit and any number of faults:

| Theorem | States | Assumes |
|---|---|---|
| `TypeCorrect` | `Spec => []TypeOK` | - |
| `ConfirmedOnlyWhenAnchored` | `Spec => []ConfirmedIsAnchored` | - |
| `EventsSealedOnce` | `Spec => []OneBatchPerEvent` | `LockCoversFlush` |
| `BatchConfirmedWhole` | `Spec => []ConfirmedBatchIsWhole` | `LockCoversFlush` |
| `JournalRefinement` | `Spec => ImplementsJournal` | `LockCoversFlush` |

All rest on the named assumptions about constants: the foreign transfer is no batch's comment, batches stand for their comments,
limits are natural numbers, `NoBatch` is no batch.

*Confirmed means anchored* is not inductive: a worker decides to confirm in one step and commits in a later one. The
strengthening `AnchorInv` adds what a worker about to commit has seen: its comment is on the chain. Chains only grow
(`AnchoredGrows`), so it stays true whatever runs in between, and `FoundIsAnchored` ties it to `_find`.

*Sealed once* needs to know that at most one flush is past its lock, and that what a flush selected is still queued when it
commits. `FlushInv` says both; it holds because a flush holds the lock from its first step to its last and, by
`LockCoversFlush`, the lock expires only when no flush is running. `SealInv` ties each event's `batch_id` to the one batch
whose leaves contain it, and the row's status to the existence of the batch.

*The refinement* maps an event's status to its stage, the leaves of a batch to what is sealed, and the comments on the chain to the anchored
batches. Each action of the code is one abstract step or a stutter: `Record`, `FlushCommit`, `Land` and
`ConfirmEvents` are the steps, and the abstract guards follow from the two invariants above.

**Accounts.** `PairingProofs`, for any number of devices, pairing requests, tokens and requests in flight, and any quota. They
rest on `RequestsAssumption`, `DevicesAssumption` and `LimitAssumption` alone:

| Theorem | States |
|---|---|
| `AccountTypeCorrect` | `Spec => []TypeOK` |
| `RevokedTokensStayOut` | `Spec => []RevokedStaysOut` |
| `OneLiveTokenPerDevice` | `Spec => []OneLiveToken` |
| `LogoutKeepsOneDevice` | `Spec => LastDeviceStays` |
| `RejectedNeverConnects` | `Spec => RejectedStaysOut` |
| `OpenCodesAreCounted` | `Spec => []OpenCodeIsCounted` |

*Type correctness* needs what a request in flight still knows when it writes (`JobsKnow`: its device and its token
exist, the device it is about to create does not) and that one completion at most holds the account (`OneIssuer`). `SafeInv` is
the three together; `UserFree` is what keeps the last part of `JobsKnow` true while a completion is under way.

*A revoked token stays out* although logins reset `revoked_at`, because the reset keeps the moment in `tokens_revoked_at`.
That replaces an earlier moment, so `RevokedInv` adds that the later one includes it, for every device
whose revocations were not overwritten.

*One live token* is proved as `LiveInv`, that two live tokens of a device which are not late are equal, and turned into a
cardinality at the end. An exchange adds a token and takes its predecessor away, or else the new one is late.

*The last device stays* has no invariant: a logout counts and revokes in the same locked step, and no other step
but reuse detection revokes without sparing one.

*Pairing*: `PairingInv` says that a request has a device, or a completion about to commit one, only after its record was completed, and
that a refund is due only for a rejected record. A completed record is never rejected, and a rejected one stays so.

**Direct keys.** `DirectKeysProofs`, for the two members of a chat and any number of sends, epochs, keys made, lost answers and resets, from
`DirectAssumption` alone:

| Theorem | States |
|---|---|
| `DirectTypeCorrect` | `DirectSpec => []DirectTypeOK` |
| `ClientsKeepServerKeys` | `DirectSpec => []KeysAgree` |
| `AcceptedMessagesOpen` | `DirectSpec => []MessagesReadable` |
| `FirstEpochSuffices` | `DirectSpec => []OneEpochUntilReset` |

None of the three properties is inductive: they say nothing of what is on its way. `KeyInv` adds that every epoch in a send, a list, a
frame or a reload is one the server knows, that a send that has sealed or posted has the server's key, that the epoch after the current one has no key yet,
and that, as long as nobody has reset, only epoch 1 is ever being made. It has five parts (`ServerTypes`, `ServerSound`, `ClientTypes`,
`ClientSound`, `SendsSound`), and each action has a lemma.

**The scanning page.** `PairingProofs` ends with `ScanIsSound`, `ScanSpec => []ScanSound`, for any codes, starts of the camera and late callbacks; it
assumes nothing. The camera and the approvals have an invariant each, since no step of one touches the other. `CameraInv`: one run of
`startScanner` is current, and while it waits for the browser's permission no stream is on, so a stream that comes is the only one.
`AnswerInv`: an operation is numbered by the inspection it began with, and an inspection that is still to be answered has neither been shown nor posted,
so an answer never meets an envelope of an earlier operation.

**One commit per epoch.** `GroupKeysProofs`, `OneCommitWins`: `Spec => OneCommitPerEpoch`, an action property. A commit carries the epoch it read
through its wait for the lock. `EpochInv` says that this is the next epoch or one that is taken already, which the UNIQUE key refuses.

**Who can open the group key.** `GroupKeysProofs`, for any number of users, overlapping transactions, changes and epochs and a tree of any number of leaves:

| Theorem | States | Assumes |
|---|---|---|
| `GroupTypeCorrect` | `Spec => []TypeOK` | `OneAddAtATime` |
| `GroupSecretExcludes` | `Spec => []ExcludedUnlessOrphaned` | `ConfirmIsSlow`, `OneAddAtATime`, `NoQuickReturn` |
| `GroupSecretReaches` | `Spec => []MembersHoldSecret` | the same three |

The three assumptions are the constants of section 4, TRUE in the runs; each names an overlap that the code does not prevent. `GroupAssumption` adds that the largest tree has a power
of two of leaves. Users, transactions and events are unbounded in number.

None of the three invariants is inductive. A transaction writes what it decided from a snapshot that others have overtaken, and the two about the secret say nothing
of the nodes below the root, of the leaves, or of a commit under way. `GroupInv` adds four things:

* `TypesInv`: what a transaction carries (a leaf, a capacity, the plan of a commit) fits the tree as it is. Trees only grow, so only another addition could outdate
  a capacity that an addition carries.
* `SeatInv`: no leaf has two members; a leaf of the tree has the identity key of the member who sits there, or of one whose removal waits to be confirmed; and a member of whom
  nothing waits has the leaf. A transaction in flight remembers what is still so, or an event that it has not seen corrects it (`JobHolds`). Because events wait
  for their confirmation, the correction comes after the stale write: this is where `ConfirmIsSlow` is needed. A confirmation in flight is of an event that every other transaction
  in flight has seen, and a user being added is not being removed (`JobsApart`, `NoQuickReturn`).
* `KeysInv`: who holds the key of a node has a leaf below it, or had one and the rotation for that is outstanding, or is `orphaned` (`NodesHeld`); who sits below a key and of whom nothing is
  outstanding holds it (`NodesOpen`); the same of the group key; and of a commit in flight whose epoch is not taken, that its plan will keep both true (`CommitHolds`).
* `EpochInv`, as above: a commit whose epoch is still free was planned on the node keys as they are.

`CommitHolds` is proved when a commit is planned. The plan has every key above a changed leaf, to refresh or to blank it (`PlanReaches`), and blanks none above a leaf that is taken
(`PlanKeepsTaken`). Who opens a fresh key opens one of its targets; by the least fixed point in `HoldersAfter` the users entitled to a fresh key include all who open it (`OpenEntitled`),
and, from the lowest node that could be an exception, everyone who sits below opens it (`SettledOpen`). The one exception to the first is the key that the same plan blanks:
that is the `orphaned` of `ExcludedUnlessOrphaned`, and `RemovedExcluded` shows that it is needed. Membership changes only move on (`Moves`), which keeps a plan good until its commit.

Of the tree the argument uses that the subtrees of a node and of a node below it are nested (`Nested`), that every leaf below a node is below one of its children (`Children`), that a resolution reaches every
nonblank node below (`ResolutionCovers`), and that a capacity is the least power of two that suffices (`CapacityForIs`).

**The epochs a client opens.** `GroupKeysProofs`, `EpochsAreOpen`: `GroupClientSpec => []EpochsOpen`, for a tree of any capacity, any number of calls of `syncTree`, epochs, changes and
resets. `GroupClientAssumption` says that the capacity is a power of two (all ones below the top, `Ones[Capacity - 1] = Capacity - 1`) and more than one leaf: a group with one leaf has no inner node.

The argument follows the way from leaf 0 up to the root (`MyPath`: the nodes whose number is all ones). `PlanSound` says what a plan does there: the nodes that get a fresh key reach the root without a gap, none is blanked, and each is
sealed to its left child, fresh or not. `CommitSound` says so of every commit that was stored, and that from `calm` on every one is sealed to the member's own key and leaves no node
of the way blank. `InStep(k)` ties the client to this: before it works on epoch `k`, every key it holds on the way is the one of epoch `k - 1`, or of an epoch already
processed that replaces it; `WorkSound` has it for the one call at work, and for the next epoch when none is. `OpensOrReplaced` is the step: by the least node for which it could fail, a commit's fresh keys on the way open one after the other.
Since it always replaces the root, its epoch is read. A list that is answered before another call works makes the client pass the same commits again: `Rejoins` says that it is in step with every epoch it has passed.

`Ones` is recursive, and the prover knows of it only its equation, once it is known that a function with this equation exists. `OnesIs` proves that from the least number for which there is none, with the well-foundedness of the order on numbers,
and the facts about the tree by the same means: an induction whose property is written in place, where the library's theorem would take it as a parameter.

**The vault.** `VaultProofs`, for any number of PINs, salts, saves, checks and sessions:

| Theorem | States |
|---|---|
| `VaultTypes` | `VaultSpec => []VaultTypeOK` |
| `VaultOpens` | `VaultSpec => []PinOpensVault` |
| `VaultKeepsToken` | `VaultSpec => []VaultHoldsToken` |
| `TokensPresentedOnce` | `VaultSpec => []TokenPresentedOnce` |
| `WrongPinsBounded` | `VaultSpec => []GuessesBounded` |

`PinOpensVault` speaks of a tab in which nothing runs. `KeyInv` says which key each save took: the one in memory, or one that is not older than the newest, and
that the salt belongs to the key unless a derivation is under way. The two properties of tokens need to know at every moment where the one token that counts is:
in memory, in the answer that has just come, in the save that follows it, in the hand-over of the login page or in the file (`TokenInv`, `ExchangeInv`).
`GuessesBounded` is a matter of counting: once the limit is reached, the guesses still possible are the checks that had begun (`CountInv`).

**Backup and pairing page.** `RecoveryProofs`, for any number of realms, versions, devices, runs of `recover` and codes:

| Theorem | States |
|---|---|
| `BackupTypes` | `BackupSpec => []BackupTypeOK` |
| `RecoveryIsSound` | `BackupSpec => []RecoverySound` |
| `PageTypes` | `PairingPageSpec => []PairingPageTypeOK` |
| `NothingIsOrphaned` | `PairingPageSpec => []NothingOrphaned` |

*Recovery*: an older version never replaces a newer one in a realm, and every realm that the task of the latest version is done with has the latest (`ShareInv`), so the shares
a recovery collects are of its version (`OpenInv`). A wrong passcode is counted in Redis only when its run ends: `CountedInv` bounds what is refused and not yet counted
by the runs that will count it. `FairInv` says that a realm refuses a right passcode only if its share was not of the version asked for.

*The page*: `OwnRecordInv` and `OwnVaultInv` say whose a record and a vault are at every step: of the page, of the answer on its way, or of a `cancel` or `clearPairing`
that will take it away. `FlowInv` and `FinishInv` say which of creating, polling, finishing and leaving can be under way together.

**Messages and the list of chats.** `ChatProofs`, for any number of messages, chats, pages, frames and requests:

| Theorem | States |
|---|---|
| `MessageTypes` | `MessageSpec => []MessageTypeOK` |
| `ListFollowsLog` | `MessageSpec => []ListIsTheLog` |
| `DraftsAreSettled` | `MessageSpec => []DraftsSettle` |
| `ThreadTypes` | `ThreadSpec => []ThreadTypeOK` |
| `ListIsCurrent` | `ThreadSpec => []ThreadsCurrent` |

*Messages*: all three properties speak of a chat for which nothing is on its way. `ListInv` says that the list is the log from `hasMore` on but for what is coming,
and `PageInv` the same of the list that a page which was not overtaken would leave if it came now. `QueueInv` orders what is stored, what is being sent and what waits;
`EntryInv` ties the mark of an entry (saved, pending, failed) to what became of its draft.

*Chats*: of the requests for the list one is the newest (`NewestInv`), and its answer will bring the chats the user is in, or has brought them, unless a reload is due (`MemberInv`).
A counter is right when it and what is still to be counted (frames on their way, messages being decrypted) make the server's counter; `AnswerInv` says so of the counters in an
answer that crossed nothing, `ListedInv` of the counters shown. Frames on their way may be equal, so they are counted by the places at which they stand (`Times`).
The proof attempt found a gap in an earlier version of the model: the history variable did not record that a frame read while an answer was on its way is
counted twice when the chat had not been listed. `OnMessage` now marks such answers as crossed, and the property holds without a bound.

**The screens.** `ScreenProofs`, for any number of words, switches, emojis, nodes, history entries and requests under way:

| Theorem | States |
|---|---|
| `LastSearchWins` | `SearchSpec => []SearchShowsLast` |
| `SettingsFollowServer` | `SettingsSpec => []SettingsAgree` |
| `CountsFollowServer` | `ReactionSpec => []CountsAgree` |
| `PageIsDrawn` | `RenderingSpec => []DrawingRight` |
| `RouterTypeCorrect` | `RouterSpec => []RouterTypeOK` |
| `AddressFollowsScreen` | `RouterSpec => []RouteAgrees` |
| `OwnBackIsQuiet` | `RouterSpec => OwnBackKeepsScreen` |

*Searches*: only the answer with the counter's number is shown. `SearchInv` says that the search with that number was for the text in the field, and is on its way or was answered.
*Settings*: a read that may still be applied has no PATCH beside it, and a page that shows another value than the stored one has such a read on its way (`SettingsInv`).
*Reactions*: the last frame on its way has the counts of now, and the rows that a failed change would put back are those of now unless a frame is on its way (`ReactionInv`).
*Drawing*: a drawing follows one markup from its beginning to its end although handlers of removed fields change the state: what is placed and what is left to place are that markup,
which is the wanted one unless `dirty` promises another drawing. A marked node of before is placed, or still behind the cursor where its fresh copy will find it (`RenderingInv`).
*Router*: `RouteAgrees` says nothing while a Back is on its way, nor why the flag that waits for it is ever taken down. `RouteInv` adds that the flag is up
only for a Back that is on its way and has an entry to go to (`FlagIsDue`, `FirstIsFirst`), that an address which differs is excused by the flag
(`Agreed`), and that there is one Back at a time unless the user went Back or Forward in between (`OneBackUnlessMixed`). `OwnBackKeepsScreen` is
proved and not run.

All these parts of the client are proved each on its own specification, as each is checked on its own in the sums of section 2.

**Types.** The type invariants of the journal, of accounts, of direct keys, of the list of chats, of the pairing page, of the backup and of the router are theorems and not checked by
the runs. Those of the groups, of the vault and of the messages are both. The remaining modules carry theirs inside the invariants above.

## 12. Limits

Only model-checked:

* `EventIsBatched` and `PendingIsResolved` of the journal, `CameraReleased` of the camera: liveness, for which the prover has no rule.
* That the paths and resolutions of `KeyTree` are those of the walks (`PathsAreWalks` and `ResolutionsAreWalks` in `MCKeys`): induction over the tree.
* `SharesWork`, `TreeSound` and `FramesSurvive`: `SecretShares`, `MerkleTree` and `WireFormat` compute by recursion over data; TLC evaluates them on small ones.
* The four violations, which are counterexamples.

Taken as perfect: what is sealed to a key opens only with its private key, what is signed verifies, digests do not collide, random values
are new. The bytes of envelopes and of TON proofs are not modelled.

Not modelled, within what is modelled:

* journal: the notification after a confirmation; the mock gateway; `proof_for`, which only reads;
* groups: title and avatar; network errors inside the membership tasks, which repeat those of the batch tasks; several invitees in
  one `add_members`; the page of 100 of `tree_commits`; the timer before a client's rotation;
* accounts: the one-time payload of `challenge`; the expiry of tokens and the suspension of accounts, which only refuse; the account
  that `inspect` binds a pairing to; `revoke_all`, which nothing calls;
* messages: on the server, each request is one step. The overlaps of transactions inside `send` (an epoch and a membership read before the thread
  is locked, watermarks written from a snapshot), the delivered watermark, `reconcile_unread`, forwarding and attachments are not modelled;
* the socket: the server's queues, which drop when full, its subscription after the authentication, typing and presence;
* the page: menus, dialogs, resizing and scrolling; the block list and reports, which are reads and writes of single rows.

Not modelled at all: the rate limiter (one atomic pipeline in Redis), maintenance, media and push delivery (input and output), deployment files.
