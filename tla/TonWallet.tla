------------------------------ MODULE TonWallet ------------------------------
(***************************************************************************)
(* The service wallet of CryptisDchat on TON as the ToncenterGateway of    *)
(* src/worker/gateways/ton.py sees it: a chain of executed transfers, each *)
(* carrying one text comment, and the external messages that toncenter has *)
(* accepted but the wallet contract has not executed yet.                  *)
(*                                                                         *)
(* The wallet executes an external message only when its seqno is the      *)
(* number of messages executed so far.  Of the messages in flight at any   *)
(* moment, all signed for the same seqno, one is executed and the others   *)
(* are rejected; a message can also expire (valid_until) or be lost.       *)
(***************************************************************************)
EXTENDS Naturals, Sequences

CONSTANTS
    Comments,   \* anchor texts the application may write, one per batch
    Foreign,    \* any other transfer of the wallet (group membership anchors)
    ScanLimit,  \* SCAN_LIMIT: how many of the latest transactions _find reads
    MaxChain    \* bound: the model's chain stops growing at this length

ASSUME ForeignAssumption == Foreign \notin Comments
ASSUME ScanLimitAssumption == ScanLimit \in Nat \ {0}
ASSUME MaxChainAssumption == MaxChain \in Nat

VARIABLES
    chain,      \* executed transfers, oldest first; Len(chain) is the seqno
    inflight    \* comments of the external messages signed for that seqno

walletVars == <<chain, inflight>>

WalletTypeOK ==
    /\ chain \in Seq(Comments \union {Foreign})
    /\ inflight \subseteq Comments \union {Foreign}

WalletInit ==
    /\ chain = <<>>
    /\ inflight = {}

(* The comments that stand anywhere on the chain. *)
Anchored == {chain[i] : i \in DOMAIN chain}

(* _find(comment).confirmed: the comment is in the scanned suffix. *)
Found(c) == \E i \in DOMAIN chain : i + ScanLimit > Len(chain) /\ chain[i] = c

(* anchor(): _seqno() followed by /sendBoc.  A message already in flight   *)
(* with the same comment and seqno is the same external message.           *)
SendBoc(c) ==
    /\ inflight' = inflight \union {c}
    /\ UNCHANGED chain

(* The wallet contract executes one message in flight and thereby rejects  *)
(* the others, which carry the seqno just used.                            *)
Land ==
    /\ Len(chain) < MaxChain
    /\ \E c \in inflight : chain' = Append(chain, c)
    /\ inflight' = {}

(* An external message expires or never reaches a validator. *)
Drop ==
    /\ \E c \in inflight : inflight' = inflight \ {c}
    /\ UNCHANGED chain

(* The membership task signs a transfer of its own from the same wallet. *)
ForeignTransfer ==
    /\ Foreign \notin inflight
    /\ SendBoc(Foreign)

=============================================================================
