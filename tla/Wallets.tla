------------------------------- MODULE Wallets --------------------------------
(***************************************************************************)
(* The TON wallets of one account: link_wallet and unlink_wallet of        *)
(* src/backend/app/services/auth_service.py.  A wallet is what its owner   *)
(* logs in with.  unlink_wallet counts the wallets in the snapshot of its  *)
(* transaction and locks nothing, so it is a read and a write; job[s] is   *)
(* such a request between the two.                                         *)
(***************************************************************************)
EXTENDS Naturals, FiniteSets

CONSTANTS
    Wallets,    \* bound: wallets the owner has
    Slots       \* bound: requests in flight at the same time

VARIABLES
    wallet,     \* wallet[w]: the row of user_wallets
    job         \* job[s]: an unlink_wallet that has read and not committed

vars == <<wallet, job>>

Idle == [op |-> "idle"]

Linked == {w \in Wallets : wallet[w] # "none"}

(* The first login creates the account with its wallet. *)
Init ==
    /\ \E w \in Wallets : wallet = [v \in Wallets |-> IF v = w THEN "primary" ELSE "none"]
    /\ job = [s \in Slots |-> Idle]

(* link_wallet: the new wallet becomes the primary one. *)
Link(w) ==
    /\ w \notin Linked
    /\ wallet' = [v \in Wallets |-> CASE v = w -> "primary"
                                      [] v \in Linked \ {w} -> "linked"
                                      [] OTHER -> "none"]
    /\ UNCHANGED job

(* The only wallet is not unlinked.  When none of the rest is primary, the *)
(* last of them is to be.                                                  *)
UnlinkRead(s, w) ==
    LET rest == Linked \ {w}
    IN  /\ job[s] = Idle
        /\ w \in Linked /\ rest # {}
        /\ \E heir \in rest :
             job' = [job EXCEPT ![s] = [op |-> "unlink", wallet |-> w,
                       heirs |-> IF \E v \in rest : wallet[v] = "primary" THEN {} ELSE {heir}]]
        /\ UNCHANGED wallet

(* The row is deleted by its id; an UPDATE of an heir that is gone fails   *)
(* the request.                                                            *)
UnlinkWrite(s) ==
    /\ job[s].op = "unlink"
    /\ IF job[s].heirs \subseteq Linked
       THEN wallet' = [v \in Wallets |-> CASE v = job[s].wallet -> "none"
                                           [] v \in job[s].heirs -> "primary"
                                           [] OTHER -> wallet[v]]
       ELSE UNCHANGED wallet
    /\ job' = [job EXCEPT ![s] = Idle]

Next ==
    \/ \E w \in Wallets : Link(w) \/ \E s \in Slots : UnlinkRead(s, w)
    \/ \E s \in Slots : UnlinkWrite(s)

Spec == Init /\ [][Next]_vars

----------------------------------------------------------------------------
(* "единственный кошелёк - единственный способ входа, отвязать нельзя":    *)
(* an account keeps a wallet to log in with.                               *)
WalletRemains == Linked # {}

=============================================================================
