--------------------------- MODULE ChequebookInit ---------------------------
(***************************************************************************)
(* chequebook.Init (src/unnamed/part_009): on start-up the node looks up   *)
(* its chequebook in the state store; without one it deploys a chequebook *)
(* through the factory, records the deployment transaction, waits for it, *)
(* records the chequebook address and makes the initial deposit.          *)
(*                                                                         *)
(* Two stores outlive a run of Init: the state store (the keys            *)
(* swap_chequebook_transaction_deployment and swap_chequebook) and the    *)
(* chain (deployment transactions and deposits).  Everything else is the  *)
(* run's own and is lost when the node stops: an error returned by any    *)
(* call ends the run like a crash does, and the node is started again.    *)
(* A chequebook is identified with the transaction that deployed it.      *)
(***************************************************************************)
EXTENDS Naturals, FiniteSets

CONSTANTS
    TxIds,            \* bound: the deployment transactions the factory may send
    DepositEnabled,   \* swapInitialDeposit # 0
    CanRevert,        \* whether a mined deployment transaction may revert
    MaxFailures,      \* bound: errors and crashes that end a run of Init
    None              \* a key missing from the state store; an unset local

ASSUME /\ DepositEnabled \in BOOLEAN /\ CanRevert \in BOOLEAN
       /\ MaxFailures \in Nat
       \* every run that deploys and fails before recording it uses a new id
       /\ Cardinality(TxIds) > MaxFailures
       /\ None \notin TxIds

VARIABLES
    deployKey,  \* state store: swap_chequebook_transaction_deployment
    bookKey,    \* state store: swap_chequebook
    chain,      \* per transaction: "unsent", "pending", "deployed", "reverted"
    deposits,   \* chequebooks an initial deposit transaction was sent to
    pc,         \* where the current run of Init is
    tx,         \* Init's local txHash
    book,       \* Init's local chequebookAddress
    failures    \* runs ended by an error or a crash so far

vars == <<deployKey, bookKey, chain, deposits, pc, tx, book, failures>>

store == <<deployKey, bookKey>>

Init ==
    /\ deployKey = None /\ bookKey = None
    /\ chain = [t \in TxIds |-> "unsent"]
    /\ deposits = {}
    /\ pc = "start" /\ tx = None /\ book = None
    /\ failures = 0

(***************************************************************************)
(* After VerifyBytecode and ERC20Address: Get(chequebookKey).  A stored   *)
(* chequebook is used as it is; otherwise a stored deployment transaction *)
(* is waited for, and without one a new chequebook is deployed.           *)
(***************************************************************************)
LoadStore ==
    /\ pc = "start"
    /\ \/ /\ bookKey # None
          /\ book' = bookKey /\ pc' = "verify"
          /\ UNCHANGED tx
       \/ /\ bookKey = None /\ deployKey = None
          /\ pc' = "deploy"
          /\ UNCHANGED <<tx, book>>
       \/ /\ bookKey = None /\ deployKey # None
          /\ tx' = deployKey /\ pc' = "wait"
          /\ UNCHANGED book
    /\ UNCHANGED <<deployKey, bookKey, chain, deposits, failures>>

\* checkBalance passed; Deploy sends the deployment transaction
Deploy ==
    /\ pc = "deploy"
    /\ \E t \in TxIds :
          /\ chain[t] = "unsent"
          /\ chain' = [chain EXCEPT ![t] = "pending"]
          /\ tx' = t
    /\ pc' = "putDeploy"
    /\ UNCHANGED <<deployKey, bookKey, deposits, book, failures>>

\* Put(chequebookDeploymentKey, txHash)
PutDeploy ==
    /\ pc = "putDeploy"
    /\ deployKey' = tx
    /\ pc' = "wait"
    /\ UNCHANGED <<bookKey, chain, deposits, tx, book, failures>>

\* the chain includes a deployment transaction; it may revert
Mine(t) ==
    /\ chain[t] = "pending"
    /\ \/ chain' = [chain EXCEPT ![t] = "deployed"]
       \/ CanRevert /\ chain' = [chain EXCEPT ![t] = "reverted"]
    /\ UNCHANGED <<deployKey, bookKey, deposits, pc, tx, book, failures>>

(***************************************************************************)
(* WaitDeployed(txHash) blocks until the transaction is mined; a reverted *)
(* deployment is an error, which Init returns.                            *)
(***************************************************************************)
\* mutant: the receipt's status is not checked
WaitDeployedUnchecked ==
    /\ pc = "wait"
    /\ chain[tx] \in {"deployed", "reverted"}
    /\ book' = tx /\ pc' = "putBook"
    /\ UNCHANGED <<deployKey, bookKey, chain, deposits, tx, failures>>

WaitDeployed ==
    /\ pc = "wait"
    /\ \/ chain[tx] = "deployed" /\ book' = tx /\ pc' = "putBook"
       \/ chain[tx] = "reverted" /\ pc' = "failed" /\ UNCHANGED book
    /\ UNCHANGED <<deployKey, bookKey, chain, deposits, tx, failures>>

\* Put(chequebookKey, address), then New; the deposit only if one is set
PutBook ==
    /\ pc = "putBook"
    /\ bookKey' = book
    /\ pc' = IF DepositEnabled THEN "deposit" ELSE "verify"
    /\ UNCHANGED <<deployKey, chain, deposits, tx, book, failures>>

\* Deposit sends the deposit transaction
SendDeposit ==
    /\ pc = "deposit"
    /\ deposits' = deposits \cup {book}
    /\ pc' = "waitDeposit"
    /\ UNCHANGED <<deployKey, bookKey, chain, tx, book, failures>>

\* WaitForDeposit returns
WaitForDeposit ==
    /\ pc = "waitDeposit"
    /\ pc' = "verify"
    /\ UNCHANGED <<deployKey, bookKey, chain, deposits, tx, book, failures>>

\* VerifyChequebook accepts a chequebook the factory deployed; Init returns
Verify ==
    /\ pc = "verify"
    /\ pc' = "done"
    /\ UNCHANGED <<deployKey, bookKey, chain, deposits, tx, book, failures>>

(***************************************************************************)
(* Any call of a run may return an error (the run returns it) or the node *)
(* may crash: the run's locals are lost, the stores are not.  A restart   *)
(* runs Init again from the top.                                           *)
(***************************************************************************)
Fail ==
    /\ pc \notin {"done", "failed"}
    /\ failures < MaxFailures
    /\ pc' = "failed"
    /\ failures' = failures + 1
    /\ UNCHANGED <<deployKey, bookKey, chain, deposits, tx, book>>

Restart ==
    /\ pc = "failed"
    /\ pc' = "start" /\ tx' = None /\ book' = None
    /\ UNCHANGED <<deployKey, bookKey, chain, deposits, failures>>

Progress ==
    \/ LoadStore \/ Deploy \/ PutDeploy \/ WaitDeployed \/ PutBook
    \/ SendDeposit \/ WaitForDeposit \/ Verify \/ Restart

Next == Progress \/ Fail \/ \E t \in TxIds : Mine(t)

(***************************************************************************)
(* Init runs its calls one after another as long as it is running, the    *)
(* node is restarted after a failed start, and a sent transaction is      *)
(* eventually mined.  Failures get no fairness.                           *)
(***************************************************************************)
Spec == Init /\ [][Next]_vars /\ WF_vars(Progress) /\ \A t \in TxIds : WF_vars(Mine(t))

-----------------------------------------------------------------------------
PCs == {"start", "deploy", "putDeploy", "wait", "putBook", "deposit", "waitDeposit",
        "verify", "done", "failed"}

(* Every variable stays in its domain. *)
TypeOK ==
    /\ deployKey \in TxIds \cup {None} /\ bookKey \in TxIds \cup {None}
    /\ chain \in [TxIds -> {"unsent", "pending", "deployed", "reverted"}]
    /\ deposits \subseteq TxIds
    /\ pc \in PCs /\ tx \in TxIds \cup {None} /\ book \in TxIds \cup {None}
    /\ failures \in 0 .. MaxFailures

(* Across any number of failed starts, the chequebook the state store      *)
(* records is a deployed (not reverted) chequebook, the one created by the *)
(* deployment transaction the store records: Init stores an address only  *)
(* after WaitDeployed returned it for the recorded transaction.           *)
StoredChequebookDeployed ==
    bookKey # None => /\ chain[bookKey] = "deployed"
                      /\ deployKey = bookKey

(* The deployment record exists so that a restarted Init waits for the    *)
(* chequebook it already deployed: the node never deploys a second one.   *)
SingleDeployment ==
    Cardinality({t \in TxIds : chain[t] # "unsent"}) <= 1

(* Whenever Init returns a chequebook and an initial deposit is set, that *)
(* chequebook has been sent its initial deposit.                          *)
InitialDepositMade ==
    pc = "done" /\ DepositEnabled => book \in deposits

=============================================================================
