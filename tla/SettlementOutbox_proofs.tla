----------------------- MODULE SettlementOutbox_proofs -----------------------
(***************************************************************************)
(* The outbox pays at most once, for any number of transfers, concurrent   *)
(* workers and fee quotes, and whatever the network, the stale-claim sweep *)
(* and crashes do.                                                         *)
(*                                                                         *)
(* The argument: a row gets at most one nonce and no two rows share one;   *)
(* every signature that ever leaves a worker carries the nonce of its row; *)
(* and the chain mines one transaction per nonce.  None of this rests on   *)
(* status, which the unconditional updates of the error paths may set back *)
(* at any time.                                                            *)
(***************************************************************************)
EXTENDS SettlementOutbox, SequenceTheorems, FiniteSetTheorems, WellFoundedInduction, TLAPS

\* A nonce, once handed out, is below the counter and belongs to one row.
NoncesAreExclusive ==
    /\ \A t \in Transfers : nonce[t] # Null => nonce[t] < nextNonce
    /\ \A t, u \in Transfers : nonce[t] # Null /\ nonce[t] = nonce[u] => t = u

\* A signature carries the nonce of the row it was made for.
Owned(tx) == nonce[tx.transfer] = tx.nonce

\* So do the rows' signatures and those the network has.
SignaturesAreOwned ==
    /\ \A t \in Transfers : raw[t] # Null => raw[t].transfer = t /\ Owned(raw[t])
    /\ \A tx \in mempool : Owned(tx)
    /\ \A i \in DOMAIN chain : Owned(chain[i].tx)

\* A worker's copies agree with the row it works on.
Agrees(w) ==
    /\ pc[w] = "idle" => claimed[w] = Null
    /\ pc[w] # "idle" => job[w] \in Transfers
    /\ claimed[w] # Null => job[w] \in Transfers /\ nonce[job[w]] = claimed[w]
    /\ pc[w] = "sign" => claimed[w] # Null
    /\ pc[w] \in Sending => held[w] # Null
    /\ held[w] # Null => held[w].transfer = job[w] /\ Owned(held[w])

WorkersAgree == \A w \in Workers : Agrees(w)

\* Nonce n is the wallet's (n + 1)-th mined transaction.
ChainIsInOrder == \A i \in DOMAIN chain : chain[i].tx.nonce = i - 1

IInv ==
    /\ TypeOK
    /\ NoncesAreExclusive
    /\ SignaturesAreOwned
    /\ WorkersAgree
    /\ ChainIsInOrder

-----------------------------------------------------------------------------

\* The larger of two naturals is a natural that both are at most.
LEMMA LargerNat ==
    ASSUME NEW a \in Nat, NEW b \in Nat
    PROVE  Larger(a, b) \in Nat /\ Larger(a, b) >= a /\ Larger(a, b) >= b
BY DEF Larger

\* The initial state has the types and satisfies the inductive invariant.
LEMMA InitIInv == Init => IInv
<1> SUFFICES ASSUME Init PROVE IInv
    OBVIOUS
<1>1. TypeOK
    BY EmptySeq DEF Init, TypeOK, Status, Final, Pc, Signing, Sending
<1>2. NoncesAreExclusive /\ SignaturesAreOwned /\ ChainIsInOrder
    BY DEF Init, NoncesAreExclusive, SignaturesAreOwned, ChainIsInOrder
<1>3. WorkersAgree
    BY DEF Init, WorkersAgree, Agrees, Sending
<1> QED
    BY <1>1, <1>2, <1>3 DEF IInv

-----------------------------------------------------------------------------
(* Every step keeps the types *)

\* Every step of the outbox, its workers and the network keeps the types.
LEMMA TypeStep == TypeOK /\ WorkersAgree /\ [Next]_vars => TypeOK'
<1> SUFFICES ASSUME TypeOK, WorkersAgree, [Next]_vars PROVE TypeOK'
    OBVIOUS
<1> USE NullAssumption
<1> USE DEF TypeOK, Status, Final, Pc, Signing, Sending, Goto, Finish
<1>1. ASSUME NEW t \in Transfers, QueueTransfer(t) \/ ReclaimStale(t) PROVE TypeOK'
    BY <1>1 DEF QueueTransfer, ReclaimStale, workerVars, netVars
<1>2. ASSUME Mine PROVE TypeOK'
    <2>1. PICK tx \in mempool, ok \in BOOLEAN : chain' = Append(chain, [tx |-> tx, ok |-> ok])
        BY <1>2 DEF Mine
    <2>2. chain' \in Seq([tx : SignedTx, ok : BOOLEAN])
        BY <2>1
    <2> QED
        BY <1>2, <2>2 DEF Mine, rowVars, workerVars
<1>3. ASSUME Evict PROVE TypeOK'
    BY <1>3 DEF Evict, rowVars, workerVars
<1>4. ASSUME NEW w \in Workers, WorkerStep(w) PROVE TypeOK'
    <2> USE DEF WorkersAgree, Agrees
    <2>1. ASSUME NEW t \in Transfers, Begin(w, t) PROVE TypeOK'
        BY <2>1 DEF Begin, rowVars, netVars
    <2>2. CASE Claim(w)
        BY <2>2 DEF Claim, netVars
    <2>3. CASE ClaimLost(w) \/ RereadNothing(w) \/ Crash(w)
        <3>1. Finish(w) /\ UNCHANGED <<rowVars, nextNonce, netVars>>
            BY <2>3 DEF ClaimLost, RereadNothing, Crash
        <3> QED
            BY <3>1 DEF rowVars, netVars
    <2>4. CASE ReadNetworkNonce(w)
        <3>1. PICK n \in 0 .. PendingCount : count' = [count EXCEPT ![w] = n]
            BY <2>4 DEF ReadNetworkNonce
        <3> QED
            BY <2>4, <3>1 DEF ReadNetworkNonce, rowVars, netVars
    <2>5. CASE AllocateNonce(w)
        <3>1. FreshNonce(w) \in Nat /\ FreshNonce(w) + 1 \in Nat
            <4>1. count[w] \in Nat /\ nextNonce \in Nat
                OBVIOUS
            <4> HIDE DEF TypeOK
            <4>2. Larger(count[w], nextNonce) \in Nat
                BY <4>1, LargerNat
            <4> QED
                BY <4>2 DEF FreshNonce
        <3>2. job[w] \in Transfers
            BY <2>5 DEF AllocateNonce
        <3>3. KeepsNonce(w) => (IF claimed[w] # Null THEN claimed[w] ELSE nonce[job[w]]) \in Nat
            BY <3>2 DEF KeepsNonce
        <3>4. CASE KeepsNonce(w)
            BY <2>5, <3>3, <3>4 DEF AllocateNonce, netVars
        <3>5. CASE ~ KeepsNonce(w)
            <4>1. /\ claimed' = [claimed EXCEPT ![w] = FreshNonce(w)]
                  /\ nonce' = [nonce EXCEPT ![job[w]] = FreshNonce(w)]
                  /\ nextNonce' = FreshNonce(w) + 1
                BY <2>5, <3>5 DEF AllocateNonce
            <4>2. claimed' \in [Workers -> Nat \cup {Null}] /\ nonce' \in [Transfers -> Nat \cup {Null}]
                BY <4>1, <3>1
            <4> QED
                BY <2>5, <3>1, <4>1, <4>2 DEF AllocateNonce, netVars
        <3> QED
            BY <3>4, <3>5
    <2>6. CASE Sign(w)
        <3>1. job[w] \in Transfers /\ claimed[w] \in Nat
            BY <2>6 DEF Sign
        <3>2. PICK fee \in Fees :
                  LET tx == [transfer |-> job[w], nonce |-> claimed[w], fee |-> fee]
                  IN  IF status[job[w]] = "signing"
                      THEN /\ raw' = [raw EXCEPT ![job[w]] = tx]
                           /\ status' = [status EXCEPT ![job[w]] = "prepared"]
                      ELSE UNCHANGED <<raw, status>>
            BY <2>6 DEF Sign
        <3>3. [transfer |-> job[w], nonce |-> claimed[w], fee |-> fee] \in SignedTx
            BY <3>1 DEF SignedTx
        <3>4. raw' \in [Transfers -> SignedTx \cup {Null}]
            BY <3>2, <3>3
        <3>5. status' = [status EXCEPT ![job[w]] = "prepared"] \/ status' = status
            BY <3>2
        <3>6. /\ pc' = [pc EXCEPT ![w] = "reread"]
              /\ UNCHANGED <<nonce, nextNonce, job, held, claimed, count, mempool, chain>>
            BY <2>6 DEF Sign, netVars
        <3> QED
            BY <3>4, <3>5, <3>6
    <2>7. CASE PrepareFails(w)
        BY <2>7 DEF PrepareFails, netVars
    <2>8. CASE Reread(w)
        BY <2>8 DEF Reread, rowVars, netVars
    <2>9. CASE Broadcast(w)
        BY <2>9 DEF Broadcast, rowVars
    <2>10. CASE MarkSubmitted(w)
        BY <2>10 DEF MarkSubmitted, netVars
    <2>11. CASE ReceiptArrives(w)
        BY <2>11 DEF ReceiptArrives, StatusOf, netVars
    <2>12. CASE GiveUp(w)
        BY <2>12 DEF GiveUp, netVars
    <2> QED
        BY <1>4, <2>1, <2>2, <2>3, <2>4, <2>5, <2>6, <2>7, <2>8, <2>9, <2>10, <2>11, <2>12
        DEF WorkerStep
<1>5. CASE UNCHANGED vars
    BY <1>5 DEF vars
<1> QED
    BY <1>1, <1>2, <1>3, <1>4, <1>5 DEF Next

-----------------------------------------------------------------------------
(* Nonces *)

\* allocateNonce is the only place where nonces change.
LEMMA OnlyAllocationMovesNonces ==
    ASSUME [Next]_vars, ~ \E w \in Workers : AllocateNonce(w)
    PROVE  nonce' = nonce /\ nextNonce' = nextNonce
<1>1. ASSUME NEW t \in Transfers, QueueTransfer(t) \/ ReclaimStale(t)
      PROVE  nonce' = nonce /\ nextNonce' = nextNonce
    BY <1>1 DEF QueueTransfer, ReclaimStale
<1>2. CASE Mine \/ Evict \/ UNCHANGED vars
    BY <1>2 DEF Mine, Evict, rowVars, vars
<1>3. ASSUME NEW w \in Workers, WorkerStep(w)
      PROVE  nonce' = nonce /\ nextNonce' = nextNonce
    BY <1>3 DEF WorkerStep, Begin, Claim, ClaimLost, ReadNetworkNonce, Sign, PrepareFails, Reread,
        RereadNothing, Broadcast, MarkSubmitted, ReceiptArrives, GiveUp, Crash, rowVars
<1> QED
    BY <1>1, <1>2, <1>3 DEF Next

\* A row keeps the nonce it has.
LEMMA NonceKept ==
    ASSUME TypeOK, [Next]_vars
    PROVE  \A t \in Transfers : nonce[t] # Null => nonce'[t] = nonce[t]
<1>1. CASE \E w \in Workers : AllocateNonce(w)
    <2>1. PICK w \in Workers : AllocateNonce(w)
        BY <1>1
    <2>2. CASE KeepsNonce(w)
        BY <2>1, <2>2 DEF AllocateNonce
    <2>3. CASE ~ KeepsNonce(w)
        <3>1. nonce[job[w]] = Null /\ nonce' = [nonce EXCEPT ![job[w]] = FreshNonce(w)]
            BY <2>1, <2>3 DEF AllocateNonce, KeepsNonce
        <3> QED
            BY <3>1 DEF TypeOK
    <2> QED
        BY <2>2, <2>3
<1>2. CASE ~ \E w \in Workers : AllocateNonce(w)
    BY <1>2, OnlyAllocationMovesNonces
<1> QED
    BY <1>1, <1>2

\* A signature stays the property of its row.
LEMMA OwnedKept ==
    ASSUME TypeOK, [Next]_vars, NEW tx \in SignedTx, Owned(tx)
    PROVE  nonce'[tx.transfer] = tx.nonce
<1>1. tx.transfer \in Transfers /\ tx.nonce \in Nat
    BY DEF SignedTx
<1>2. nonce[tx.transfer] # Null
    BY <1>1, NullAssumption DEF Owned
<1> QED
    BY <1>1, <1>2, NonceKept DEF Owned

\* allocateNonce's transaction never hands one nonce to two rows, nor one at or
\* above the wallet's counter (lines 171-189).
LEMMA ExclusiveStep == IInv /\ [Next]_vars => NoncesAreExclusive'
<1> SUFFICES ASSUME IInv, [Next]_vars PROVE NoncesAreExclusive'
    OBVIOUS
<1>1. CASE \E w \in Workers : AllocateNonce(w)
    <2>1. PICK w \in Workers : AllocateNonce(w)
        BY <1>1
    <2>2. CASE KeepsNonce(w)
        BY <2>1, <2>2 DEF AllocateNonce, IInv, NoncesAreExclusive
    <2>3. CASE ~ KeepsNonce(w)
        <3> DEFINE n == FreshNonce(w)
        <3>1. count[w] \in Nat /\ nextNonce \in Nat /\ job[w] \in Transfers
            BY <2>1, NullAssumption DEF IInv, TypeOK, AllocateNonce, WorkersAgree, Agrees
        <3>2. n \in Nat /\ n >= nextNonce
            BY <3>1, LargerNat DEF FreshNonce
        <3>3. nonce' = [nonce EXCEPT ![job[w]] = n] /\ nextNonce' = n + 1
            BY <2>1, <2>3 DEF AllocateNonce
        <3>4. \A t \in Transfers : nonce[t] # Null => nonce[t] \in Nat /\ nonce[t] < nextNonce
            BY DEF IInv, TypeOK, NoncesAreExclusive
        <3>5. \A t \in Transfers : nonce'[t] = IF t = job[w] THEN n ELSE nonce[t]
            BY <3>3 DEF IInv, TypeOK
        <3> HIDE DEF n
        <3>6. \A t \in Transfers : nonce'[t] # Null => nonce'[t] < nextNonce'
            BY <3>1, <3>2, <3>3, <3>4, <3>5
        <3>7. \A t \in Transfers : t # job[w] /\ nonce[t] # Null => nonce[t] # n
            BY <3>1, <3>2, <3>4
        <3>8. \A t, u \in Transfers : nonce'[t] # Null /\ nonce'[t] = nonce'[u] => t = u
            BY <3>2, <3>5, <3>7, NullAssumption DEF IInv, NoncesAreExclusive
        <3> QED
            BY <3>6, <3>8 DEF NoncesAreExclusive
    <2> QED
        BY <2>2, <2>3
<1>2. CASE ~ \E w \in Workers : AllocateNonce(w)
    BY <1>2, OnlyAllocationMovesNonces DEF IInv, NoncesAreExclusive
<1> QED
    BY <1>1, <1>2

-----------------------------------------------------------------------------
(* Signatures *)

\* Only Sign writes a row's signature, with the row's own nonce.
LEMMA RawStep ==
    ASSUME IInv, [Next]_vars, NEW t \in Transfers, raw'[t] # raw[t]
    PROVE  raw'[t] \in SignedTx /\ raw'[t].transfer = t /\ Owned(raw'[t])
<1>1. PICK w \in Workers : Sign(w)
    <2>1. \A u \in Transfers : ~ QueueTransfer(u) /\ ~ ReclaimStale(u)
        BY DEF QueueTransfer, ReclaimStale
    <2>2. ~ Mine /\ ~ Evict /\ ~ UNCHANGED vars
        BY DEF Mine, Evict, rowVars, vars
    <2>3. PICK w \in Workers : WorkerStep(w)
        BY <2>1, <2>2 DEF Next
    <2> QED
        BY <2>3 DEF WorkerStep, Begin, Claim, ClaimLost, ReadNetworkNonce, AllocateNonce, PrepareFails,
            Reread, RereadNothing, Broadcast, MarkSubmitted, ReceiptArrives, GiveUp, Crash, rowVars
<1>2. job[w] \in Transfers /\ claimed[w] \in Nat /\ nonce[job[w]] = claimed[w]
    BY <1>1, NullAssumption DEF Sign, IInv, TypeOK, WorkersAgree, Agrees
<1>3. PICK fee \in Fees :
          raw' = [raw EXCEPT ![job[w]] = [transfer |-> job[w], nonce |-> claimed[w], fee |-> fee]]
    BY <1>1 DEF Sign
<1>4. t = job[w] /\ raw'[t] = [transfer |-> job[w], nonce |-> claimed[w], fee |-> fee]
    BY <1>3 DEF IInv, TypeOK
<1> QED
    BY <1>2, <1>4 DEF SignedTx, Owned

\* The network learns a signature from a worker, and mines what it learnt.
LEMMA NetworkStep ==
    ASSUME IInv, [Next]_vars
    PROVE  /\ \A tx \in mempool' : tx \in mempool \/ \E w \in Workers : tx = held[w] /\ held[w] # Null
           /\ \/ chain' = chain
              \/ \E tx \in mempool, ok \in BOOLEAN :
                    tx.nonce = Len(chain) /\ chain' = Append(chain, [tx |-> tx, ok |-> ok])
<1>1. ASSUME NEW t \in Transfers, QueueTransfer(t) \/ ReclaimStale(t)
      PROVE  mempool' = mempool /\ chain' = chain
    BY <1>1 DEF QueueTransfer, ReclaimStale, netVars
<1>2. CASE UNCHANGED vars
    BY <1>2 DEF vars
<1>3. CASE Mine
    BY <1>3 DEF Mine
<1>4. CASE Evict
    BY <1>4 DEF Evict
<1>5. ASSUME NEW w \in Workers, Broadcast(w)
      PROVE  /\ \A tx \in mempool' : tx \in mempool \/ (tx = held[w] /\ held[w] # Null)
             /\ chain' = chain
    BY <1>5 DEF Broadcast, IInv, WorkersAgree, Agrees, Sending
<1>6. ASSUME NEW w \in Workers, WorkerStep(w), ~ Broadcast(w)
      PROVE  mempool' = mempool /\ chain' = chain
    BY <1>6 DEF WorkerStep, Begin, Claim, ClaimLost, ReadNetworkNonce, AllocateNonce, Sign, PrepareFails,
        Reread, RereadNothing, MarkSubmitted, ReceiptArrives, GiveUp, Crash, netVars
<1> QED
    BY <1>1, <1>2, <1>3, <1>4, <1>5, <1>6 DEF Next

\* Every signature a row, a worker or the network holds is for its row, with the
\* row's nonce; the chain has one transaction per nonce.
LEMMA SignaturesStep == IInv /\ [Next]_vars => SignaturesAreOwned' /\ ChainIsInOrder'
<1> SUFFICES ASSUME IInv, [Next]_vars PROVE SignaturesAreOwned' /\ ChainIsInOrder'
    OBVIOUS
<1>1. TypeOK /\ TypeOK'
    BY TypeStep DEF IInv
<1>2. ASSUME NEW t \in Transfers, raw'[t] # Null
      PROVE  raw'[t].transfer = t /\ nonce'[raw'[t].transfer] = raw'[t].nonce
    <2>1. raw'[t] \in SignedTx /\ raw'[t].transfer = t /\ Owned(raw'[t])
        <3>1. CASE raw'[t] = raw[t]
            BY <1>2, <3>1 DEF IInv, TypeOK, SignaturesAreOwned
        <3>2. CASE raw'[t] # raw[t]
            BY <3>2, RawStep
        <3> QED
            BY <3>1, <3>2
    <2> DEFINE tx == raw'[t]
    <2>2. tx \in SignedTx /\ tx.transfer = t /\ Owned(tx)
        BY <2>1
    <2> HIDE DEF tx
    <2>3. nonce'[tx.transfer] = tx.nonce
        BY <1>1, <2>2, OwnedKept
    <2> QED
        BY <2>2, <2>3 DEF tx
<1>3. ASSUME NEW tx \in mempool' PROVE nonce'[tx.transfer] = tx.nonce
    <2>1. tx \in SignedTx /\ Owned(tx)
        BY NetworkStep DEF IInv, TypeOK, SignaturesAreOwned, WorkersAgree, Agrees
    <2> QED
        BY <1>1, <2>1, OwnedKept
<1>4. ASSUME NEW i \in DOMAIN chain'
      PROVE  chain'[i].tx.nonce = i - 1 /\ nonce'[chain'[i].tx.transfer] = chain'[i].tx.nonce
    <2>1. ASSUME NEW j \in DOMAIN chain
          PROVE  /\ chain[j].tx \in SignedTx /\ Owned(chain[j].tx)
                 /\ chain[j].tx.nonce = j - 1
        <3>1. chain \in Seq([tx : SignedTx, ok : BOOLEAN])
            BY DEF IInv, TypeOK
        <3>2. chain[j] \in [tx : SignedTx, ok : BOOLEAN]
            BY <3>1, ElementOfSeq, LenProperties
        <3>3. Owned(chain[j].tx) /\ chain[j].tx.nonce = j - 1
            BY DEF IInv, SignaturesAreOwned, ChainIsInOrder
        <3> QED
            BY <3>2, <3>3
    <2>2. ASSUME NEW j \in DOMAIN chain PROVE nonce'[chain[j].tx.transfer] = chain[j].tx.nonce
        BY <1>1, <2>1, OwnedKept
    <2>3. CASE chain' = chain
        BY <2>1, <2>2, <2>3
    <2>4. CASE chain' # chain
        <3>1. PICK tx \in mempool, ok \in BOOLEAN :
                  tx.nonce = Len(chain) /\ chain' = Append(chain, [tx |-> tx, ok |-> ok])
            BY <2>4, NetworkStep
        <3>2. chain \in Seq([tx : SignedTx, ok : BOOLEAN]) /\ tx \in SignedTx /\ Owned(tx)
            BY DEF IInv, TypeOK, SignaturesAreOwned
        <3>3. CASE i \in DOMAIN chain
            BY <2>1, <2>2, <3>1, <3>2, <3>3
        <3>4. CASE i = Len(chain) + 1
            <4>1. chain'[i] = [tx |-> tx, ok |-> ok]
                BY <3>1, <3>2, <3>4
            <4>2. nonce'[tx.transfer] = tx.nonce
                BY <1>1, <3>2, OwnedKept
            <4> QED
                BY <3>1, <3>2, <3>4, <4>1, <4>2
        <3> QED
            BY <3>1, <3>2, <3>3, <3>4
    <2> QED
        BY <2>3, <2>4
<1> QED
    BY <1>2, <1>3, <1>4 DEF SignaturesAreOwned, ChainIsInOrder, Owned

-----------------------------------------------------------------------------
(* Workers *)

\* A worker that does not move keeps agreeing with its row.
LEMMA StillAgrees ==
    ASSUME IInv, [Next]_vars, NEW v \in Workers,
           pc'[v] = pc[v], job'[v] = job[v], held'[v] = held[v], claimed'[v] = claimed[v]
    PROVE  Agrees(v)'
<1>1. TypeOK /\ Agrees(v)
    BY DEF IInv, WorkersAgree
<1>2. claimed[v] # Null => job[v] \in Transfers /\ nonce'[job[v]] = claimed[v]
    BY <1>1, NonceKept DEF Agrees
<1>3. held[v] # Null => nonce'[held[v].transfer] = held[v].nonce
    <2> SUFFICES ASSUME held[v] # Null PROVE nonce'[held[v].transfer] = held[v].nonce
        OBVIOUS
    <2>1. held[v] \in SignedTx /\ Owned(held[v])
        BY <1>1 DEF Agrees, TypeOK
    <2> QED
        BY <1>1, <2>1, OwnedKept
<1> QED
    BY <1>1, <1>2, <1>3 DEF Agrees, Owned

\* A worker's step moves no other worker.
LEMMA OthersStay ==
    ASSUME IInv, NEW w \in Workers, WorkerStep(w), NEW v \in Workers, v # w
    PROVE  pc'[v] = pc[v] /\ job'[v] = job[v] /\ held'[v] = held[v] /\ claimed'[v] = claimed[v]
<1>1. TypeOK
    BY DEF IInv
<1>2. CASE \/ \E t \in Transfers : Begin(w, t)
           \/ Claim(w) \/ ReadNetworkNonce(w) \/ AllocateNonce(w) \/ Sign(w) \/ Reread(w)
           \/ Broadcast(w) \/ MarkSubmitted(w)
    BY <1>1, <1>2 DEF TypeOK, Begin, Claim, ReadNetworkNonce, AllocateNonce, Sign, Reread, Broadcast,
        MarkSubmitted, Goto
<1>3. CASE \/ ClaimLost(w) \/ PrepareFails(w) \/ RereadNothing(w) \/ ReceiptArrives(w) \/ GiveUp(w)
           \/ Crash(w)
    <2>1. Finish(w)
        BY <1>3 DEF ClaimLost, PrepareFails, RereadNothing, ReceiptArrives, GiveUp, Crash
    <2> QED
        BY <1>1, <2>1 DEF Finish, TypeOK
<1> QED
    BY <1>2, <1>3 DEF WorkerStep

\* A worker's copies (the claim's nonce, the signed transaction it sends or waits
\* for) stay those of its row, whatever the other workers do.
LEMMA WorkersStep == IInv /\ [Next]_vars => WorkersAgree'
<1> SUFFICES ASSUME IInv, [Next]_vars PROVE WorkersAgree'
    OBVIOUS
<1>0. TypeOK
    BY DEF IInv
<1>1. CASE ~ \E w \in Workers : WorkerStep(w)
    <2>1. UNCHANGED workerVars
        BY <1>1 DEF Next, QueueTransfer, ReclaimStale, Mine, Evict, vars, workerVars
    <2> QED
        BY <2>1, StillAgrees DEF WorkersAgree, workerVars
<1>2. ASSUME NEW w \in Workers, WorkerStep(w) PROVE WorkersAgree'
    <2>1. ASSUME NEW v \in Workers, v # w PROVE Agrees(v)'
        BY <1>2, <2>1, OthersStay, StillAgrees
    <2>2. Agrees(w)'
        <3>0. Agrees(w)
            BY DEF IInv, WorkersAgree
        <3>1. ASSUME NEW t \in Transfers, Begin(w, t) PROVE Agrees(w)'
            <4>1. /\ pc'[w] = IF raw[t] = Null THEN "claim" ELSE "send"
                  /\ job'[w] = t /\ held'[w] = raw[t] /\ claimed'[w] = claimed[w] /\ nonce' = nonce
                  /\ pc[w] = "idle"
                BY <1>0, <3>1 DEF Begin, Goto, TypeOK, rowVars
            <4>2. raw[t] # Null => raw[t].transfer = t /\ Owned(raw[t])
                BY DEF IInv, SignaturesAreOwned
            <4>3. claimed[w] = Null
                BY <3>0, <4>1 DEF Agrees
            <4> QED
                BY <4>1, <4>2, <4>3 DEF Agrees, Owned, Sending
        <3>2. CASE Claim(w)
            <4>1. /\ pc'[w] = "count" /\ job'[w] = job[w] /\ held'[w] = held[w]
                  /\ claimed'[w] = nonce[job[w]] /\ nonce' = nonce /\ pc[w] = "claim"
                BY <1>0, <3>2 DEF Claim, Goto, TypeOK
            <4> QED
                BY <3>0, <4>1 DEF Agrees, Owned, Sending
        <3>3. CASE \/ ClaimLost(w) \/ PrepareFails(w) \/ RereadNothing(w) \/ ReceiptArrives(w) \/ GiveUp(w)
                   \/ Crash(w)
            <4>1. Finish(w)
                BY <3>3 DEF ClaimLost, PrepareFails, RereadNothing, ReceiptArrives, GiveUp, Crash
            <4>2. pc'[w] = "idle" /\ held'[w] = Null /\ claimed'[w] = Null
                BY <1>0, <4>1 DEF Finish, TypeOK
            <4> QED
                BY <4>2 DEF Agrees, Sending
        <3>4. CASE ReadNetworkNonce(w)
            <4>1. /\ pc'[w] = "allocate" /\ job'[w] = job[w] /\ held'[w] = held[w]
                  /\ claimed'[w] = claimed[w] /\ nonce' = nonce /\ pc[w] = "count"
                BY <1>0, <3>4 DEF ReadNetworkNonce, Goto, TypeOK, rowVars
            <4> QED
                BY <3>0, <4>1 DEF Agrees, Owned, Sending
        <3>5. CASE AllocateNonce(w)
            <4>1. pc'[w] = "sign" /\ job'[w] = job[w] /\ held'[w] = held[w] /\ job[w] \in Transfers
                BY <1>0, <3>0, <3>5 DEF AllocateNonce, Goto, TypeOK, Agrees
            <4>2. claimed'[w] # Null /\ nonce'[job[w]] = claimed'[w]
                <5>1. CASE KeepsNonce(w)
                    BY <1>0, <3>0, <3>5, <4>1, <5>1 DEF AllocateNonce, KeepsNonce, TypeOK, Agrees
                <5>2. CASE ~ KeepsNonce(w)
                    <6>1. FreshNonce(w) \in Nat
                        BY <1>0, LargerNat DEF FreshNonce, TypeOK
                    <6>2. claimed'[w] = FreshNonce(w) /\ nonce'[job[w]] = FreshNonce(w)
                        BY <1>0, <3>5, <4>1, <5>2 DEF AllocateNonce, TypeOK
                    <6> QED
                        BY <6>1, <6>2, NullAssumption
                <5> QED
                    BY <5>1, <5>2
            <4>3. held[w] # Null => nonce'[held[w].transfer] = held[w].nonce
                <5> SUFFICES ASSUME held[w] # Null PROVE nonce'[held[w].transfer] = held[w].nonce
                    OBVIOUS
                <5>1. held[w] \in SignedTx /\ Owned(held[w])
                    BY <1>0, <3>0 DEF Agrees, TypeOK
                <5> QED
                    BY <1>0, <5>1, OwnedKept
            <4> QED
                BY <3>0, <4>1, <4>2, <4>3 DEF Agrees, Owned, Sending
        <3>6. CASE Sign(w)
            <4>1. /\ pc'[w] = "reread" /\ job'[w] = job[w] /\ held'[w] = held[w]
                  /\ claimed'[w] = claimed[w] /\ nonce' = nonce /\ pc[w] = "sign"
                BY <1>0, <3>6 DEF Sign, Goto, TypeOK
            <4> QED
                BY <3>0, <4>1 DEF Agrees, Owned, Sending
        <3>7. CASE Reread(w)
            <4>1. /\ pc'[w] = "send" /\ job'[w] = job[w] /\ held'[w] = raw[job[w]] /\ raw[job[w]] # Null
                  /\ claimed'[w] = claimed[w] /\ nonce' = nonce /\ pc[w] = "reread"
                BY <1>0, <3>7 DEF Reread, Goto, TypeOK, rowVars
            <4>2. job[w] \in Transfers
                BY <3>0, <4>1 DEF Agrees
            <4>3. raw[job[w]].transfer = job[w] /\ Owned(raw[job[w]])
                BY <4>1, <4>2 DEF IInv, SignaturesAreOwned
            <4> QED
                BY <3>0, <4>1, <4>2, <4>3 DEF Agrees, Owned, Sending
        <3>8. CASE Broadcast(w) \/ MarkSubmitted(w)
            <4>1. /\ pc'[w] \in {"mark", "wait"} /\ job'[w] = job[w] /\ held'[w] = held[w]
                  /\ claimed'[w] = claimed[w] /\ nonce' = nonce /\ pc[w] \in {"send", "mark"}
                BY <1>0, <3>8 DEF Broadcast, MarkSubmitted, Goto, TypeOK, rowVars
            <4> QED
                BY <3>0, <4>1 DEF Agrees, Owned, Sending
        <3> QED
            BY <1>2, <3>1, <3>2, <3>3, <3>4, <3>5, <3>6, <3>7, <3>8 DEF WorkerStep
    <2> QED
        BY <2>1, <2>2 DEF WorkersAgree
<1> QED
    BY <1>1, <1>2

-----------------------------------------------------------------------------
(* The theorems *)

\* The inductive invariant survives every step of processSettlementTransfer and of
\* its environment.
LEMMA IInvStep == IInv /\ [Next]_vars => IInv'
BY TypeStep, ExclusiveStep, SignaturesStep, WorkersStep DEF IInv

\* The inductive invariant holds in every state of the outbox.
LEMMA IInvHolds == Spec => []IInv
BY InitIInv, IInvStep, PTL DEF Spec

\* The outbox keeps the types of its state (settlement_transfers, settlement_nonces
\* and the local variables of processSettlementTransfer).
THEOREM TypeCorrect == Spec => []TypeOK
<1>1. IInv => TypeOK
    BY DEF IInv
<1> QED
    BY <1>1, IInvHolds, PTL

\* Two transactions of one instruction would share its nonce, and the chain has
\* one transaction per nonce.
LEMMA OnlyOnce == IInv => PaidAtMostOnce
<1> SUFFICES ASSUME IInv, NEW i \in DOMAIN chain, NEW j \in DOMAIN chain,
                    chain[i].tx.transfer = chain[j].tx.transfer
             PROVE  i = j
    BY DEF PaidAtMostOnce
<1>1. chain[i].tx.nonce = chain[j].tx.nonce
    BY DEF IInv, SignaturesAreOwned, Owned
<1>2. chain[i].tx.nonce = i - 1 /\ chain[j].tx.nonce = j - 1
    BY DEF IInv, ChainIsInOrder
<1>3. chain \in Seq([tx : SignedTx, ok : BOOLEAN])
    BY DEF IInv, TypeOK
<1>4. i \in Nat /\ j \in Nat
    BY <1>3, LenProperties
<1>5. i - 1 = j - 1
    BY <1>1, <1>2
<1> QED
    BY <1>4, <1>5

\* At most one transaction of a payout or refund is ever mined, for any number of
\* transfers and concurrent workers, through crashes, timeouts, lagging RPC answers,
\* stolen claims and status fields set back by processSettlementTransfer's catches.
THEOREM PaysAtMostOnce == Spec => []PaidAtMostOnce
BY OnlyOnce, IInvHolds, PTL

\* allocateNonce never replaces a nonce: however two signers of a row interleave,
\* both sign with the nonce the first of them allocated.
THEOREM NoncesAreForever == Spec => NonceIsForever
<1>1. TypeOK /\ [Next]_vars => [\A t \in Transfers : nonce[t] # Null => nonce'[t] = nonce[t]]_vars
    BY NonceKept
<1> QED
    BY <1>1, TypeCorrect, PTL DEF Spec, NonceIsForever

\* What the outbox records of an instruction is what the chain did with it: the
\* receipt a worker acts upon (lines 242-249) is always its own row's.
THEOREM OutcomesAreTruthful == Spec => []OutcomeIsTruthful
<1>1. Init => OutcomeIsTruthful
    BY DEF Init, OutcomeIsTruthful, Final
<1>2. IInv /\ OutcomeIsTruthful /\ [Next]_vars => OutcomeIsTruthful'
    <2> SUFFICES ASSUME IInv, OutcomeIsTruthful, [Next]_vars, NEW t \in Transfers, status'[t] \in Final
                 PROVE  \E i \in DOMAIN chain' :
                            chain'[i].tx.transfer = t /\ chain'[i].ok = (status'[t] = "confirmed")
        BY DEF OutcomeIsTruthful
    <2>0. TypeOK /\ chain \in Seq([tx : SignedTx, ok : BOOLEAN])
        BY DEF IInv, TypeOK
    <2>1. \A i \in DOMAIN chain : i \in DOMAIN chain' /\ chain'[i] = chain[i]
        <3>1. CASE chain' = chain
            BY <3>1
        <3>2. CASE chain' # chain
            <4>1. PICK tx \in mempool, ok \in BOOLEAN : chain' = Append(chain, [tx |-> tx, ok |-> ok])
                BY <3>2, NetworkStep
            <4>2. [tx |-> tx, ok |-> ok] \in [tx : SignedTx, ok : BOOLEAN]
                BY <2>0 DEF TypeOK
            <4> QED
                BY <2>0, <4>1, <4>2
        <3> QED
            BY <3>1, <3>2
    <2>2. CASE status'[t] = status[t]
        BY <2>1, <2>2 DEF OutcomeIsTruthful
    <2>3. CASE status'[t] # status[t]
        <3>1. PICK w \in Workers : ReceiptArrives(w)
            <4>1. \A u \in Transfers : ~ QueueTransfer(u) /\ ~ ReclaimStale(u)
                BY <2>0, <2>3 DEF QueueTransfer, ReclaimStale, TypeOK, Final
            <4>2. ~ Mine /\ ~ Evict /\ ~ UNCHANGED vars
                BY <2>3 DEF Mine, Evict, rowVars, vars
            <4>3. PICK w \in Workers : WorkerStep(w)
                BY <4>1, <4>2 DEF Next
            <4>4. ~ Claim(w) /\ ~ Sign(w) /\ ~ PrepareFails(w) /\ ~ MarkSubmitted(w) /\ ~ GiveUp(w)
                BY <2>0, <2>3 DEF Claim, Sign, PrepareFails, MarkSubmitted, GiveUp, TypeOK, Final
            <4>5. \A u \in Transfers : ~ Begin(w, u)
                BY <2>3 DEF Begin, rowVars
            <4> QED
                BY <2>3, <4>3, <4>4, <4>5 DEF WorkerStep, ClaimLost, ReadNetworkNonce, AllocateNonce, Reread,
                    RereadNothing, Broadcast, Crash, rowVars
        <3>2. PICK i \in DOMAIN chain : /\ chain[i].tx.nonce = held[w].nonce
                                       /\ status' = [status EXCEPT ![job[w]] = StatusOf(chain[i])]
            BY <3>1 DEF ReceiptArrives
        <3>3. t = job[w] /\ status'[t] = StatusOf(chain[i])
            BY <2>0, <2>3, <3>2 DEF TypeOK
        <3>4. held[w] \in SignedTx /\ held[w].transfer = t /\ Owned(held[w])
            BY <2>0, <3>1, <3>3 DEF IInv, TypeOK, WorkersAgree, Agrees, ReceiptArrives, Sending
        <3>5. chain[i] \in [tx : SignedTx, ok : BOOLEAN]
            BY <2>0, ElementOfSeq, LenProperties
        <3>6. chain[i].tx \in SignedTx /\ Owned(chain[i].tx)
            BY <3>5 DEF IInv, SignaturesAreOwned
        <3>7. nonce[t] = nonce[chain[i].tx.transfer] /\ nonce[t] # Null
            BY <3>2, <3>4, <3>6, NullAssumption DEF Owned, SignedTx
        <3>8. chain[i].tx.transfer = t
            BY <3>6, <3>7 DEF IInv, NoncesAreExclusive, SignedTx
        <3>9. chain[i].ok = (status'[t] = "confirmed")
            BY <3>3, <3>5 DEF StatusOf
        <3> QED
            BY <2>1, <3>8, <3>9
    <2> QED
        BY <2>2, <2>3
<1> QED
    BY <1>1, <1>2, IInvHolds, PTL DEF Spec


-----------------------------------------------------------------------------
(* No nonce is lost *)

\* What the network answers is never ahead of the counter: the wallet signs with
\* nothing but nonces the counter handed out.
NoHole ==
    /\ IsFiniteSet(mempool)
    /\ \A w \in Workers : count[w] <= nextNonce
    /\ NoNonceIsLost

LEMMA LeastNatural ==
    ASSUME NEW T \in SUBSET Nat, T # {}
    PROVE  \E x \in T : \A y \in T : x <= y
<1> DEFINE R == OpToRel(<, Nat)
<1>1. IsWellFoundedOn(R, Nat)
    BY NatLessThanWellFounded
<1>2. \A x, y \in Nat : y < x => <<y, x>> \in R
    BY DEF OpToRel
<1> HIDE DEF R
<1>3. PICK x \in T : \A y \in T : <<y, x>> \notin R
    BY <1>1, WFMin
<1>4. \A y \in T : x <= y
    <2> TAKE y \in T
    <2>1. x \in Nat /\ y \in Nat
        OBVIOUS
    <2>2. ~ (y < x)
        BY <1>2, <1>3, <2>1, Zenon
    <2> QED
        BY ONLY <2>1, <2>2
<1> QED
    BY <1>4

\* The network knows no transaction of the wallet but the outbox's.
LEMMA KnownAreAllocated ==
    ASSUME IInv
    PROVE  /\ Len(chain) \in Nat /\ Len(chain) <= nextNonce
           /\ \A tx \in mempool : tx.nonce \in Nat /\ tx.nonce < nextNonce
<1>1. /\ TypeOK /\ SignaturesAreOwned /\ ChainIsInOrder
      /\ \A t \in Transfers : nonce[t] # Null => nonce[t] < nextNonce
    BY DEF IInv, NoncesAreExclusive
<1>2. ASSUME NEW tx \in SignedTx, Owned(tx) PROVE tx.nonce \in Nat /\ tx.nonce < nextNonce
    BY <1>1, <1>2, NullAssumption DEF Owned, SignedTx
<1>3. \A tx \in mempool : tx.nonce \in Nat /\ tx.nonce < nextNonce
    BY <1>1, <1>2 DEF TypeOK, SignaturesAreOwned
<1>4. chain \in Seq([tx : SignedTx, ok : BOOLEAN]) /\ Len(chain) \in Nat /\ nextNonce \in Nat
    BY <1>1, LenProperties DEF TypeOK
<1>5. CASE Len(chain) = 0
    BY <1>3, <1>4, <1>5
<1>6. CASE Len(chain) # 0
    <2>1. Len(chain) \in DOMAIN chain
        BY <1>4, <1>6, LenProperties
    <2>2. chain[Len(chain)] \in [tx : SignedTx, ok : BOOLEAN]
        BY <1>4, <2>1, ElementOfSeq, LenProperties
    <2>3. Owned(chain[Len(chain)].tx) /\ chain[Len(chain)].tx.nonce = Len(chain) - 1
        BY <1>1, <2>1 DEF SignaturesAreOwned, ChainIsInOrder
    <2>4. Len(chain) - 1 < nextNonce
        BY <1>2, <2>2, <2>3
    <2> QED
        BY <1>3, <1>4, <2>4
<1> QED
    BY <1>5, <1>6

\* The first free nonce of a finite mempool exists, and is not ahead.
LEMMA PendingCountBound ==
    ASSUME IInv, IsFiniteSet(mempool)
    PROVE  PendingCount \in Nat /\ PendingCount <= nextNonce
<1> DEFINE L == Len(chain)
<1> DEFINE C == Cardinality(mempool)
<1> DEFINE Used == {tx.nonce : tx \in mempool}
<1> DEFINE T == {n \in L .. L + C : n \notin Used}
<1> DEFINE Free(n) == /\ \A k \in L .. n - 1 : \E tx \in mempool : tx.nonce = k
                      /\ ~ \E tx \in mempool : tx.nonce = n
<1>1. /\ L \in Nat /\ L <= nextNonce /\ nextNonce \in Nat
      /\ \A tx \in mempool : tx.nonce \in Nat /\ tx.nonce < nextNonce
    BY KnownAreAllocated DEF IInv, TypeOK
<1>2. C \in Nat
    BY FS_CardinalityType
<1>3. IsFiniteSet(Used) /\ Cardinality(Used) <= C
    <2> DEFINE f == [tx \in mempool |-> tx.nonce]
    <2>1. f \in Surjection(mempool, Used)
        BY DEF Surjection
    <2> HIDE DEF f, Used
    <2> QED
        BY <2>1, FS_Surjection
<1> HIDE DEF L, C
<1>4. T # {}
    <2> SUFFICES ASSUME T = {} PROVE FALSE
        OBVIOUS
    <2>1. (L .. L + C) \in SUBSET Used
        OBVIOUS
    <2> HIDE DEF Used
    <2>2. Cardinality(L .. L + C) <= Cardinality(Used)
        BY <1>3, <2>1, FS_Subset
    <2>3. Cardinality(L .. L + C) = C + 1
        <3> DEFINE R == L + C
        <3>1. L \in Int /\ R \in Int /\ ~ (L > R) /\ R - L + 1 = C + 1
            BY <1>1, <1>2
        <3> HIDE DEF R
        <3>2. Cardinality(L .. R) = IF L > R THEN 0 ELSE R - L + 1
            BY <3>1, FS_Interval
        <3> QED
            BY <3>1, <3>2 DEF R
    <2>4. Cardinality(Used) \in Nat
        BY <1>3, FS_CardinalityType
    <2> QED
        BY <1>2, <1>3, <2>2, <2>3, <2>4
<1>5. PICK m \in T : \A y \in T : m <= y
    <2>1. T \in SUBSET Nat
        BY <1>1, <1>2
    <2> HIDE DEF T
    <2> QED
        BY <1>4, <2>1, LeastNatural
<1>6. m \in L .. L + C /\ Free(m)
    <2>1. ASSUME NEW k \in L .. m - 1 PROVE k \in Used
        BY <1>1, <1>2, <1>5, <2>1
    <2> QED
        BY <1>5, <2>1
<1>7. PendingCount \in L .. L + C /\ Free(PendingCount)
    <2>1. PendingCount = CHOOSE n \in L .. L + C : Free(n)
        BY DEF PendingCount, L, C
    <2> HIDE DEF Free
    <2> QED
        BY <1>6, <2>1
<1>8. PendingCount \in Nat /\ PendingCount >= L
    BY <1>1, <1>2, <1>7
<1>9. CASE PendingCount = L
    BY <1>1, <1>9
<1>10. CASE PendingCount > L
    <2>1. PendingCount - 1 \in L .. PendingCount - 1
        BY <1>1, <1>8, <1>10
    <2>2. PICK tx \in mempool : tx.nonce = PendingCount - 1
        BY <1>7, <2>1
    <2> QED
        BY <1>1, <1>8, <2>2
<1> QED
    BY <1>1, <1>8, <1>9, <1>10

\* allocateNonce with a counter that is not behind takes the counter itself.
LEMMA HoleStep == IInv /\ NoHole /\ [Next]_vars => NoHole'
<1> SUFFICES ASSUME IInv, NoHole, [Next]_vars PROVE NoHole'
    OBVIOUS
<1>0. TypeOK /\ TypeOK'
    BY TypeStep DEF IInv
<1>1. IsFiniteSet(mempool')
    <2>1. CASE mempool' \in SUBSET mempool
        BY <2>1, FS_Subset DEF NoHole
    <2>2. ASSUME NEW w \in Workers, Broadcast(w) PROVE IsFiniteSet(mempool')
        BY <2>2, FS_AddElement DEF Broadcast, NoHole
    <2>3. CASE ~ \E w \in Workers : Broadcast(w)
        <3>1. mempool' \in SUBSET mempool
            BY <2>3 DEF Next, WorkerStep, QueueTransfer, ReclaimStale, Mine, Evict, Begin, Claim, ClaimLost,
                ReadNetworkNonce, AllocateNonce, Sign, PrepareFails, Reread, RereadNothing, MarkSubmitted,
                ReceiptArrives, GiveUp, Crash, netVars, vars
        <3> QED
            BY <2>1, <3>1
    <2> QED
        BY <2>2, <2>3
<1>2. ASSUME NEW w \in Workers, AllocateNonce(w)
      PROVE  /\ nextNonce' >= nextNonce
             /\ \A n \in 0 .. nextNonce' - 1 : (n = nextNonce /\ nonce'[job[w]] = n) \/ n \in 0 .. nextNonce - 1
    <2>1. count[w] \in Nat /\ nextNonce \in Nat /\ job[w] \in Transfers /\ count[w] <= nextNonce
        BY <1>0, <1>2, NullAssumption DEF IInv, TypeOK, AllocateNonce, WorkersAgree, Agrees, NoHole
    <2>2. CASE KeepsNonce(w)
        BY <1>2, <2>1, <2>2 DEF AllocateNonce
    <2>3. CASE ~ KeepsNonce(w)
        <3>1. FreshNonce(w) = nextNonce
            BY <2>1 DEF FreshNonce, Larger
        <3>2. nonce' = [nonce EXCEPT ![job[w]] = nextNonce] /\ nextNonce' = nextNonce + 1
            BY <1>2, <2>3, <3>1 DEF AllocateNonce
        <3>3. nonce'[job[w]] = nextNonce
            BY <1>0, <2>1, <3>2 DEF TypeOK
        <3> QED
            BY <2>1, <3>2, <3>3
    <2> QED
        BY <2>2, <2>3
<1>3. nextNonce' >= nextNonce /\ nextNonce \in Nat /\ nextNonce' \in Nat
    <2>1. nextNonce \in Nat /\ nextNonce' \in Nat
        BY <1>0 DEF TypeOK
    <2>2. CASE \E w \in Workers : AllocateNonce(w)
        BY <1>2, <2>1, <2>2
    <2>3. CASE ~ \E w \in Workers : AllocateNonce(w)
        <3>1. nextNonce' = nextNonce
            BY <2>3, OnlyAllocationMovesNonces
        <3> QED
            BY <2>1, <3>1
    <2> QED
        BY <2>2, <2>3
<1>4. NoNonceIsLost'
    <2> SUFFICES ASSUME NEW n \in 0 .. nextNonce' - 1 PROVE \E t \in Transfers : nonce'[t] = n
        BY DEF NoNonceIsLost
    <2>1. CASE n \in 0 .. nextNonce - 1
        <3>1. PICK t \in Transfers : nonce[t] = n
            BY <2>1 DEF NoHole, NoNonceIsLost
        <3>2. nonce[t] # Null
            BY <1>3, <2>1, <3>1, NullAssumption
        <3> QED
            BY <1>0, <3>1, <3>2, NonceKept
    <2>2. CASE n \notin 0 .. nextNonce - 1
        <3>1. PICK w \in Workers : AllocateNonce(w)
            BY <2>2, OnlyAllocationMovesNonces
        <3>2. nonce'[job[w]] = n
            BY <1>2, <2>2, <3>1
        <3>3. job[w] \in Transfers
            BY <3>1 DEF IInv, AllocateNonce, WorkersAgree, Agrees
        <3> QED
            BY <3>2, <3>3
    <2> QED
        BY <2>1, <2>2
<1>5. ASSUME NEW w \in Workers PROVE count'[w] <= nextNonce'
    <2>1. count[w] <= nextNonce /\ count[w] \in Nat
        BY <1>0 DEF NoHole, TypeOK
    <2>2. CASE count'[w] = count[w] \/ count'[w] = 0
        BY <1>3, <2>1, <2>2
    <2>3. CASE ReadNetworkNonce(w)
        <3>1. PICK n \in 0 .. PendingCount : count' = [count EXCEPT ![w] = n]
            BY <2>3 DEF ReadNetworkNonce
        <3>2. count'[w] = n
            BY <1>0, <3>1 DEF TypeOK
        <3>3. PendingCount \in Nat /\ PendingCount <= nextNonce
            BY PendingCountBound DEF NoHole
        <3> QED
            BY <1>3, <3>2, <3>3
    <2>4. CASE ~ ReadNetworkNonce(w)
        <3>1. CASE \E v \in Workers : Finish(v)
            BY <1>0, <2>2, <3>1 DEF Finish, TypeOK
        <3>2. CASE \E v \in Workers : ReadNetworkNonce(v)
            <4>1. PICK v \in Workers \ {w} : ReadNetworkNonce(v)
                BY <2>4, <3>2
            <4> QED
                BY <1>0, <2>2, <4>1 DEF ReadNetworkNonce, TypeOK
        <3>3. CASE ~ \E v \in Workers : Finish(v) \/ ReadNetworkNonce(v)
            <4>1. count' = count
                BY <3>3 DEF Next, WorkerStep, QueueTransfer, ReclaimStale, Mine, Evict, Begin, Claim, ClaimLost,
                    AllocateNonce, Sign, PrepareFails, Reread, RereadNothing, Broadcast, MarkSubmitted,
                    ReceiptArrives, GiveUp, Crash, workerVars, vars
            <4> QED
                BY <2>2, <4>1
        <3> QED
            BY <3>1, <3>2, <3>3
    <2> QED
        BY <2>3, <2>4
<1> QED
    BY <1>1, <1>4, <1>5 DEF NoHole

\* allocateNonce leaves no hole that would hold up the wallet's later payouts, for
\* any number of rows and workers and however far behind an RPC node answers.
THEOREM NoncesHaveRows == Spec => []NoNonceIsLost
<1>1. Init => NoHole
    BY FS_EmptySet DEF Init, NoHole, NoNonceIsLost
<1>2. NoHole => NoNonceIsLost
    BY DEF NoHole
<1> QED
    BY <1>1, <1>2, HoleStep, IInvHolds, PTL DEF Spec


-----------------------------------------------------------------------------
(* The outbox implements PayoutInstructions *)

\* Only rows that were queued have a nonce or a worker.
RowsAreQueued ==
    /\ \A t \in Transfers : nonce[t] # Null => status[t] # "none"
    /\ \A w \in Workers : pc[w] # "idle" => status[job[w]] # "none"

Unsettled == Status \ (Final \cup {"none"})

\* A worker that acts upon a receipt acts upon its own row's.
LEMMA ReceiptIsOwn ==
    ASSUME IInv, NEW w \in Workers, pc[w] \in Sending,
           NEW i \in DOMAIN chain, chain[i].tx.nonce = held[w].nonce
    PROVE  job[w] \in Transfers /\ chain[i].tx.transfer = job[w] /\ chain[i].ok \in BOOLEAN
<1>1. TypeOK /\ Agrees(w) /\ chain \in Seq([tx : SignedTx, ok : BOOLEAN])
    BY DEF IInv, WorkersAgree, TypeOK
<1>2. held[w] \in SignedTx /\ held[w].transfer = job[w] /\ Owned(held[w])
    BY <1>1 DEF TypeOK, Agrees
<1>3. chain[i] \in [tx : SignedTx, ok : BOOLEAN]
    BY <1>1, ElementOfSeq, LenProperties
<1>4. chain[i].tx \in SignedTx /\ Owned(chain[i].tx)
    BY <1>3 DEF IInv, SignaturesAreOwned
<1>5. job[w] \in Transfers /\ nonce[job[w]] = nonce[chain[i].tx.transfer] /\ nonce[job[w]] # Null
    BY <1>2, <1>4, NullAssumption DEF Owned, SignedTx
<1> QED
    BY <1>3, <1>4, <1>5 DEF IInv, NoncesAreExclusive, SignedTx

\* What a step may do with status: queue a row, move a queued one, or record a
\* receipt.
LEMMA StatusMoves ==
    ASSUME IInv, RowsAreQueued, [Next]_vars, status' # status
    PROVE  \/ \E t \in Transfers : QueueTransfer(t)
           \/ \E w \in Workers : ReceiptArrives(w)
           \/ \E t \in Transfers, s \in Unsettled :
                  status[t] # "none" /\ status' = [status EXCEPT ![t] = s] /\ chain' = chain
<1>0. TypeOK /\ WorkersAgree
    BY DEF IInv
<1>1. ~ Mine /\ ~ Evict /\ ~ UNCHANGED vars
    BY DEF Mine, Evict, rowVars, vars
<1>2. ASSUME NEW t \in Transfers, ReclaimStale(t)
      PROVE  status[t] # "none" /\ status' = [status EXCEPT ![t] = "pending"] /\ chain' = chain
    BY <1>2 DEF ReclaimStale, Stale, netVars
<1>3. ASSUME NEW w \in Workers, WorkerStep(w), ~ ReceiptArrives(w)
      PROVE  \E t \in Transfers, s \in Unsettled :
                 status[t] # "none" /\ status' = [status EXCEPT ![t] = s] /\ chain' = chain
    <2>1. Claim(w) \/ Sign(w) \/ PrepareFails(w) \/ MarkSubmitted(w) \/ GiveUp(w)
        BY <1>3 DEF WorkerStep, Begin, ClaimLost, ReadNetworkNonce, AllocateNonce, Reread, RereadNothing,
            Broadcast, Crash, rowVars
    <2>2. job[w] \in Transfers /\ status[job[w]] # "none"
        BY <1>0, <2>1 DEF Claim, Sign, PrepareFails, MarkSubmitted, GiveUp, Signing, Sending, RowsAreQueued,
            WorkersAgree, Agrees
    <2>3. \E s \in {"pending", "signing", "prepared", "submitted"} : status' = [status EXCEPT ![job[w]] = s]
        BY <2>1 DEF Claim, Sign, PrepareFails, MarkSubmitted, GiveUp
    <2>4. chain' = chain
        BY <2>1 DEF Claim, Sign, PrepareFails, MarkSubmitted, GiveUp, netVars
    <2> QED
        BY <2>2, <2>3, <2>4 DEF Unsettled, Status, Final
<1>4. "pending" \in Unsettled
    BY DEF Unsettled, Status, Final
<1> QED
    BY <1>1, <1>2, <1>3, <1>4 DEF Next

\* A row that was queued stays one.
LEMMA QueuedStays ==
    ASSUME IInv, RowsAreQueued, [Next]_vars, NEW t \in Transfers, status[t] # "none"
    PROVE  status'[t] # "none"
<1>0. TypeOK
    BY DEF IInv
<1>1. CASE status' = status
    BY <1>1
<1>2. CASE \E u \in Transfers : QueueTransfer(u)
    BY <1>0, <1>2 DEF QueueTransfer, TypeOK
<1>3. CASE \E w \in Workers : ReceiptArrives(w)
    <2>1. PICK w \in Workers, i \in DOMAIN chain : status' = [status EXCEPT ![job[w]] = StatusOf(chain[i])]
        BY <1>3 DEF ReceiptArrives
    <2>2. StatusOf(chain[i]) # "none"
        BY DEF StatusOf
    <2> QED
        BY <1>0, <2>1, <2>2 DEF TypeOK
<1>4. CASE \E u \in Transfers, s \in Unsettled : status' = [status EXCEPT ![u] = s]
    BY <1>0, <1>4 DEF Unsettled, TypeOK
<1> QED
    BY <1>1, <1>2, <1>3, <1>4, StatusMoves

LEMMA QueuedStep == IInv /\ RowsAreQueued /\ [Next]_vars => RowsAreQueued'
<1> SUFFICES ASSUME IInv, RowsAreQueued, [Next]_vars PROVE RowsAreQueued'
    OBVIOUS
<1>0. TypeOK /\ WorkersAgree
    BY DEF IInv
<1>1. ASSUME NEW t \in Transfers, nonce'[t] # Null PROVE status[t] # "none"
    <2>1. CASE nonce[t] # Null
        BY <2>1 DEF RowsAreQueued
    <2>2. CASE nonce[t] = Null
        <3>1. PICK w \in Workers : AllocateNonce(w)
            BY <1>1, <2>2, OnlyAllocationMovesNonces
        <3>2. t = job[w] /\ pc[w] # "idle"
            BY <1>0, <1>1, <2>2, <3>1 DEF AllocateNonce, TypeOK
        <3> QED
            BY <3>2 DEF RowsAreQueued
    <2> QED
        BY <2>1, <2>2
<1>2. ASSUME NEW w \in Workers, pc'[w] # "idle"
      PROVE  job'[w] \in Transfers /\ status[job'[w]] # "none"
    <2>1. CASE pc'[w] = pc[w] /\ job'[w] = job[w]
        BY <1>0, <1>2, <2>1 DEF RowsAreQueued, WorkersAgree, Agrees
    <2>2. CASE WorkerStep(w)
        <3>1. ASSUME NEW t \in Transfers, Begin(w, t) PROVE job'[w] = t /\ status[t] # "none"
            BY <1>0, <3>1 DEF Begin, TypeOK
        <3>2. CASE Claim(w) \/ ReadNetworkNonce(w) \/ AllocateNonce(w) \/ Sign(w) \/ Reread(w)
                   \/ Broadcast(w) \/ MarkSubmitted(w)
            <4>1. pc[w] # "idle" /\ job' = job
                BY <3>2 DEF Claim, ReadNetworkNonce, AllocateNonce, Sign, Reread, Broadcast, MarkSubmitted
            <4> QED
                BY <1>0, <4>1 DEF RowsAreQueued, WorkersAgree, Agrees
        <3>3. CASE ClaimLost(w) \/ PrepareFails(w) \/ RereadNothing(w) \/ ReceiptArrives(w) \/ GiveUp(w)
                   \/ Crash(w)
            <4>1. Finish(w)
                BY <3>3 DEF ClaimLost, PrepareFails, RereadNothing, ReceiptArrives, GiveUp, Crash
            <4> QED
                BY <1>0, <1>2, <4>1 DEF Finish, TypeOK
        <3> QED
            BY <2>2, <3>1, <3>2, <3>3 DEF WorkerStep
    <2>3. ASSUME NEW v \in Workers \ {w}, WorkerStep(v) PROVE pc'[w] = pc[w] /\ job'[w] = job[w]
        BY <2>3, OthersStay
    <2>4. CASE ~ \E v \in Workers : WorkerStep(v)
        <3>1. UNCHANGED workerVars
            BY <2>4 DEF Next, QueueTransfer, ReclaimStale, Mine, Evict, vars, workerVars
        <3> QED
            BY <2>1, <3>1 DEF workerVars
    <2> QED
        BY <2>1, <2>2, <2>3, <2>4
<1> QED
    BY <1>1, <1>2, QueuedStays DEF RowsAreQueued


\* While the chain stands still, so do the outcomes.
LEMMA SameChain ==
    ASSUME chain' = chain
    PROVE  \A t \in Transfers : OutcomeOf(t)' = OutcomeOf(t)
BY DEF OutcomeOf, Mined

\* A mined transfer has the outcome of its one receipt.
LEMMA OneReceipt ==
    ASSUME IInv, NEW i \in DOMAIN chain
    PROVE  /\ chain[i].tx.transfer \in Transfers
           /\ OutcomeOf(chain[i].tx.transfer) = IF chain[i].ok THEN "paid" ELSE "reverted"
<1>1. PaidAtMostOnce
    BY OnlyOnce
<1>2. chain[i] \in [tx : SignedTx, ok : BOOLEAN]
    BY ElementOfSeq, LenProperties DEF IInv, TypeOK
<1>3. Mined(chain[i].tx.transfer)
    BY DEF Mined
<1>4. \A j \in DOMAIN chain : chain[j].tx.transfer = chain[i].tx.transfer => j = i
    BY <1>1 DEF PaidAtMostOnce
<1> QED
    BY <1>2, <1>3, <1>4 DEF OutcomeOf, SignedTx

\* Mining decides the one instruction the transaction was signed for.
LEMMA MineDecides ==
    ASSUME IInv, RowsAreQueued, [Next]_vars, Mine
    PROVE  \E t \in Transfers, o \in {"paid", "reverted"} : Instructions!Decide(t, o)
<1>0. IInv'
    BY IInvStep
<1>1. PICK tx \in mempool, ok \in BOOLEAN : chain' = Append(chain, [tx |-> tx, ok |-> ok])
    BY DEF Mine
<1>2. chain \in Seq([tx : SignedTx, ok : BOOLEAN]) /\ tx \in SignedTx /\ Owned(tx)
    BY DEF IInv, TypeOK, SignaturesAreOwned
<1> DEFINE t == tx.transfer
<1> DEFINE n == Len(chain) + 1
<1>3. t \in Transfers /\ status[t] # "none"
    BY <1>2, NullAssumption DEF Owned, SignedTx, RowsAreQueued
<1>4. /\ n \in DOMAIN chain' /\ chain'[n] = [tx |-> tx, ok |-> ok] /\ n \notin DOMAIN chain
      /\ \A i \in DOMAIN chain : i \in DOMAIN chain' /\ chain'[i] = chain[i]
      /\ \A i \in DOMAIN chain' : i \in DOMAIN chain \/ i = n
    <2>1. [tx |-> tx, ok |-> ok] \in [tx : SignedTx, ok : BOOLEAN]
        BY <1>2
    <2> QED
        BY <1>1, <1>2, <2>1
<1>5. ~ Mined(t)
    <2> SUFFICES ASSUME NEW i \in DOMAIN chain, chain[i].tx.transfer = t PROVE FALSE
        BY DEF Mined
    <2>1. i \in DOMAIN chain' /\ chain'[i].tx.transfer = chain'[n].tx.transfer
        BY <1>4
    <2>2. PaidAtMostOnce'
        BY <1>0, OnlyOnce, PTL
    <2> QED
        BY <1>4, <2>1, <2>2 DEF PaidAtMostOnce
<1>6. OutcomeOf(t) = "undecided" /\ OutcomeOf(t)' = IF ok THEN "paid" ELSE "reverted"
    BY <1>4, <1>5 DEF OutcomeOf, Mined
<1>7. ASSUME NEW u \in Transfers, u # t PROVE OutcomeOf(u)' = OutcomeOf(u)
    <2>1. \A i \in DOMAIN chain' : chain'[i].tx.transfer = u => i \in DOMAIN chain
        BY <1>4, <1>7
    <2> QED
        BY <1>4, <2>1 DEF OutcomeOf, Mined
<1>8. UNCHANGED status
    BY DEF Mine, rowVars
<1> HIDE DEF t
<1> QED
    BY <1>3, <1>6, <1>7, <1>8 DEF Instructions!Decide, ReportOf

\* A worker that stores an outcome reports the chain's.
LEMMA ReceiptReports ==
    ASSUME IInv, RowsAreQueued, NEW w \in Workers, ReceiptArrives(w)
    PROVE  \E t \in Transfers : Instructions!Report(t)
<1>0. TypeOK
    BY DEF IInv
<1>1. PICK i \in DOMAIN chain : /\ chain[i].tx.nonce = held[w].nonce
                               /\ status' = [status EXCEPT ![job[w]] = StatusOf(chain[i])]
    BY DEF ReceiptArrives
<1>2. pc[w] \in Sending /\ pc[w] # "idle" /\ chain' = chain
    BY DEF ReceiptArrives, Sending, netVars
<1>3. PICK t \in Transfers : t = job[w] /\ chain[i].tx.transfer = t /\ chain[i].ok \in BOOLEAN
    BY <1>1, <1>2, ReceiptIsOwn
<1>4. OutcomeOf(t) = IF chain[i].ok THEN "paid" ELSE "reverted"
    BY <1>3, OneReceipt
<1>5. status[t] # "none"
    BY <1>2, <1>3 DEF RowsAreQueued
<1>6. status' = [status EXCEPT ![t] = StatusOf(chain[i])]
    BY <1>1, <1>3
<1>7. /\ ReportOf(t)' = IF OutcomeOf(t) = "paid" THEN "confirmed" ELSE "failed"
      /\ \A u \in Transfers \ {t} : ReportOf(u)' = ReportOf(u)
      /\ \A u \in Transfers : status'[u] # "none" <=> status[u] # "none"
    BY <1>0, <1>3, <1>4, <1>5, <1>6 DEF ReportOf, StatusOf, Final, TypeOK
<1>8. \A u \in Transfers : OutcomeOf(u)' = OutcomeOf(u)
    BY <1>2, SameChain
<1> QED
    BY <1>4, <1>7, <1>8 DEF Instructions!Report

LEMMA InstructionStep ==
    IInv /\ RowsAreQueued /\ [Next]_vars => [Instructions!Next]_(Instructions!instrVars)
<1> SUFFICES ASSUME IInv, RowsAreQueued, [Next]_vars PROVE [Instructions!Next]_(Instructions!instrVars)
    OBVIOUS
<1>0. TypeOK
    BY DEF IInv
<1>1. CASE Mine
    BY <1>1, MineDecides DEF Instructions!Next
<1>2. CASE \E w \in Workers : ReceiptArrives(w)
    BY <1>2, ReceiptReports DEF Instructions!Next
<1>3. CASE \E t \in Transfers : QueueTransfer(t)
    <2>1. PICK t \in Transfers : QueueTransfer(t)
        BY <1>3
    <2>2. status[t] = "none" /\ status' = [status EXCEPT ![t] = "pending"] /\ chain' = chain
        BY <2>1 DEF QueueTransfer, netVars
    <2>3. /\ \A u \in Transfers : ReportOf(u)' = ReportOf(u)
          /\ \A u \in Transfers : status'[u] # "none" <=> status[u] # "none" \/ u = t
        BY <1>0, <2>2 DEF ReportOf, Final, TypeOK
    <2>4. \A u \in Transfers : OutcomeOf(u)' = OutcomeOf(u)
        BY <2>2, SameChain
    <2>5. Instructions!Instruct(t)
        BY <2>2, <2>3, <2>4 DEF Instructions!Instruct
    <2> QED
        BY <2>5 DEF Instructions!Next
<1>4. CASE \E t \in Transfers, s \in Unsettled :
              status[t] # "none" /\ status' = [status EXCEPT ![t] = s] /\ chain' = chain
    <2>1. PICK t \in Transfers, s \in Unsettled :
              status[t] # "none" /\ status' = [status EXCEPT ![t] = s] /\ chain' = chain
        BY <1>4
    <2>2. /\ ReportOf(t)' = "open"
          /\ \A u \in Transfers \ {t} : ReportOf(u)' = ReportOf(u)
          /\ \A u \in Transfers : status'[u] # "none" <=> status[u] # "none"
        BY <1>0, <2>1 DEF ReportOf, Unsettled, TypeOK
    <2>3. \A u \in Transfers : OutcomeOf(u)' = OutcomeOf(u)
        BY <2>1, SameChain
    <2>4. Instructions!ReportOpen(t)
        BY <2>2, <2>3 DEF Instructions!ReportOpen
    <2> QED
        BY <2>4 DEF Instructions!Next
<1>5. CASE status' = status /\ chain' = chain
    <2>1. \A u \in Transfers : OutcomeOf(u)' = OutcomeOf(u) /\ ReportOf(u)' = ReportOf(u)
        BY <1>5, SameChain DEF ReportOf
    <2> QED
        BY <1>5, <2>1 DEF Instructions!instrVars
<1>6. ~ Mine => chain' = chain
    BY DEF Next, WorkerStep, QueueTransfer, ReclaimStale, Evict, Begin, Claim, ClaimLost, ReadNetworkNonce,
        AllocateNonce, Sign, PrepareFails, Reread, RereadNothing, Broadcast, MarkSubmitted, ReceiptArrives,
        GiveUp, Crash, netVars, vars
<1> QED
    BY <1>1, <1>2, <1>3, <1>4, <1>5, <1>6, StatusMoves

\* The outbox implements PayoutInstructions: whatever its workers, the sweep and
\* the network do, an instruction is decided once and what the outbox answers the
\* trades about it (settlementTransferStatus, the receipts of lines 242-249) is
\* never another outcome than the chain's.
THEOREM OutboxKeepsItsPromise == Spec => ImplementsInstructions
<1>1. Init => RowsAreQueued
    BY DEF Init, RowsAreQueued
<1>2. Init => Instructions!Init
    <2> SUFFICES ASSUME Init PROVE Instructions!Init
        OBVIOUS
    <2>1. \A t \in Transfers : OutcomeOf(t) = "undecided" /\ ReportOf(t) = "open" /\ status[t] = "none"
        BY DEF Init, OutcomeOf, Mined, ReportOf, Final
    <2> QED
        BY <2>1 DEF Instructions!Init
<1> QED
    BY <1>1, <1>2, QueuedStep, InstructionStep, IInvHolds, PTL
    DEF Spec, ImplementsInstructions, Instructions!Spec

=============================================================================
