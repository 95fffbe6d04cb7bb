--------------------------- MODULE Contracts_proofs ---------------------------
(***************************************************************************)
(* The credit ledger and the contracts paid from it, together, for any     *)
(* number of contracts, milestones, deposits, sales and requests: balances *)
(* are the sums of their entries and never negative, the buyer's one       *)
(* escrow holds for each contract and sale what that one still owes, and   *)
(* a contract's state is what its milestones say however late a request    *)
(* writes it.                                                              *)
(*                                                                         *)
(* The inductive invariant, Sound, has three parts.                        *)
(*   Told         the rows are typed, every contract tells its milestones  *)
(*                (Tells), each disputed one has an open dispute, and at   *)
(*                most one contract or rival holds the listing;            *)
(*   Deposited    accounts are the sums of their entries, credit comes     *)
(*                from confirmed deposits, escrow holds each open sale;    *)
(*   OwedIsHeld   escrow holds what each contract owes.                    *)
(*                                                                         *)
(* The argument: a transaction posts entries for one purchase reference,   *)
(* so it adds one amount to what the buyer's escrow holds for that         *)
(* reference and nothing for any other (Booked).  It is then enough that   *)
(* what the contract owes changes by the same amount (MoneyMoves), which   *)
(* is a matter of that contract's milestones: what is unsettled falls by   *)
(* a milestone's amount when the milestone ends, and by all when a         *)
(* contract is refunded before work starts.                                *)
(***************************************************************************)
EXTENDS Contracts, SumLemmas

-----------------------------------------------------------------------------
(* Sets of entries *)

Typed(some) == \A e \in some : e.user \in Users /\ e.available \in Int /\ e.escrow \in Int

\* What one transaction may post: at most one entry of an account.
Postable(new) ==
    /\ IsFiniteSet(new) /\ Typed(new)
    /\ \A e, f \in new : e.user = f.user => e = f

\* What some entries hold in the buyer's escrow for one purchase.
HeldBy(some, reference) == Escrow({e \in some : e.user = Buyer /\ e.reference = reference})

\* No entries, no money.
LEMMA NoEntries == Available({}) = 0 /\ Escrow({}) = 0
BY SumEmpty DEF Available, Escrow

\* One entry alone sums to its own amounts.
LEMMA OneEntry ==
    ASSUME NEW e, e.available \in Int, e.escrow \in Int
    PROVE  Available({e}) = e.available /\ Escrow({e}) = e.escrow
<1> DEFINE a == [x \in {e} |-> x.available]
           s == [x \in {e} |-> x.escrow]
<1>1. IsFiniteSet({e}) /\ e \in {e} /\ {e} \ {e} = {}
    BY FS_Singleton
<1>2. a[e] = e.available /\ s[e] = e.escrow
    OBVIOUS
<1>3. SumFunctionOnSet(a, {e}) = a[e] /\ SumFunctionOnSet(s, {e}) = s[e]
    <2>1. a[e] \in Int /\ s[e] \in Int
        BY <1>2
    <2> HIDE DEF a, s
    <2> QED
        BY <1>1, <2>1, SumOne
<1> QED
    BY <1>2, <1>3 DEF Available, Escrow

\* The sums over finitely many typed entries are integers.
LEMMA EntriesAreInt ==
    ASSUME NEW S, IsFiniteSet(S), Typed(S)
    PROVE  Available(S) \in Int /\ Escrow(S) \in Int
<1> DEFINE a == [x \in S |-> x.available]
           s == [x \in S |-> x.escrow]
<1>1. \A x \in S : a[x] \in Int /\ s[x] \in Int
    BY DEF Typed
<1>2. SumFunctionOnSet(a, S) \in Int /\ SumFunctionOnSet(s, S) \in Int
    <2> HIDE DEF a, s
    <2> QED
        BY <1>1, SumIsInt
<1> QED
    BY <1>2 DEF Available, Escrow

\* Entries add up.
LEMMA MoreEntries ==
    ASSUME NEW S, IsFiniteSet(S), NEW T, IsFiniteSet(T), S \cap T = {}, Typed(S), Typed(T)
    PROVE  /\ Available(S \cup T) = Available(S) + Available(T)
           /\ Escrow(S \cup T) = Escrow(S) + Escrow(T)
<1> DEFINE aS == [x \in S |-> x.available]
           aT == [x \in T |-> x.available]
           aST == [x \in S \cup T |-> x.available]
           sS == [x \in S |-> x.escrow]
           sT == [x \in T |-> x.escrow]
           sST == [x \in S \cup T |-> x.escrow]
<1>1. /\ \A x \in S \cup T : aST[x] \in Int /\ sST[x] \in Int
      /\ \A x \in S : aS[x] = aST[x] /\ sS[x] = sST[x]
      /\ \A x \in T : aT[x] = aST[x] /\ sT[x] = sST[x]
    BY DEF Typed
<1>2. /\ SumFunctionOnSet(aST, S \cup T) = SumFunctionOnSet(aS, S) + SumFunctionOnSet(aT, T)
      /\ SumFunctionOnSet(sST, S \cup T) = SumFunctionOnSet(sS, S) + SumFunctionOnSet(sT, T)
    <2> HIDE DEF aS, aT, aST, sS, sT, sST
    <2> QED
        BY <1>1, SumParts
<1> QED
    BY <1>2 DEF Available, Escrow

\* An entry of the buyer, one of another account if any, and both together.
Buyers(b) == b.user = Buyer /\ b.available \in Int /\ b.escrow \in Int
AnOther(rest) ==
    \/ rest = {}
    \/ \E f : rest = {f} /\ f.user \in Users \ {Buyer} /\ f.available \in Int /\ f.escrow \in Int
AddUp(b, rest) ==
    /\ Postable({b} \cup rest)
    /\ Available({b} \cup rest) = b.available + Available(rest)
    /\ Escrow({b} \cup rest) = b.escrow + Escrow(rest)
    /\ \A reference : HeldBy({b} \cup rest, reference)
                        = IF reference = b.reference THEN b.escrow ELSE 0

\* The buyer's entry with at most one of somebody else's: the transaction's sums,
\* and what it puts into the buyer's escrow, which only the buyer's entry moves.
LEMMA EntryAndOther ==
    ASSUME NEW b, Buyers(b), NEW rest, AnOther(rest)
    PROVE  AddUp(b, rest)
<1>0. b.user = Buyer /\ b.available \in Int /\ b.escrow \in Int
    BY DEF Buyers
<1>1. IsFiniteSet({b}) /\ Typed({b})
    BY <1>0, FS_Singleton DEF Typed, Users
<1>2. IsFiniteSet(rest) /\ Typed(rest) /\ \A f \in rest : f.user # Buyer
    <2>1. CASE rest = {}
        BY <2>1, FS_EmptySet DEF Typed
    <2>2. CASE rest # {}
        <3>1. PICK f : /\ rest = {f} /\ f.user \in Users \ {Buyer}
                       /\ f.available \in Int /\ f.escrow \in Int
            BY <2>2 DEF AnOther
        <3>2. IsFiniteSet({f})
            BY FS_Singleton
        <3> QED
            BY <3>1, <3>2 DEF Typed
    <2> QED
        BY <2>1, <2>2
<1>3. {b} \cap rest = {}
    BY <1>0, <1>2
<1>4. Postable({b} \cup rest)
    <2>1. IsFiniteSet({b} \cup rest) /\ Typed({b} \cup rest)
        BY <1>1, <1>2, FS_Union DEF Typed
    <2>2. \A e, f \in {b} \cup rest : e.user = f.user => e = f
        <3>1. \A e, f \in rest : e = f
            BY DEF AnOther
        <3> QED
            BY <1>0, <1>2, <3>1
    <2> QED
        BY <2>1, <2>2 DEF Postable
<1>5. /\ Available({b} \cup rest) = Available({b}) + Available(rest)
      /\ Escrow({b} \cup rest) = Escrow({b}) + Escrow(rest)
    BY <1>1, <1>2, <1>3, MoreEntries
<1>6. Available({b}) = b.available /\ Escrow({b}) = b.escrow
    BY <1>0, OneEntry
<1>7. ASSUME NEW reference
      PROVE  HeldBy({b} \cup rest, reference)
               = IF reference = b.reference THEN b.escrow ELSE 0
    <2> DEFINE his == {e \in {b} \cup rest : e.user = Buyer /\ e.reference = reference}
    <2>1. his = IF reference = b.reference THEN {b} ELSE {}
        BY <1>0, <1>2
    <2> HIDE DEF his
    <2>2. CASE reference = b.reference
        <3>1. Escrow(his) = Escrow({b})
            <4>1. his = {b}
                BY <2>1, <2>2
            <4> QED
                BY <4>1, Zenon
        <3> QED
            BY <1>6, <2>2, <3>1 DEF his, HeldBy
    <2>3. CASE reference # b.reference
        <3>1. Escrow(his) = Escrow({})
            <4>1. his = {}
                BY <2>1, <2>3
            <4> QED
                BY <4>1, Zenon
        <3> QED
            BY <2>3, <3>1, NoEntries DEF his, HeldBy
    <2> QED
        BY <2>2, <2>3
<1> QED
    BY <1>4, <1>5, <1>6, <1>7 DEF AddUp

-----------------------------------------------------------------------------
(* What the transactions post *)

\* The four users are different ones.
LEMMA UsersDiffer ==
    /\ Seller \in Users \ {Buyer} /\ Platform \in Users \ {Buyer} /\ Agent \in Users \ {Buyer}
    /\ Buyer \in Users
<1> SUFFICES Seller # Buyer /\ Platform # Buyer /\ Agent # Buyer
    BY DEF Users
<1>1. ASSUME NEW a, NEW b, NEW c
      PROVE  Cardinality({a, b, c}) \in {1, 2, 3}
    <2>1. IsFiniteSet({a}) /\ Cardinality({a}) = 1
        BY FS_Singleton
    <2>2. IsFiniteSet({a} \cup {b}) /\ Cardinality({a} \cup {b}) \in {1, 2}
        BY <2>1, FS_AddElement
    <2>3. /\ IsFiniteSet(({a} \cup {b}) \cup {c})
          /\ Cardinality(({a} \cup {b}) \cup {c}) \in {1, 2, 3}
        BY <2>2, FS_AddElement
    <2>4. ({a} \cup {b}) \cup {c} = {a, b, c}
        OBVIOUS
    <2> QED
        BY <2>3, <2>4
<1>2. Cardinality(Users) = 4
    BY CreditAssumption
<1>3. ASSUME NEW a, NEW b, NEW c, Users = {a, b, c}
      PROVE  FALSE
    <2>1. Cardinality({a, b, c}) = 4
        BY <1>2, <1>3, Zenon
    <2>2. Cardinality({a, b, c}) \in {1, 2, 3}
        BY <1>1
    <2> QED
        BY <2>1, <2>2
<1>4. Seller = Buyer => Users = {Buyer, Platform, Agent}
    BY DEF Users
<1>5. Platform = Buyer => Users = {Buyer, Seller, Agent}
    BY DEF Users
<1>6. Agent = Buyer => Users = {Buyer, Seller, Platform}
    BY DEF Users
<1> QED
    BY <1>3, <1>4, <1>5, <1>6

\* The effect a set of new entries must have: on all accounts together, and on
\* what the buyer's escrow holds for one purchase.
Books(new, reference, credited, held) ==
    /\ Postable(new)
    /\ Available(new) + Escrow(new) = credited
    /\ \A other : HeldBy(new, other)
                    = IF other = reference THEN held ELSE 0

\* reserveCredit moves the price into escrow and the fee to the platform.
LEMMA ReservationBooks ==
    ASSUME NEW reference, NEW price \in Nat, NEW fee \in Nat
    PROVE  Books(Reservation(reference, price, fee), reference, 0, price)
<1> DEFINE b == Entry(Buyer, reference, <<"purchase">>, - (price + fee), price)
           f == Entry(Platform, reference, <<"fee">>, fee, 0)
           rest == IF fee > 0 THEN {f} ELSE {}
<1>1. /\ b.user = Buyer /\ b.reference = reference
      /\ b.available = - (price + fee) /\ b.escrow = price
      /\ f.user = Platform /\ f.available = fee /\ f.escrow = 0
    BY DEF Entry
<1>2. Reservation(reference, price, fee) = {b} \cup rest
    BY DEF Reservation
<1>3. Buyers(b) /\ AnOther(rest)
    <2> HIDE DEF b, f
    <2> QED
        BY <1>1, UsersDiffer DEF Buyers, AnOther
<1>4. Available(rest) = fee /\ Escrow(rest) = 0
    <2>1. CASE fee > 0
        BY <1>1, <2>1, OneEntry
    <2>2. CASE ~ (fee > 0)
        BY <2>2, NoEntries
    <2> QED
        BY <2>1, <2>2
<1> HIDE DEF b, f, rest
<1>5. AddUp(b, rest)
    BY <1>3, EntryAndOther
<1>6. Available({b} \cup rest) + Escrow({b} \cup rest) = 0
    BY <1>1, <1>4, <1>5 DEF AddUp
<1> QED
    BY <1>1, <1>2, <1>5, <1>6 DEF AddUp, Books

\* settleCredit and distributeCredit take the price from escrow and give all of
\* it to the two sides, as long as no more than the price goes back to the buyer.
LEMMA DivisionBooks ==
    ASSUME NEW reference, NEW price \in Nat, NEW toBuyer \in 0 .. price, NEW kind, NEW saleKind
    PROVE  Books(Division(reference, price, toBuyer, kind, saleKind), reference, 0, - price)
<1> DEFINE b == Entry(Buyer, reference, kind, toBuyer, - price)
           f == Entry(Seller, reference, saleKind, price - toBuyer, 0)
           rest == IF price > toBuyer THEN {f} ELSE {}
<1>1. /\ b.user = Buyer /\ b.reference = reference
      /\ b.available = toBuyer /\ b.escrow = - price
      /\ f.user = Seller /\ f.available = price - toBuyer /\ f.escrow = 0
    BY DEF Entry
<1>2. Division(reference, price, toBuyer, kind, saleKind) = {b} \cup rest
    BY DEF Division
<1>3. Buyers(b) /\ AnOther(rest)
    <2> HIDE DEF b, f
    <2> QED
        BY <1>1, UsersDiffer DEF Buyers, AnOther
<1>4. Available(rest) = price - toBuyer /\ Escrow(rest) = 0
    <2>1. CASE price > toBuyer
        BY <1>1, <2>1, OneEntry
    <2>2. CASE ~ (price > toBuyer)
        BY <2>2, NoEntries
    <2> QED
        BY <2>1, <2>2
<1> HIDE DEF b, f, rest
<1>5. AddUp(b, rest)
    BY <1>3, EntryAndOther
<1>6. Available({b} \cup rest) + Escrow({b} \cup rest) = 0
    BY <1>1, <1>4, <1>5 DEF AddUp
<1> QED
    BY <1>1, <1>2, <1>5, <1>6 DEF AddUp, Books

\* A deposit adds credit, a transfer to the agent moves it; neither is held.
LEMMA DepositBooks ==
    ASSUME NEW d
    PROVE  Books({Entry(Buyer, d, <<"deposit">>, DepositAmount, 0)}, d, DepositAmount, 0)
<1> DEFINE b == Entry(Buyer, d, <<"deposit">>, DepositAmount, 0)
<1>1. /\ b.user = Buyer /\ b.reference = d /\ b.available = DepositAmount /\ b.escrow = 0
      /\ DepositAmount \in Int
    BY CreditAssumption DEF Entry
<1> HIDE DEF b
<1>2. AddUp(b, {})
    <2>1. Buyers(b) /\ AnOther({})
        BY <1>1 DEF Buyers, AnOther
    <2> QED
        BY <2>1, EntryAndOther
<1>3. {b} \cup {} = {b}
    OBVIOUS
<1>4. Books({b}, d, DepositAmount, 0)
    BY <1>1, <1>2, <1>3, NoEntries DEF AddUp, Books
<1> QED
    BY <1>4 DEF b

\* Funding an owned agent moves credit between two users: the total is unchanged.
LEMMA TransferBooks ==
    ASSUME NEW reference
    PROVE  Books({Entry(Buyer, reference, <<"transfer_out">>, - TransferAmount, 0),
                  Entry(Agent, reference, <<"transfer_in">>, TransferAmount, 0)}, reference, 0, 0)
<1> DEFINE b == Entry(Buyer, reference, <<"transfer_out">>, - TransferAmount, 0)
           f == Entry(Agent, reference, <<"transfer_in">>, TransferAmount, 0)
<1>1. /\ b.user = Buyer /\ b.reference = reference /\ b.available = - TransferAmount /\ b.escrow = 0
      /\ f.user = Agent /\ f.available = TransferAmount /\ f.escrow = 0
      /\ TransferAmount \in Int
    BY CreditAssumption DEF Entry
<1> HIDE DEF b, f
<1>2. Buyers(b) /\ AnOther({f})
    BY <1>1, UsersDiffer DEF Buyers, AnOther
<1>3. AddUp(b, {f})
    BY <1>2, EntryAndOther
<1>4. {b} \cup {f} = {b, f}
    OBVIOUS
<1>5. Available({f}) = TransferAmount /\ Escrow({f}) = 0
    BY <1>1, OneEntry
<1>6. Books({b, f}, reference, 0, 0)
    BY <1>1, <1>3, <1>4, <1>5 DEF AddUp, Books
<1> QED
    BY <1>6 DEF b, f

-----------------------------------------------------------------------------
(* What posting does *)

AccountRows ==
    /\ account \in [Users -> [available : Nat, escrow : Nat]]
    /\ IsFiniteSet(entries) /\ Typed(entries)

AccountsAddUp ==
    \A u \in Users : account[u] = [available |-> Available(Of(u)), escrow |-> Escrow(Of(u))]

\* The new entry of an account, if there is one.
NewOf(new, u) == {e \in new : e.user = u}
AtMostOne(for, new, u) ==
    /\ IsFiniteSet(for) /\ Typed(for)
    /\ \/ for = {} /\ Available(for) = 0 /\ Escrow(for) = 0
       \/ \E e \in new : /\ e.user = u /\ for = {e}
                         /\ Available(for) = e.available /\ Escrow(for) = e.escrow

\* postEntry is called at most once for an account in each transaction.
LEMMA NewEntryOf ==
    ASSUME NEW new, Postable(new), NEW u
    PROVE  AtMostOne(NewOf(new, u), new, u)
<1> DEFINE for == {e \in new : e.user = u}
<1>1. IsFiniteSet(for) /\ Typed(for)
    BY FS_Subset DEF Postable, Typed
<1>2. ASSUME for = {}
      PROVE  Available(for) = 0 /\ Escrow(for) = 0
    <2> HIDE DEF for
    <2> QED
        BY <1>2, NoEntries
<1>3. ASSUME for # {}
      PROVE  \E e \in new : /\ e.user = u /\ for = {e}
                            /\ Available(for) = e.available /\ Escrow(for) = e.escrow
    <2>1. PICK e \in new : e.user = u /\ for = {e}
        BY <1>3 DEF Postable
    <2>2. e.available \in Int /\ e.escrow \in Int
        BY <2>1 DEF Postable, Typed
    <2>3. Available(for) = e.available /\ Escrow(for) = e.escrow
        <3> HIDE DEF for
        <3> QED
            BY <2>1, <2>2, OneEntry
    <2> QED
        BY <2>1, <2>3
<1>4. AtMostOne(for, new, u)
    <2> HIDE DEF for
    <2> QED
        BY <1>1, <1>2, <1>3 DEF AtMostOne
<1> QED
    BY <1>4 DEF NewOf

\* After a transaction the rows of the accounts are typed, and no balance is negative:
\* the guard of the update (Covered) refused it otherwise.
LEMMA PostRows ==
    ASSUME AccountRows, NEW new, Postable(new), Post(new)
    PROVE  AccountRows'
<1>1. /\ entries' = entries \cup new
      /\ account' = [u \in Users |->
             [available |-> account[u].available + Available({e \in new : e.user = u}),
              escrow |-> account[u].escrow + Escrow({e \in new : e.user = u})]]
      /\ \A e \in new : Unique(e) /\ Covered(e)
    BY DEF Post
<1>2. IsFiniteSet(entries') /\ Typed(entries')
    BY <1>1, FS_Union DEF AccountRows, Postable, Typed
<1>3. ASSUME NEW u \in Users
      PROVE  /\ account[u].available + Available({e \in new : e.user = u}) \in Nat
             /\ account[u].escrow + Escrow({e \in new : e.user = u}) \in Nat
    <2> DEFINE for == {e \in new : e.user = u}
    <2>1. \/ for = {} /\ Available(for) = 0 /\ Escrow(for) = 0
          \/ \E e \in new : /\ e.user = u /\ for = {e}
                            /\ Available(for) = e.available /\ Escrow(for) = e.escrow
        <3>1. for = NewOf(new, u)
            BY DEF NewOf
        <3> HIDE DEF for
        <3> QED
            BY <3>1, NewEntryOf DEF AtMostOne
    <2>2. account[u].available \in Nat /\ account[u].escrow \in Nat
        BY DEF AccountRows
    <2> HIDE DEF for
    <2>3. account[u].available + Available(for) \in Nat /\ account[u].escrow + Escrow(for) \in Nat
        <3>1. CASE for = {} /\ Available(for) = 0 /\ Escrow(for) = 0
            BY <2>2, <3>1
        <3>2. ASSUME NEW e \in new, e.user = u, Available(for) = e.available, Escrow(for) = e.escrow
              PROVE  account[u].available + Available(for) \in Nat /\ account[u].escrow + Escrow(for) \in Nat
            <4>1. account[u].available + e.available >= 0 /\ account[u].escrow + e.escrow >= 0
                BY <1>1, <3>2 DEF Covered
            <4>2. e.available \in Int /\ e.escrow \in Int
                BY DEF Postable, Typed
            <4> QED
                BY <2>2, <3>2, <4>1, <4>2
        <3> QED
            BY <2>1, <3>1, <3>2
    <2> QED
        BY <2>3 DEF for
<1>4. account' \in [Users -> [available : Nat, escrow : Nat]]
    BY <1>1, <1>3
<1> QED
    BY <1>2, <1>4 DEF AccountRows

\* An entry that is unique was not there.
LEMMA NewIsNew ==
    ASSUME NEW new, Post(new)
    PROVE  entries \cap new = {} /\ entries' = entries \cup new
<1>1. \A e \in new : Unique(e)
    BY DEF Post
<1> QED
    BY <1>1 DEF Unique, Post

\* The update of a balance adds exactly the entry inserted with it.
LEMMA PostAddsUp ==
    ASSUME AccountRows, AccountsAddUp, NEW new, Postable(new), Post(new)
    PROVE  AccountsAddUp'
<1>1. entries \cap new = {} /\ entries' = entries \cup new
    BY NewIsNew
<1>2. ASSUME NEW u \in Users
      PROVE  account'[u] = [available |-> Available(Of(u)'), escrow |-> Escrow(Of(u)')]
    <2> DEFINE for == {e \in new : e.user = u}
               of == Of(u)
    <2>1. IsFiniteSet(for) /\ Typed(for)
        <3>1. for = NewOf(new, u)
            BY DEF NewOf
        <3> HIDE DEF for
        <3> QED
            BY <3>1, NewEntryOf DEF AtMostOne
    <2>2. IsFiniteSet(of) /\ Typed(of)
        BY FS_Subset DEF AccountRows, Of, Typed
    <2>3. of \cap for = {} /\ Of(u)' = of \cup for
        BY <1>1 DEF Of
    <2>4. account'[u] = [available |-> account[u].available + Available(for),
                         escrow |-> account[u].escrow + Escrow(for)]
        <3>1. account' = [v \in Users |->
                  [available |-> account[v].available + Available({e \in new : e.user = v}),
                   escrow |-> account[v].escrow + Escrow({e \in new : e.user = v})]]
            BY DEF Post
        <3> QED
            BY <3>1, Zenon
    <2>5. account[u].available = Available(of) /\ account[u].escrow = Escrow(of)
        <3>1. account[u] = [available |-> Available(of), escrow |-> Escrow(of)]
            BY DEF AccountsAddUp
        <3> HIDE DEF of
        <3> QED
            BY <3>1
    <2> HIDE DEF for, of
    <2>6. /\ Available(of \cup for) = Available(of) + Available(for)
          /\ Escrow(of \cup for) = Escrow(of) + Escrow(for)
        BY <2>1, <2>2, <2>3, MoreEntries
    <2>7. Available(Of(u)') = Available(of \cup for) /\ Escrow(Of(u)') = Escrow(of \cup for)
        BY <2>3, Zenon
    <2> QED
        BY <2>4, <2>5, <2>6, <2>7
<1> QED
    BY <1>2 DEF AccountsAddUp, Available, Escrow

\* What all accounts hold together, and what is held for one purchase.
LEMMA PostSums ==
    ASSUME AccountRows, NEW new, Postable(new), Post(new)
    PROVE  /\ Available(entries)' = Available(entries) + Available(new)
           /\ Escrow(entries)' = Escrow(entries) + Escrow(new)
           /\ \A reference : Held(reference)' = Held(reference) + HeldBy(new, reference)
<1>1. entries \cap new = {} /\ entries' = entries \cup new
    BY NewIsNew
<1>2. /\ IsFiniteSet(entries) /\ Typed(entries)
      /\ IsFiniteSet(new) /\ Typed(new)
    BY DEF AccountRows, Postable
<1>3. /\ Available(entries \cup new) = Available(entries) + Available(new)
      /\ Escrow(entries \cup new) = Escrow(entries) + Escrow(new)
    BY <1>1, <1>2, MoreEntries
<1>4. Available(entries') = Available(entries \cup new) /\ Escrow(entries') = Escrow(entries \cup new)
    BY <1>1, Zenon
<1>5. Available(entries)' = Available(entries') /\ Escrow(entries)' = Escrow(entries')
    BY DEF Available, Escrow
<1>6. ASSUME NEW reference
      PROVE  Held(reference)' = Held(reference) + HeldBy(new, reference)
    <2> DEFINE old == {e \in Of(Buyer) : e.reference = reference}
               more == {e \in new : e.user = Buyer /\ e.reference = reference}
               now == {e \in Of(Buyer)' : e.reference = reference}
    <2>1. /\ IsFiniteSet(old) /\ IsFiniteSet(more) /\ Typed(old) /\ Typed(more)
        BY <1>2, FS_Subset DEF Of, Typed
    <2>2. old \cap more = {} /\ now = old \cup more
        BY <1>1 DEF Of
    <2>3. Held(reference) = Escrow(old) /\ HeldBy(new, reference) = Escrow(more)
        BY DEF Held, HeldBy
    <2>4. Held(reference)' = Escrow(now)
        BY DEF Held, Escrow
    <2> HIDE DEF old, more, now
    <2>5. Escrow(old \cup more) = Escrow(old) + Escrow(more)
        BY <2>1, <2>2, MoreEntries
    <2>6. Escrow(now) = Escrow(old \cup more)
        BY <2>2, Zenon
    <2> QED
        BY <2>3, <2>4, <2>5, <2>6
<1> QED
    BY <1>3, <1>4, <1>5, <1>6

-----------------------------------------------------------------------------
(* What each transaction books *)

\* A step that books so much for one purchase keeps the accounts in order.
Booked(reference, credited, held) ==
    /\ AccountRows' /\ AccountsAddUp'
    /\ Available(entries)' + Escrow(entries)' = Available(entries) + Escrow(entries) + credited
    /\ \A other : Held(other)' = IF other = reference THEN Held(other) + held ELSE Held(other)

InBalance == AccountRows /\ AccountsAddUp

\* The sums over the entries made so far are integers.
LEMMA HeldIsInt ==
    ASSUME AccountRows, NEW reference
    PROVE  Held(reference) \in Int /\ Available(entries) \in Int /\ Escrow(entries) \in Int
<1> DEFINE his == {e \in Of(Buyer) : e.reference = reference}
<1>1. IsFiniteSet(his) /\ Typed(his)
    BY FS_Subset DEF AccountRows, Of, Typed
<1>2. Escrow(his) \in Int
    <2> HIDE DEF his
    <2> QED
        BY <1>1, EntriesAreInt
<1> QED
    BY <1>2, EntriesAreInt DEF AccountRows, Held

\* What a transaction posts, whatever it is, is what the books show of it.
LEMMA PostIsBooked ==
    ASSUME InBalance, NEW reference, NEW credited \in Int, NEW held \in Int,
           NEW new, Books(new, reference, credited, held), Post(new)
    PROVE  Booked(reference, credited, held)
<1>1. Postable(new) /\ Typed(new) /\ IsFiniteSet(new) /\ AccountRows /\ AccountsAddUp
    BY DEF Books, Postable, InBalance
<1>2. AccountRows' /\ AccountsAddUp'
    BY <1>1, PostRows, PostAddsUp
<1>3. /\ Available(entries)' = Available(entries) + Available(new)
      /\ Escrow(entries)' = Escrow(entries) + Escrow(new)
      /\ \A other : Held(other)' = Held(other) + HeldBy(new, other)
    BY <1>1, PostSums
<1>4. /\ Available(entries) \in Int /\ Escrow(entries) \in Int
      /\ Available(new) \in Int /\ Escrow(new) \in Int
    BY <1>1, HeldIsInt, EntriesAreInt
<1>5. Available(entries)' + Escrow(entries)' = Available(entries) + Escrow(entries) + credited
    BY <1>3, <1>4 DEF Books
<1>6. \A other : Held(other)' = IF other = reference THEN Held(other) + held ELSE Held(other)
    <2> SUFFICES ASSUME NEW other
                 PROVE  Held(other)' = IF other = reference THEN Held(other) + held ELSE Held(other)
        OBVIOUS
    <2>1. HeldBy(new, other) = IF other = reference THEN held ELSE 0
        BY DEF Books
    <2>2. Held(other) \in Int
        BY <1>1, HeldIsInt
    <2> QED
        BY <1>3, <2>1, <2>2
<1> QED
    BY <1>2, <1>5, <1>6 DEF Booked

\* A transaction that leaves the accounts alone books nothing.
LEMMA NothingBooked ==
    ASSUME InBalance, UNCHANGED <<account, entries>>, NEW reference
    PROVE  Booked(reference, 0, 0)
<1>1. AccountRows' /\ AccountsAddUp'
    BY DEF InBalance, AccountRows, AccountsAddUp, Typed, Of, Available, Escrow
<1>2. /\ Available(entries)' = Available(entries) /\ Escrow(entries)' = Escrow(entries)
      /\ \A other : Held(other)' = Held(other)
    BY DEF Available, Escrow, Held, Of
<1>3. Available(entries) \in Int /\ Escrow(entries) \in Int /\ \A other : Held(other) \in Int
    BY HeldIsInt DEF InBalance
<1>4. \A other : Held(other)' = IF other = reference THEN Held(other) + 0 ELSE Held(other)
    BY <1>2, <1>3
<1> QED
    BY <1>1, <1>2, <1>3, <1>4 DEF Booked

\* What deposits, purchases, settlements and transfers to an agent book.
LEMMA CreditBooked ==
    ASSUME InBalance
    PROVE  /\ \A d : Post({Entry(Buyer, d, <<"deposit">>, DepositAmount, 0)})
                        => Booked(d, DepositAmount, 0)
           /\ \A t : Purchase(t) => Booked(t, 0, SalePrice)
           /\ \A t : \A toBuyer \in 0 .. SalePrice : Settle(t, toBuyer) => Booked(t, 0, - SalePrice)
           /\ \A reference : FundOwnedAgent(reference) => Booked(reference, 0, 0)
<1>1. DepositAmount \in Int /\ SalePrice \in Nat /\ SaleFee \in Nat /\ - SalePrice \in Int /\ 0 \in Int
    BY CreditAssumption
<1>2. ASSUME NEW d, Post({Entry(Buyer, d, <<"deposit">>, DepositAmount, 0)})
      PROVE  Booked(d, DepositAmount, 0)
    BY <1>1, <1>2, DepositBooks, PostIsBooked
<1>3. ASSUME NEW t, Purchase(t)
      PROVE  Booked(t, 0, SalePrice)
    <2>1. Post(Reservation(t, SalePrice, SaleFee))
        BY <1>3 DEF Purchase
    <2>2. Books(Reservation(t, SalePrice, SaleFee), t, 0, SalePrice)
        BY <1>1, ReservationBooks
    <2> QED
        BY <1>1, <2>1, <2>2, PostIsBooked
<1>4. ASSUME NEW t, NEW toBuyer \in 0 .. SalePrice, Settle(t, toBuyer)
      PROVE  Booked(t, 0, - SalePrice)
    <2>1. Post(Division(t, SalePrice, toBuyer, <<"settlement">>, <<"sale">>))
        BY <1>4 DEF Settle
    <2>2. Books(Division(t, SalePrice, toBuyer, <<"settlement">>, <<"sale">>), t, 0, - SalePrice)
        BY <1>1, DivisionBooks
    <2> QED
        BY <1>1, <2>1, <2>2, PostIsBooked
<1>5. ASSUME NEW reference, FundOwnedAgent(reference)
      PROVE  Booked(reference, 0, 0)
    BY <1>1, <1>5, TransferBooks, PostIsBooked DEF FundOwnedAgent
<1> QED
    BY <1>2, <1>3, <1>4, <1>5

\* distributeCredit takes an amount of a contract out of escrow, whatever part of
\* it goes back to the buyer.
LEMMA DistributeBooked ==
    ASSUME InBalance, NEW c, NEW number, NEW amount \in Nat, NEW toBuyer \in 0 .. amount,
           Distribute(c, number, amount, toBuyer)
    PROVE  Booked(c, 0, - amount)
<1> DEFINE new == Division(c, amount, toBuyer, <<"contract_settlement", number>>,
                           <<"contract_sale", number>>)
<1>1. Post(new)
    BY DEF Distribute
<1>2. Books(new, c, 0, - amount)
    BY DivisionBooks
<1>3. 0 \in Int /\ - amount \in Int
    OBVIOUS
<1> HIDE DEF new
<1> QED
    BY <1>1, <1>2, <1>3, PostIsBooked

-----------------------------------------------------------------------------
(* The parts of a contract *)

\* What the milestones of a contract are numbered and cost.
LEMMA Parts ==
    ASSUME NEW c \in Agreements
    PROVE  /\ Len(Amounts[c]) \in Nat \ {0} /\ Numbers(c) = 1 .. Len(Amounts[c])
           /\ DOMAIN Amounts[c] = Numbers(c) /\ IsFiniteSet(Numbers(c))
           /\ 1 \in Numbers(c) /\ Numbers(c) \subseteq Nat
           /\ \A i \in Numbers(c) : Amounts[c][i] \in Nat
           /\ Fee[c] \in Nat
<1>1. Amounts[c] \in Seq(Nat \ {0}) /\ Amounts[c] # <<>> /\ Fee[c] \in Nat
    BY ContractsAssumption
<1>2. Len(Amounts[c]) \in Nat \ {0} /\ DOMAIN Amounts[c] = 1 .. Len(Amounts[c])
    BY <1>1
<1>3. IsFiniteSet(1 .. Len(Amounts[c]))
    BY <1>2, FS_Interval
<1>4. \A i \in 1 .. Len(Amounts[c]) : Amounts[c][i] \in Nat \ {0}
    BY <1>1
<1> QED
    BY <1>1, <1>2, <1>3, <1>4 DEF Numbers

\* contracts.total_amount is the sum of the milestones.
LEMMA TotalIsSum ==
    ASSUME NEW c \in Agreements
    PROVE  Total(c) = SumFunctionOnSet(Amounts[c], Numbers(c)) /\ Total(c) \in Nat
<1>1. Total(c) = SumFunctionOnSet(Amounts[c], DOMAIN Amounts[c])
    BY DEF Total, FoldFunction, SumFunctionOnSet
<1>2. DOMAIN Amounts[c] = Numbers(c)
    BY Parts
<1>3. SumFunctionOnSet(Amounts[c], Numbers(c)) \in Nat
    BY Parts, SumIsNat
<1>4. Total(c) = SumFunctionOnSet(Amounts[c], Numbers(c))
    BY <1>1, <1>2, Zenon
<1> QED
    BY <1>3, <1>4

\* splitContractFunds never gives more than there is, however it rounds.
LEMMA ShareFits ==
    ASSUME NEW amount \in Nat, NEW percent, NEW share \in SellerShares(amount, percent)
    PROVE  amount - share \in 0 .. amount
<1>1. share \in 0 .. amount
    BY DEF SellerShares
<1> QED
    BY <1>1

-----------------------------------------------------------------------------
(* The rows *)

RequestRow == [at : {"idle", "milestone", "disputed", "disputedMilestone", "write"},
               action : ContractActions \cup MilestoneActions \cup {"rule", "none"},
               contract : Agreements \cup {Null}, number : Nat,
               seen : ContractState \cup MilestoneState \cup {"none"}]
DisputeRow == [contract : Agreements, number : Nat, state : {"open", "resolved"}]

CreditRows ==
    /\ deposit \in [Deposits -> [state : {"pending", "confirmed"}, hash : Hashes \cup {Null}]]
    /\ receipts \in [Hashes -> {"none", "deposit", "trade"}]
    /\ sale \in [Sales -> {"none", "held", "settled"}]
    /\ call \in [Calls -> [at : {"idle", "claim", "verify", "post"},
                           deposit : Deposits \cup {Null}, hash : Hashes \cup {Null}]]
    /\ \A k \in Calls : call[k].at # "idle" => call[k].deposit \in Deposits /\ call[k].hash \in Hashes

ContractRows ==
    /\ contract \in [Agreements -> ContractState]
    /\ milestone = [c \in Agreements |-> milestone[c]]
    /\ \A c \in Agreements : milestone[c] \in [Numbers(c) -> MilestoneState]
    /\ listing \in {"active", "sold"} /\ rival \in BOOLEAN

\* A request is about a contract and a milestone or a dispute that are there.
Fits(q) ==
    /\ q.at # "idle" => q.contract \in Agreements
    /\ q.at = "milestone" => q.action \in MilestoneActions
    /\ q.action \in MilestoneActions => q.number \in Numbers(q.contract)
    /\ q.action = "rule" => q.number \in DOMAIN disputes /\ disputes[q.number].contract = q.contract

RequestRows ==
    /\ disputes \in Seq(DisputeRow)
    /\ \A d \in DOMAIN disputes : disputes[d].number \in Numbers(disputes[d].contract)
    /\ request \in [Requests -> RequestRow]
    /\ \A r \in Requests : Fits(request[r])

\* The rows are all that the type invariant is about.
LEMMA RowsAreTyped ==
    ASSUME AccountRows, CreditRows, ContractRows, RequestRows
    PROVE  TypeOK
<1>1. CreditTypeOK
    BY DEF AccountRows, CreditRows, CreditTypeOK, Typed
<1>2. \A r \in Requests : request[r] \in RequestRow
    BY DEF RequestRows
<1>3. \A d \in DOMAIN disputes : disputes[d] \in DisputeRow
    BY DEF RequestRows
<1> QED
    BY <1>1, <1>2, <1>3 DEF ContractRows, RequestRow, DisputeRow, TypeOK

\* Everything has its type, and nothing is booked, at the start.
LEMMA InitRows ==
    ASSUME ContractsInit
    PROVE  AccountRows /\ AccountsAddUp /\ CreditRows /\ ContractRows /\ RequestRows
<1>1. AccountRows
    BY FS_EmptySet DEF ContractsInit, CreditInit, AccountRows, Typed
<1>2. AccountsAddUp
    <2>1. \A u \in Users : Of(u) = {}
        BY DEF ContractsInit, CreditInit, Of
    <2> QED
        BY <2>1, NoEntries DEF ContractsInit, CreditInit, AccountsAddUp
<1>3. CreditRows
    BY DEF ContractsInit, CreditInit, CreditRows, NoCall
<1>4. ContractRows
    BY DEF ContractsInit, ContractRows, ContractState, MilestoneState
<1>5. RequestRows
    <2>1. disputes = <<>> /\ request = [r \in Requests |-> NoRequest]
        BY DEF ContractsInit
    <2>2. NoRequest \in RequestRow /\ Fits(NoRequest)
        BY DEF NoRequest, RequestRow, Fits, MilestoneActions
    <2> QED
        BY <2>1, <2>2 DEF RequestRows
<1> QED
    BY <1>1, <1>2, <1>3, <1>4, <1>5

-----------------------------------------------------------------------------
(* Deposits and sales *)

Confirmed == {d \in Deposits : deposit[d].state = "confirmed"}

\* A transfer is claimed by one deposit, before the network is asked, and used up
\* for it when it is confirmed.
Claims ==
    /\ \A d, e \in Deposits : d # e /\ deposit[d].hash # Null => deposit[e].hash # deposit[d].hash
    /\ \A d \in Confirmed : deposit[d].hash \in Mined /\ receipts[deposit[d].hash] = "deposit"
    /\ \A k \in Calls :
        /\ call[k].at \in {"verify", "post"} => deposit[call[k].deposit].hash = call[k].hash
        /\ call[k].at = "post" => call[k].hash \in Mined

Backed == Available(entries) + Escrow(entries) = DepositAmount * Cardinality(Confirmed)
SalesHeld == \A t \in Sales : Held(t) = IF sale[t] = "held" THEN SalePrice ELSE 0

Deposited == InBalance /\ CreditRows /\ Claims /\ Backed /\ SalesHeld

\* The contracts touch neither deposits nor sales.
LEMMA CreditOrContract ==
    ASSUME [ContractsNext]_allVars
    PROVE  \/ CreditNext /\ UNCHANGED contractVars
           \/ UNCHANGED <<deposit, receipts, sale, call>>
<1>1. ASSUME NEW r \in Requests, NEW c \in Agreements,
             Fund(r, c) \/ Start(r, c) \/ Cancel(r, c) \/ Expire(r, c)
      PROVE  UNCHANGED <<deposit, receipts, sale, call>>
    BY <1>1 DEF Fund, Start, Cancel, Expire, RefundAll, creditVars
<1>2. ASSUME NEW r \in Requests, \/ \E to \in MilestoneState : WriteMilestone(r, to)
                                 \/ Ruling(r)
      PROVE  UNCHANGED <<deposit, receipts, sale, call>>
    BY <1>2 DEF WriteMilestone, Ruling, Rule, creditVars
<1>3. ASSUME NEW r \in Requests,
             \/ \E c \in Agreements, action \in ContractActions : ReadContract(r, c, action)
             \/ \E c \in Agreements, action \in MilestoneActions :
                    \E i \in Numbers(c) : ReadUnderWay(r, c, i, action)
             \/ ReadMilestone(r)
             \/ \E d \in DOMAIN disputes : ReadDispute(r, d)
             \/ ReadDisputed(r)
             \/ RequestEnds(r)
      PROVE  UNCHANGED <<deposit, receipts, sale, call>>
    BY <1>3 DEF ReadContract, ReadUnderWay, ReadMilestone, ReadDispute, ReadDisputed,
           RequestEnds, creditVars
<1>4. CASE \/ \E expired \in SUBSET Agreements, overdue \in SUBSET InReview : Maintain(expired, overdue)
           \/ RivalBuys \/ RivalCancels \/ UNCHANGED allVars
    BY <1>4 DEF Maintain, RivalBuys, RivalCancels, allVars, creditVars
<1> QED
    BY <1>1, <1>2, <1>3, <1>4 DEF ContractsNext

\* The steps of the calls to confirm that post nothing.
LEMMA CallsKeepClaims ==
    ASSUME Deposited, NEW k \in Calls,
           \/ \E d \in Deposits, h \in Hashes : StartConfirm(k, d, h)
           \/ ClaimHash(k) \/ Verify(k) \/ ConfirmDies(k)
    PROVE  CreditRows' /\ Claims' /\ Confirmed' = Confirmed /\ UNCHANGED <<account, entries, sale>>
<1>1. CreditRows /\ Claims
    BY DEF Deposited
<1>2. NoCall.at = "idle" /\ NoCall.deposit = Null /\ NoCall.hash = Null
    BY DEF NoCall
<1>3. ASSUME NEW d \in Deposits, NEW h \in Hashes, StartConfirm(k, d, h)
      PROVE  CreditRows' /\ Claims' /\ Confirmed' = Confirmed
    <2>1. /\ call' = [call EXCEPT ![k] = [at |-> "claim", deposit |-> d, hash |-> h]]
          /\ UNCHANGED <<account, entries, deposit, receipts, sale>>
        BY <1>3 DEF StartConfirm
    <2> QED
        BY <1>1, <2>1 DEF CreditRows, Claims, Confirmed
<1>4. CASE Verify(k)
    <2>1. /\ call[k].at = "verify" /\ call[k].hash \in Mined
          /\ call' = [call EXCEPT ![k].at = "post"]
          /\ UNCHANGED <<account, entries, deposit, receipts, sale>>
        BY <1>4 DEF Verify, Goto
    <2> QED
        BY <1>1, <2>1 DEF CreditRows, Claims, Confirmed
<1>5. ASSUME UNCHANGED <<deposit, receipts, sale>>, End(k)
      PROVE  CreditRows' /\ Claims' /\ Confirmed' = Confirmed
    <2>1. call' = [call EXCEPT ![k] = [at |-> "idle", deposit |-> Null, hash |-> Null]]
        BY <1>5 DEF End, NoCall
    <2> QED
        BY <1>1, <1>5, <2>1 DEF CreditRows, Claims, Confirmed
<1>6. CASE ClaimHash(k) /\ Claimable(k)
    <2> DEFINE d == call[k].deposit
               h == call[k].hash
    <2>1. /\ call[k].at = "claim" /\ d \in Deposits /\ h \in Hashes /\ h # Null
          /\ deposit[d].hash \in {Null, h}
          /\ \A e \in Deposits \ {d} : deposit[e].hash # h
        BY <1>1, <1>6, CreditAssumption DEF ClaimHash, Claimable, CreditRows
    <2>2. /\ deposit' = [deposit EXCEPT ![d].hash = h]
          /\ call' = [call EXCEPT ![k].at = "verify"]
          /\ UNCHANGED <<account, entries, receipts, sale>>
        BY <1>6 DEF ClaimHash, Goto
    <2>3. /\ deposit'[d].hash = h /\ deposit'[d].state = deposit[d].state
          /\ \A e \in Deposits \ {d} : deposit'[e] = deposit[e]
          /\ deposit' \in [Deposits -> [state : {"pending", "confirmed"}, hash : Hashes \cup {Null}]]
        BY <1>1, <2>1, <2>2 DEF CreditRows
    <2>4. /\ call'[k].at = "verify" /\ call'[k].deposit = d /\ call'[k].hash = h
          /\ \A l \in Calls \ {k} : call'[l] = call[l]
          /\ call' \in [Calls -> [at : {"idle", "claim", "verify", "post"},
                                  deposit : Deposits \cup {Null}, hash : Hashes \cup {Null}]]
        BY <1>1, <2>1, <2>2 DEF CreditRows
    <2> HIDE DEF d, h
    <2>5. Confirmed' = Confirmed
        BY <2>1, <2>3 DEF Confirmed
    <2>6. CreditRows'
        BY <1>1, <2>1, <2>2, <2>3, <2>4 DEF CreditRows
    <2>7. \A e, f \in Deposits : e # f /\ deposit'[e].hash # Null => deposit'[f].hash # deposit'[e].hash
        BY <1>1, <2>1, <2>3 DEF Claims
    <2>8. \A e \in Confirmed : deposit'[e].hash = deposit[e].hash
        <3>1. d \in Confirmed => deposit[d].hash = h
            <4>1. \A e \in Confirmed : deposit[e].hash \in Hashes
                BY <1>1, CreditAssumption DEF Claims
            <4> QED
                BY <2>1, <4>1, CreditAssumption
        <3> QED
            BY <2>3, <3>1 DEF Confirmed
    <2>9. \A l \in Calls : call'[l].at \in {"verify", "post"} =>
              deposit'[call'[l].deposit].hash = call'[l].hash
        <3> SUFFICES ASSUME NEW l \in Calls, call'[l].at \in {"verify", "post"}
                     PROVE  deposit'[call'[l].deposit].hash = call'[l].hash
            OBVIOUS
        <3>1. CASE l = k
            BY <2>3, <2>4, <3>1
        <3>2. CASE l # k
            <4>1. /\ call'[l] = call[l] /\ call[l].deposit \in Deposits /\ call[l].hash \in Hashes
                  /\ deposit[call[l].deposit].hash = call[l].hash
                BY <1>1, <2>4, <3>2 DEF CreditRows, Claims
            <4>2. call[l].deposit = d => call[l].hash = h
                BY <2>1, <4>1, CreditAssumption
            <4> QED
                BY <2>3, <4>1, <4>2
        <3> QED
            BY <3>1, <3>2
    <2>10. \A l \in Calls : call'[l].at = "post" => call'[l].hash \in Mined
        BY <1>1, <2>4 DEF Claims
    <2>11. Claims'
        BY <1>1, <2>2, <2>5, <2>7, <2>8, <2>9, <2>10 DEF Claims
    <2> QED
        BY <2>2, <2>5, <2>6, <2>11
<1>7. CASE ClaimHash(k) /\ ~ Claimable(k)
    BY <1>5, <1>7 DEF ClaimHash
<1>8. CASE ConfirmDies(k)
    BY <1>5, <1>8 DEF ConfirmDies
<1> QED
    BY <1>3, <1>4, <1>6, <1>7, <1>8 DEF StartConfirm, Verify, ClaimHash, ConfirmDies

\* What a step that books nothing into escrow leaves as it was.
LEMMA HeldStays ==
    ASSUME InBalance, NEW reference, NEW credited, Booked(reference, credited, 0)
    PROVE  \A other : Held(other)' = Held(other)
<1> SUFFICES ASSUME NEW other
             PROVE  Held(other)' = Held(other)
    OBVIOUS
<1>1. Held(other) \in Int
    BY HeldIsInt DEF InBalance
<1>2. Held(other)' = IF other = reference THEN Held(other) + 0 ELSE Held(other)
    BY DEF Booked
<1> QED
    BY <1>1, <1>2

\* Confirming one more deposit multiplies out.
LEMMA OneMore ==
    ASSUME NEW a \in Nat, NEW n \in Nat
    PROVE  a * (n + 1) = a * n + a /\ a * n \in Int
OBVIOUS

\* A confirmation posts its deposit once and uses up the transfer it claimed.
LEMMA PostDepositKeeps ==
    ASSUME Deposited, NEW k \in Calls, PostDeposit(k)
    PROVE  Deposited' /\ \A c \in Agreements : Held(c)' = Held(c)
<1> DEFINE d == call[k].deposit
           h == call[k].hash
<1>1. CreditRows /\ Claims /\ InBalance /\ Backed /\ SalesHeld
    BY DEF Deposited
<1>2. /\ call[k].at = "post" /\ d \in Deposits /\ h \in Hashes /\ h \in Mined /\ h # Null
      /\ deposit[d].hash = h
    BY <1>1, CreditAssumption DEF PostDeposit, CreditRows, Claims
<1>3. /\ call' = [call EXCEPT ![k] = [at |-> "idle", deposit |-> Null, hash |-> Null]]
      /\ sale' = sale
    BY DEF PostDeposit, End, NoCall
<1>4. CASE deposit[d].state = "pending" /\ receipts[h] = "none"
    <2>1. /\ receipts' = [receipts EXCEPT ![h] = "deposit"]
          /\ deposit' = [deposit EXCEPT ![d].state = "confirmed"]
          /\ Post({Entry(Buyer, d, <<"deposit">>, DepositAmount, 0)})
        BY <1>4 DEF PostDeposit, StillPending
    <2>2. Booked(d, DepositAmount, 0)
        BY <1>1, <2>1, CreditBooked
    <2>3. \A other : Held(other)' = Held(other)
        BY <1>1, <2>2, HeldStays
    <2>4. /\ deposit'[d].state = "confirmed" /\ deposit'[d].hash = h
          /\ \A e \in Deposits \ {d} : deposit'[e] = deposit[e]
          /\ deposit' \in [Deposits -> [state : {"pending", "confirmed"}, hash : Hashes \cup {Null}]]
        BY <1>1, <1>2, <2>1 DEF CreditRows
    <2>5. /\ receipts'[h] = "deposit" /\ \A g \in Hashes \ {h} : receipts'[g] = receipts[g]
          /\ receipts' \in [Hashes -> {"none", "deposit", "trade"}]
        BY <1>1, <1>2, <2>1 DEF CreditRows
    <2> HIDE DEF d, h
    <2>6. CreditRows'
        BY <1>1, <1>3, <2>4, <2>5 DEF CreditRows
    <2>7. Confirmed' = Confirmed \cup {d} /\ d \notin Confirmed
        BY <1>2, <1>4, <2>4 DEF Confirmed
    <2>8. Claims'
        <3>1. \A e \in Deposits : deposit'[e].hash = deposit[e].hash
            BY <1>2, <2>4
        <3>2. \A e, f \in Deposits : e # f /\ deposit'[e].hash # Null => deposit'[f].hash # deposit'[e].hash
            BY <1>1, <3>1 DEF Claims
        <3>3. \A e \in Confirmed \cup {d} : deposit'[e].hash \in Mined /\ receipts'[deposit'[e].hash] = "deposit"
            <4> SUFFICES ASSUME NEW e \in Confirmed \cup {d}
                         PROVE  deposit'[e].hash \in Mined /\ receipts'[deposit'[e].hash] = "deposit"
                OBVIOUS
            <4>1. CASE e = d
                BY <1>2, <2>4, <2>5, <4>1
            <4>2. CASE e \in Confirmed
                <5>1. /\ deposit[e].hash \in Mined /\ receipts[deposit[e].hash] = "deposit"
                      /\ deposit[e].hash \in Hashes
                    BY <1>1, <4>2, CreditAssumption DEF Claims
                <5> QED
                    BY <2>5, <3>1, <4>2, <5>1 DEF Confirmed
            <4> QED
                BY <4>1, <4>2
        <3>4. ASSUME NEW l \in Calls
              PROVE  /\ call'[l].at \in {"verify", "post"} => deposit'[call'[l].deposit].hash = call'[l].hash
                     /\ call'[l].at = "post" => call'[l].hash \in Mined
            <4>1. CASE l = k
                BY <1>1, <1>3, <4>1 DEF CreditRows
            <4>2. CASE l # k
                <5>1. call'[l] = call[l]
                    BY <1>1, <1>3, <4>2 DEF CreditRows
                <5>2. call[l].at \in {"verify", "post"} => call[l].deposit \in Deposits
                    BY <1>1 DEF CreditRows
                <5>3. /\ call[l].at \in {"verify", "post"} => deposit[call[l].deposit].hash = call[l].hash
                      /\ call[l].at = "post" => call[l].hash \in Mined
                    BY <1>1 DEF Claims
                <5> QED
                    BY <3>1, <5>1, <5>2, <5>3
            <4> QED
                BY <4>1, <4>2
        <3> QED
            BY <2>7, <3>2, <3>3, <3>4 DEF Claims
    <2>9. Backed'
        <3>1. IsFiniteSet(Confirmed)
            BY CreditAssumption, FS_Subset DEF Confirmed
        <3>2. Cardinality(Confirmed) \in Nat /\ Cardinality(Confirmed \cup {d}) = Cardinality(Confirmed) + 1
            BY <2>7, <3>1, FS_CardinalityType, FS_AddElement
        <3>3. Cardinality(Confirmed)' = Cardinality(Confirmed \cup {d})
            BY <2>7, Zenon
        <3>4. DepositAmount \in Nat
            BY CreditAssumption
        <3>5. DepositAmount * Cardinality(Confirmed)' = DepositAmount * Cardinality(Confirmed) + DepositAmount
            BY <3>2, <3>3, <3>4, OneMore
        <3>6. Available(entries)' + Escrow(entries)' = Available(entries) + Escrow(entries) + DepositAmount
            BY <2>2 DEF Booked
        <3>7. Available(entries) + Escrow(entries) = DepositAmount * Cardinality(Confirmed)
            BY <1>1 DEF Backed
        <3>8. Available(entries)' + Escrow(entries)' = DepositAmount * Cardinality(Confirmed)'
            BY <3>5, <3>6, <3>7
        <3> QED
            BY <3>8 DEF Backed
    <2>10. SalesHeld'
        BY <1>1, <1>3, <2>3 DEF SalesHeld
    <2> QED
        BY <2>2, <2>3, <2>6, <2>8, <2>9, <2>10 DEF Deposited, Booked, InBalance
<1>5. CASE ~ (deposit[d].state = "pending" /\ receipts[h] = "none")
    <2>1. UNCHANGED <<account, entries, deposit, receipts>>
        BY <1>5 DEF PostDeposit, StillPending
    <2>2. Booked(Null, 0, 0)
        BY <1>1, <2>1, NothingBooked
    <2>3. \A other : Held(other)' = Held(other)
        BY <1>1, <2>2, HeldStays
    <2>4. CreditRows' /\ Claims' /\ Confirmed' = Confirmed
        BY <1>1, <1>3, <2>1 DEF CreditRows, Claims, Confirmed
    <2>5. Backed'
        <3>1. Available(entries)' = Available(entries) /\ Escrow(entries)' = Escrow(entries)
            BY <2>1 DEF Available, Escrow
        <3> QED
            BY <1>1, <2>4, <3>1 DEF Backed
    <2>6. SalesHeld'
        BY <1>1, <1>3, <2>3 DEF SalesHeld
    <2> QED
        BY <2>2, <2>3, <2>4, <2>5, <2>6 DEF Deposited, Booked, InBalance
<1> QED
    BY <1>4, <1>5

\* The credit's own steps keep deposits and sales, and hold for the contracts
\* what was held.
LEMMA CreditStepKeeps ==
    ASSUME Deposited, CreditNext
    PROVE  Deposited' /\ \A c \in Agreements : Held(c)' = Held(c)
<1>1. CreditRows /\ Claims /\ InBalance /\ Backed /\ SalesHeld
    BY DEF Deposited
<1>2. ASSUME NEW reference, Booked(reference, 0, 0), UNCHANGED sale, CreditRows', Claims',
             Confirmed' = Confirmed
      PROVE  Deposited' /\ \A c \in Agreements : Held(c)' = Held(c)
    <2>1. \A other : Held(other)' = Held(other)
        BY <1>1, <1>2, HeldStays
    <2>2. Backed'
        <3>1. Available(entries)' + Escrow(entries)' = Available(entries) + Escrow(entries) + 0
            BY <1>2 DEF Booked
        <3>2. Available(entries) \in Int /\ Escrow(entries) \in Int
            BY <1>1, HeldIsInt DEF InBalance
        <3> QED
            BY <1>1, <1>2, <3>1, <3>2 DEF Backed
    <2> QED
        BY <1>1, <1>2, <2>1, <2>2 DEF Deposited, Booked, InBalance, SalesHeld
<1>3. ASSUME NEW t \in Sales, NEW state \in {"held", "settled"}, NEW held, Booked(t, 0, held),
             UNCHANGED <<deposit, receipts, call>>, sale' = [sale EXCEPT ![t] = state],
             Held(t)' = IF state = "held" THEN SalePrice ELSE 0
      PROVE  Deposited' /\ \A c \in Agreements : Held(c)' = Held(c)
    <2>1. \A other : other # t => Held(other)' = Held(other)
        BY <1>3 DEF Booked
    <2>2. CreditRows' /\ Claims' /\ Confirmed' = Confirmed
        BY <1>1, <1>3 DEF CreditRows, Claims, Confirmed
    <2>3. Backed'
        <3>1. Available(entries)' + Escrow(entries)' = Available(entries) + Escrow(entries) + 0
            BY <1>3 DEF Booked
        <3>2. Available(entries) \in Int /\ Escrow(entries) \in Int
            BY <1>1, HeldIsInt DEF InBalance
        <3> QED
            BY <1>1, <2>2, <3>1, <3>2 DEF Backed
    <2>4. SalesHeld'
        <3> SUFFICES ASSUME NEW u \in Sales
                     PROVE  Held(u)' = IF sale'[u] = "held" THEN SalePrice ELSE 0
            BY DEF SalesHeld
        <3>1. sale'[u] = IF u = t THEN state ELSE sale[u]
            BY <1>1, <1>3 DEF CreditRows
        <3>2. Held(u) = IF sale[u] = "held" THEN SalePrice ELSE 0
            BY <1>1 DEF SalesHeld
        <3> QED
            BY <1>3, <2>1, <3>1, <3>2
    <2>5. t \notin Agreements
        BY ContractsAssumption
    <2> QED
        BY <1>3, <2>1, <2>2, <2>3, <2>4, <2>5 DEF Deposited, Booked, InBalance
<1>4. SalePrice \in Nat \ {0} /\ - SalePrice \in Int /\ 0 \in Int
    BY CreditAssumption
<1>5. ASSUME NEW k \in Calls,
             \/ \E d \in Deposits, h \in Hashes : StartConfirm(k, d, h)
             \/ ClaimHash(k) \/ Verify(k) \/ ConfirmDies(k)
      PROVE  Deposited' /\ \A c \in Agreements : Held(c)' = Held(c)
    <2>1. CreditRows' /\ Claims' /\ Confirmed' = Confirmed /\ UNCHANGED <<account, entries, sale>>
        BY <1>5, CallsKeepClaims
    <2>2. Booked(Null, 0, 0)
        BY <1>1, <2>1, NothingBooked
    <2> QED
        BY <1>2, <2>1, <2>2
<1>6. ASSUME NEW h \in Hashes, PayTrade(h)
      PROVE  Deposited' /\ \A c \in Agreements : Held(c)' = Held(c)
    <2>1. /\ receipts[h] = "none" /\ receipts' = [receipts EXCEPT ![h] = "trade"]
          /\ UNCHANGED <<account, entries, deposit, sale, call>>
        BY <1>6 DEF PayTrade
    <2>2. CreditRows' /\ Claims' /\ Confirmed' = Confirmed
        BY <1>1, <2>1 DEF CreditRows, Claims, Confirmed
    <2>3. Booked(Null, 0, 0)
        BY <1>1, <2>1, NothingBooked
    <2> QED
        BY <1>2, <2>1, <2>2, <2>3
<1>7. ASSUME NEW t \in Sales, Purchase(t)
      PROVE  Deposited' /\ \A c \in Agreements : Held(c)' = Held(c)
    <2>1. /\ sale[t] = "none" /\ sale' = [sale EXCEPT ![t] = "held"]
          /\ UNCHANGED <<deposit, receipts, call>>
        BY <1>7 DEF Purchase
    <2>2. Booked(t, 0, SalePrice)
        BY <1>1, <1>7, CreditBooked
    <2>3. Held(t) = 0
        BY <1>1, <2>1 DEF SalesHeld
    <2>4. Held(t)' = SalePrice
        BY <1>4, <2>2, <2>3 DEF Booked
    <2> QED
        BY <1>3, <2>1, <2>2, <2>4
<1>8. ASSUME NEW t \in Sales, NEW toBuyer \in 0 .. SalePrice, Settle(t, toBuyer)
      PROVE  Deposited' /\ \A c \in Agreements : Held(c)' = Held(c)
    <2>1. /\ sale[t] = "held" /\ sale' = [sale EXCEPT ![t] = "settled"]
          /\ UNCHANGED <<deposit, receipts, call>>
        BY <1>8 DEF Settle
    <2>2. Booked(t, 0, - SalePrice)
        BY <1>1, <1>8, CreditBooked
    <2>3. Held(t) = SalePrice
        BY <1>1, <2>1 DEF SalesHeld
    <2>4. Held(t)' = 0
        BY <1>4, <2>2, <2>3 DEF Booked
    <2> QED
        BY <1>3, <2>1, <2>2, <2>4
<1>9. ASSUME NEW reference, FundOwnedAgent(reference)
      PROVE  Deposited' /\ \A c \in Agreements : Held(c)' = Held(c)
    <2>1. UNCHANGED <<deposit, receipts, sale, call>>
        BY <1>9 DEF FundOwnedAgent
    <2>2. CreditRows' /\ Claims' /\ Confirmed' = Confirmed
        BY <1>1, <2>1 DEF CreditRows, Claims, Confirmed
    <2>3. Booked(reference, 0, 0)
        BY <1>1, <1>9, CreditBooked
    <2> QED
        BY <1>2, <2>1, <2>2, <2>3
<1> QED
    BY <1>5, <1>6, <1>7, <1>8, <1>9, PostDepositKeeps DEF CreditNext

-----------------------------------------------------------------------------
(* The milestones of one contract *)

Row(c, m) == m \in [Numbers(c) -> MilestoneState]
States(c, m) == {m[i] : i \in Numbers(c)}

\* Milestones are worked on one after the other ...
InOrder(c, m) ==
    \A i, j \in Numbers(c) : i < j => m[i] \in Over \/ m[j] = "PENDING"

\* ... and while some still wait, one of those before them is under way.
Working(c, m) ==
    \A j \in Numbers(c) : m[j] = "PENDING" /\ m[1] # "PENDING"
        => \E i \in Numbers(c) : i < j /\ m[i] \notin Over \cup {"PENDING"}

\* A contract in state s with the milestones m tells what they are.
Tells(s, c, m) ==
    /\ s \notin Unstarted /\ States(c, m) # {"PENDING"} => s = Derived(States(c, m))
    /\ (States(c, m) = {"PENDING"}) <=> (s \in Unstarted \/ (s = "REFUNDED" /\ m[1] = "PENDING"))
    /\ InOrder(c, m) /\ Working(c, m)

\* Nothing was started exactly while the first milestone waits.
LEMMA FirstTells ==
    ASSUME NEW c \in Agreements, NEW m, Row(c, m), InOrder(c, m)
    PROVE  /\ (States(c, m) = {"PENDING"}) <=> (m[1] = "PENDING")
           /\ (States(c, m) = {"PENDING"}) <=> (\A i \in Numbers(c) : m[i] = "PENDING")
<1>1. 1 \in Numbers(c) /\ \A i \in Numbers(c) : i \in Nat /\ (i = 1 \/ 1 < i)
    BY Parts
<1>2. m[1] = "PENDING" => \A i \in Numbers(c) : m[i] = "PENDING"
    BY <1>1 DEF InOrder, Over
<1>3. (\A i \in Numbers(c) : m[i] = "PENDING") <=> States(c, m) = {"PENDING"}
    BY <1>1 DEF States
<1> QED
    BY <1>1, <1>2, <1>3

\* nextContractStateFromMilestones never says FUNDED of a contract that started:
\* the state it derives tells the milestones.
LEMMA DerivedTells ==
    ASSUME NEW c \in Agreements, NEW m, Row(c, m), InOrder(c, m), Working(c, m), m[1] # "PENDING"
    PROVE  LET s == Derived(States(c, m)) IN
           /\ Tells(s, c, m)
           /\ s \in ContractState \ Unstarted
           /\ (s = "DISPUTED") <=> ("DISPUTED" \in States(c, m))
           /\ (s \in {"COMPLETED", "REFUNDED"}) <=> (States(c, m) \subseteq Over)
<1> DEFINE S == States(c, m)
           s == Derived(S)
<1>1. S \subseteq MilestoneState
    BY DEF Row, States
<1>2. S # {"PENDING"} /\ 1 \in Numbers(c)
    BY FirstTells, Parts
<1>3. ~ (S \subseteq Over) => \E i \in Numbers(c) : m[i] \notin Over \cup {"PENDING"}
    BY DEF Working, States
<1>4. ~ (S \subseteq Over) => S \cap {"DISPUTED", "AWAITING_BUYER_REVIEW", "APPROVED", "ACTIVE",
                                     "CHANGES_REQUESTED", "AUTO_FAILED"} # {}
    <2>1. ASSUME NEW x \in MilestoneState, x \notin Over \cup {"PENDING"}
          PROVE  x \in {"DISPUTED", "AWAITING_BUYER_REVIEW", "APPROVED", "ACTIVE",
                        "CHANGES_REQUESTED", "AUTO_FAILED"}
        BY <2>1 DEF MilestoneState, Over
    <2> QED
        BY <1>1, <1>3, <2>1 DEF States
<1>5. /\ s \in {"REFUNDED", "COMPLETED", "DISPUTED", "AWAITING_REVIEW", "IN_PROGRESS"}
      /\ (s = "DISPUTED") <=> ("DISPUTED" \in S)
      /\ (s \in {"COMPLETED", "REFUNDED"}) <=> (S \subseteq Over)
    <2> HIDE DEF S
    <2> QED
        BY <1>4 DEF Derived, Over
<1>6. s \in ContractState \ Unstarted
    BY <1>5 DEF ContractState, Unstarted
<1>7. Tells(s, c, m)
    BY <1>2, <1>6 DEF Tells
<1> QED
    BY <1>5, <1>6, <1>7

\* Around the milestone under way: those before it are over, those after it wait.
LEMMA UnderWay ==
    ASSUME NEW c \in Agreements, NEW m, Row(c, m), InOrder(c, m), NEW i \in Numbers(c),
           m[i] \notin Over \cup {"PENDING"}
    PROVE  /\ \A j \in Numbers(c) : j < i => m[j] \in Over
           /\ \A j \in Numbers(c) : i < j => m[j] = "PENDING"
           /\ m[1] # "PENDING"
<1>1. /\ \A j \in Numbers(c) : j < i => m[j] \in Over
      /\ \A j \in Numbers(c) : i < j => m[j] = "PENDING"
    BY DEF InOrder
<1>2. 1 \in Numbers(c) /\ (i = 1 \/ 1 < i)
    BY Parts
<1> QED
    BY <1>1, <1>2 DEF Over

\* A milestone that waits may start, one that is over may not.
LEMMA StartableStarts == "PENDING" \in Startable /\ Startable \cap Over = {}
BY DEF Startable, Over

\* Whatever the milestone under way becomes, the next one starts in time.
LEMMA MoveKeeps ==
    ASSUME NEW c \in Agreements, Row(c, milestone[c]), InOrder(c, milestone[c]),
           NEW i \in Numbers(c), milestone[c][i] \notin Over \cup {"PENDING"},
           NEW to \in MilestoneState \ {"PENDING"}, NEW from, "PENDING" \in from
    PROVE  LET after == Moved(c, i, to, from) IN
           /\ Row(c, after) /\ InOrder(c, after) /\ Working(c, after)
           /\ milestone[c][1] # "PENDING" /\ after[1] # "PENDING"
           /\ after[i] = to
           /\ \A j \in Numbers(c) \ {i} : after[j] = milestone[c][j] \/ after[j] = "ACTIVE"
<1> DEFINE m == milestone[c]
           after == Moved(c, i, to, from)
<1>1. Len(Amounts[c]) \in Nat /\ Numbers(c) = 1 .. Len(Amounts[c])
    BY Parts
<1>2. /\ \A j \in Numbers(c) : j < i => m[j] \in Over
      /\ \A j \in Numbers(c) : i < j => m[j] = "PENDING"
      /\ m[1] # "PENDING"
    BY UnderWay
<1>3. after = [j \in Numbers(c) |->
                 IF j = i THEN to
                 ELSE IF j = i + 1 /\ to \in Over /\ m[j] \in from THEN "ACTIVE"
                 ELSE m[j]]
    BY DEF Moved
<1>4. "ACTIVE" \in MilestoneState /\ "PENDING" \notin Over
    BY DEF MilestoneState, Over
<1>5. /\ after \in [Numbers(c) -> MilestoneState] /\ after[i] = to
      /\ \A j \in Numbers(c) : j < i => after[j] = m[j]
      /\ \A j \in Numbers(c) : i < j =>
            after[j] = IF j = i + 1 /\ to \in Over THEN "ACTIVE" ELSE "PENDING"
    BY <1>1, <1>2, <1>3, <1>4 DEF Row
<1> HIDE DEF after, m
<1>6. InOrder(c, after)
    <2> SUFFICES ASSUME NEW a \in Numbers(c), NEW b \in Numbers(c), a < b
                 PROVE  after[a] \in Over \/ after[b] = "PENDING"
        BY DEF InOrder
    <2>1. CASE a < i
        BY <1>2, <1>5, <2>1
    <2>2. CASE a = i
        BY <1>5, <2>2
    <2>3. CASE i < a
        BY <1>1, <1>5, <2>3
    <2> QED
        BY <1>1, <2>1, <2>2, <2>3
<1>7. Working(c, after)
    <2> SUFFICES ASSUME NEW b \in Numbers(c), after[b] = "PENDING"
                 PROVE  \E a \in Numbers(c) : a < b /\ after[a] \notin Over \cup {"PENDING"}
        BY DEF Working
    <2>1. i < b
        BY <1>1, <1>2, <1>4, <1>5
    <2>2. CASE to \in Over
        <3>1. i + 1 \in Numbers(c) /\ i < i + 1 /\ i + 1 < b
            BY <1>1, <1>5, <2>1, <2>2
        <3>2. after[i + 1] = "ACTIVE"
            BY <1>5, <2>2, <3>1
        <3> QED
            BY <3>1, <3>2 DEF Over
    <2>3. CASE to \notin Over
        BY <1>5, <2>1, <2>3
    <2> QED
        BY <2>2, <2>3
<1>8. after[1] # "PENDING"
    BY <1>1, <1>2, <1>4, <1>5
<1>9. \A j \in Numbers(c) \ {i} : after[j] = m[j] \/ after[j] = "ACTIVE"
    BY <1>1, <1>2, <1>5
<1> QED
    BY <1>2, <1>5, <1>6, <1>7, <1>8, <1>9 DEF Row, m, after

\* The milestones take their first step when the contract starts.
LEMMA StartKeeps ==
    ASSUME NEW c \in Agreements, NEW m, Row(c, m), \A i \in Numbers(c) : m[i] = "PENDING",
           NEW n, n = [m EXCEPT ![1] = "ACTIVE"]
    PROVE  Row(c, n) /\ Tells("IN_PROGRESS", c, n) /\ n[1] = "ACTIVE"
<1>1. 1 \in Numbers(c) /\ \A i \in Numbers(c) : i \in Nat /\ (i = 1 \/ 1 < i)
    BY Parts
<1>2. Row(c, n) /\ n[1] = "ACTIVE" /\ \A i \in Numbers(c) : i # 1 => n[i] = "PENDING"
    BY <1>1 DEF Row, MilestoneState
<1>3. InOrder(c, n)
    BY <1>1, <1>2 DEF InOrder
<1>4. Working(c, n)
    BY <1>1, <1>2 DEF Working, Over
<1>5. "ACTIVE" \in States(c, n) /\ States(c, n) \subseteq {"ACTIVE", "PENDING"}
    BY <1>1, <1>2 DEF States
<1>6. Derived(States(c, n)) = "IN_PROGRESS"
    <2> DEFINE S == States(c, n)
    <2> HIDE DEF S
    <2>1. "ACTIVE" \in S /\ S \subseteq {"ACTIVE", "PENDING"}
        BY <1>5 DEF S
    <2>2. /\ S # {"REFUNDED"} /\ ~ (S \subseteq Over) /\ "DISPUTED" \notin S
          /\ S \cap {"AWAITING_BUYER_REVIEW", "APPROVED"} = {}
          /\ S \cap {"ACTIVE", "CHANGES_REQUESTED", "AUTO_FAILED"} # {}
        BY <2>1 DEF Over
    <2>3. Derived(S) = "IN_PROGRESS"
        BY <2>2 DEF Derived
    <2> QED
        BY <2>3 DEF S
<1>7. States(c, n) # {"PENDING"}
    BY <1>5
<1>8. Tells("IN_PROGRESS", c, n)
    BY <1>3, <1>4, <1>6, <1>7 DEF Tells, Unstarted
<1> QED
    BY <1>2, <1>8

\* Maintenance approves some milestones that are in review.
LEMMA ApproveKeeps ==
    ASSUME NEW c \in Agreements, NEW m, Row(c, m), InOrder(c, m), Working(c, m), NEW n, Row(c, n),
           \A i \in Numbers(c) : n[i] = m[i] \/ (m[i] = "AWAITING_BUYER_REVIEW" /\ n[i] = "APPROVED")
    PROVE  /\ InOrder(c, n) /\ Working(c, n)
           /\ m[1] = "PENDING" => n = m
           /\ (m[1] = "PENDING") <=> (n[1] = "PENDING")
           /\ States(c, m) \subseteq Over => n = m
<1>1. 1 \in Numbers(c)
    BY Parts
<1>2. \A i \in Numbers(c) : /\ m[i] \in Over <=> n[i] \in Over
                            /\ m[i] = "PENDING" <=> n[i] = "PENDING"
    BY DEF Over
<1>3. InOrder(c, n) /\ Working(c, n)
    BY <1>1, <1>2 DEF InOrder, Working
<1>4. (\A i \in Numbers(c) : m[i] # "AWAITING_BUYER_REVIEW") => n = m
    BY DEF Row
<1>5. m[1] = "PENDING" => n = m
    BY <1>4, FirstTells
<1>6. States(c, m) \subseteq Over => n = m
    BY <1>4 DEF States, Over
<1> QED
    BY <1>1, <1>2, <1>3, <1>5, <1>6

-----------------------------------------------------------------------------
(* What contracts tell *)

DisputesOpen ==
    \A c \in Agreements : \A i \in Numbers(c) : milestone[c][i] = "DISPUTED" =>
        \E d \in DOMAIN disputes : disputes[d] = [contract |-> c, number |-> i, state |-> "open"]

Holds(c) == contract[c] \in Sells /\ ~ RefundedUnstarted(c)

\* At most one contract or another buyer's trade has the listing.
OneHolder ==
    /\ \A c, d \in Agreements : Holds(c) /\ Holds(d) => c = d
    /\ rival => \A c \in Agreements : ~ Holds(c)
    /\ (listing = "sold") <=> (rival \/ \E c \in Agreements : Holds(c))

AllTell == \A c \in Agreements : Tells(contract[c], c, milestone[c])
Told == ContractRows /\ RequestRows /\ AllTell /\ DisputesOpen /\ OneHolder

\* A contract with a milestone touched is under way or settled, and has the listing.
LEMMA TouchedHolds ==
    ASSUME Told, NEW c \in Agreements
    PROVE  /\ milestone[c][1] # "PENDING" => contract[c] \notin Unstarted /\ Holds(c)
           /\ contract[c] \in Unstarted => \A i \in Numbers(c) : milestone[c][i] = "PENDING"
           /\ contract[c] \notin Unstarted /\ contract[c] # "REFUNDED" => milestone[c][1] # "PENDING"
<1>1. /\ Tells(contract[c], c, milestone[c]) /\ Row(c, milestone[c])
      /\ contract[c] \in ContractState
    BY DEF Told, AllTell, ContractRows, Row
<1>2. /\ (States(c, milestone[c]) = {"PENDING"}) <=> (milestone[c][1] = "PENDING")
      /\ (States(c, milestone[c]) = {"PENDING"}) <=> (\A i \in Numbers(c) : milestone[c][i] = "PENDING")
    BY <1>1, FirstTells DEF Tells
<1> QED
    BY <1>1, <1>2 DEF Tells, Holds, RefundedUnstarted, Sells, Unstarted

\* A change of one contract that goes on holding the listing, or still does not.
Only(c) ==
    /\ contract' \in [Agreements -> ContractState]
    /\ milestone' = [d \in Agreements |-> milestone'[d]]
    /\ \A d \in Agreements \ {c} : contract'[d] = contract[d] /\ milestone'[d] = milestone[d]
    /\ Row(c, milestone'[c]) /\ Tells(contract'[c], c, milestone'[c])

\* A transaction on one contract, which then tells its milestones, leaves all others so.
LEMMA OnlyKeeps ==
    ASSUME Told, NEW c \in Agreements, Only(c), listing' \in {"active", "sold"}, rival' \in BOOLEAN
    PROVE  ContractRows' /\ AllTell' /\ \A d \in Agreements \ {c} : Holds(d)' <=> Holds(d)
<1>1. ContractRows /\ AllTell
    BY DEF Told
<1>2. ContractRows'
    BY <1>1 DEF ContractRows, Only, Row
<1>3. AllTell'
    <2>1. ASSUME NEW d \in Agreements
          PROVE  Tells(contract'[d], d, milestone'[d])
        <3>1. CASE d = c
            BY <3>1 DEF Only
        <3>2. CASE d # c
            <4>1. contract'[d] = contract[d] /\ milestone'[d] = milestone[d]
                BY <3>2 DEF Only
            <4>2. Tells(contract[d], d, milestone[d])
                BY <1>1 DEF AllTell
            <4> QED
                BY <4>1, <4>2
        <3> QED
            BY <3>1, <3>2
    <2> QED
        BY <2>1 DEF AllTell, Tells, InOrder, Working, States
<1>4. \A d \in Agreements \ {c} : Holds(d)' <=> Holds(d)
    BY DEF Only, Holds, RefundedUnstarted
<1> QED
    BY <1>2, <1>3, <1>4

\* The listing follows the contract that holds it.
LEMMA HolderKeeps ==
    ASSUME OneHolder, NEW c \in Agreements, rival' = rival,
           \A d \in Agreements \ {c} : Holds(d)' <=> Holds(d),
           \/ (Holds(c)' <=> Holds(c)) /\ listing' = listing
           \/ listing = "active" /\ listing' = "sold" /\ Holds(c)'
           \/ Holds(c) /\ listing' = "active" /\ ~ Holds(c)'
    PROVE  OneHolder'
<1> DEFINE H(d) == Holds(d)
           N(d) == Holds(d)'
<1>1. /\ \A d, e \in Agreements : H(d) /\ H(e) => d = e
      /\ rival => \A d \in Agreements : ~ H(d)
      /\ (listing = "sold") <=> (rival \/ \E d \in Agreements : H(d))
    BY DEF OneHolder
<1>2. /\ \A d \in Agreements \ {c} : N(d) <=> H(d)
      /\ \/ (N(c) <=> H(c)) /\ listing' = listing
         \/ listing = "active" /\ listing' = "sold" /\ N(c)
         \/ H(c) /\ listing' = "active" /\ ~ N(c)
    OBVIOUS
<1> HIDE DEF H, N
<1>3. /\ \A d, e \in Agreements : N(d) /\ N(e) => d = e
      /\ rival' => \A d \in Agreements : ~ N(d)
      /\ (listing' = "sold") <=> (rival' \/ \E d \in Agreements : N(d))
    BY <1>1, <1>2
<1> QED
    BY <1>3 DEF OneHolder, N

-----------------------------------------------------------------------------
(* Requests and disputes *)

\* A request that is there, or none, in the place of one that was.
LEMMA RequestsKeep ==
    ASSUME RequestRows, NEW r \in Requests, NEW q \in RequestRow, Fits(q),
           request' = [request EXCEPT ![r] = q], disputes' = disputes
    PROVE  RequestRows'
<1>1. /\ disputes' \in Seq(DisputeRow)
      /\ \A d \in DOMAIN disputes' : disputes'[d].number \in Numbers(disputes'[d].contract)
      /\ request' \in [Requests -> RequestRow]
    BY DEF RequestRows
<1>2. ASSUME NEW s \in Requests
      PROVE  Fits(request[s])'
    <2>1. request'[s] = IF s = r THEN q ELSE request[s]
        BY DEF RequestRows
    <2>2. Fits(request'[s])
        BY <2>1 DEF RequestRows
    <2> QED
        BY <2>2 DEF Fits
<1> QED
    BY <1>1, <1>2 DEF RequestRows

\* No request fits, whatever the disputes are.
LEMMA NoRequestFits == NoRequest \in RequestRow /\ Fits(NoRequest) /\ Fits(NoRequest)'
BY DEF NoRequest, RequestRow, Fits, MilestoneActions

\* A request that reads before its transaction.
LEMMA ReadsKeep ==
    ASSUME RequestRows, ContractRows, NEW r \in Requests,
           \/ \E c \in Agreements, action \in ContractActions : ReadContract(r, c, action)
           \/ \E c \in Agreements, action \in MilestoneActions :
                  \E i \in Numbers(c) : ReadUnderWay(r, c, i, action)
           \/ ReadMilestone(r)
           \/ \E d \in DOMAIN disputes : ReadDispute(r, d)
           \/ ReadDisputed(r)
           \/ RequestEnds(r)
    PROVE  RequestRows' /\ UNCHANGED <<creditVars, contract, milestone, disputes, listing, rival>>
<1>1. ASSUME NEW c \in Agreements, NEW action \in ContractActions, ReadContract(r, c, action)
      PROVE  RequestRows' /\ UNCHANGED <<creditVars, contract, milestone, disputes, listing, rival>>
    <2> DEFINE q == [at |-> "write", action |-> action, contract |-> c, number |-> 0,
                     seen |-> contract[c]]
    <2>1. contract[c] \in ContractState
        BY DEF ContractRows
    <2>2. q \in RequestRow
        BY <2>1 DEF RequestRow
    <2>3. Fits(q)
        BY DEF Fits, ContractActions, MilestoneActions
    <2>4. /\ request' = [request EXCEPT ![r] = q]
          /\ UNCHANGED <<creditVars, contract, milestone, disputes, listing, rival>>
        BY <1>1 DEF ReadContract
    <2> HIDE DEF q
    <2> QED
        BY <2>2, <2>3, <2>4, RequestsKeep
<1>2. ASSUME NEW c \in Agreements, NEW action \in MilestoneActions, NEW i \in Numbers(c),
             ReadUnderWay(r, c, i, action)
      PROVE  RequestRows' /\ UNCHANGED <<creditVars, contract, milestone, disputes, listing, rival>>
    <2> DEFINE q == [at |-> "milestone", action |-> action, contract |-> c, number |-> i,
                     seen |-> "none"]
    <2>1. i \in Nat
        BY Parts
    <2>2. q \in RequestRow
        BY <2>1 DEF RequestRow
    <2>3. Fits(q)
        BY DEF Fits, MilestoneActions
    <2>4. /\ request' = [request EXCEPT ![r] = q]
          /\ UNCHANGED <<creditVars, contract, milestone, disputes, listing, rival>>
        BY <1>2 DEF ReadUnderWay
    <2> HIDE DEF q
    <2> QED
        BY <2>2, <2>3, <2>4, RequestsKeep
<1>3. CASE ReadMilestone(r)
    <2> DEFINE p == request[r]
               x == milestone[p.contract][p.number]
               q == [p EXCEPT !.at = "write", !.seen = x]
    <2>1. p \in RequestRow /\ Fits(p) /\ p.at = "milestone"
        BY <1>3 DEF ReadMilestone, RequestRows
    <2>2. p.contract \in Agreements /\ p.action \in MilestoneActions /\ p.number \in Numbers(p.contract)
        BY <2>1 DEF Fits
    <2>3. x \in MilestoneState
        BY <2>2 DEF ContractRows
    <2>4. /\ request' = [request EXCEPT ![r].at = "write", ![r].seen = x]
          /\ UNCHANGED <<creditVars, contract, milestone, disputes, listing, rival>>
        BY <1>3 DEF ReadMilestone
    <2>5. request' = [request EXCEPT ![r] = q]
        <3> HIDE DEF x
        <3> QED
            BY <2>4 DEF RequestRows
    <2> HIDE DEF p, x
    <2>6. /\ q \in RequestRow
          /\ q.at = "write" /\ q.action = p.action /\ q.contract = p.contract /\ q.number = p.number
        BY <2>1, <2>3 DEF RequestRow
    <2> HIDE DEF q
    <2>7. Fits(q)
        BY <2>1, <2>2, <2>6 DEF Fits
    <2> QED
        BY <2>4, <2>5, <2>6, <2>7, RequestsKeep
<1>4. ASSUME NEW d \in DOMAIN disputes, ReadDispute(r, d)
      PROVE  RequestRows' /\ UNCHANGED <<creditVars, contract, milestone, disputes, listing, rival>>
    <2> DEFINE q == [at |-> "disputed", action |-> "rule", contract |-> disputes[d].contract,
                     number |-> d, seen |-> "none"]
    <2>1. d \in Nat /\ disputes[d] \in DisputeRow
        BY DEF RequestRows
    <2>2. disputes[d].contract \in Agreements
        BY <2>1 DEF DisputeRow
    <2>3. q \in RequestRow
        BY <2>1, <2>2 DEF RequestRow
    <2>4. Fits(q)
        BY <2>2 DEF Fits, MilestoneActions
    <2>5. /\ request' = [request EXCEPT ![r] = q]
          /\ UNCHANGED <<creditVars, contract, milestone, disputes, listing, rival>>
        BY <1>4 DEF ReadDispute
    <2> HIDE DEF q
    <2> QED
        BY <2>3, <2>4, <2>5, RequestsKeep
<1>5. CASE ReadDisputed(r)
    <2>1. PICK at \in {"disputedMilestone", "write"} :
              /\ request' = [request EXCEPT ![r].at = at]
              /\ request[r].at \in {"disputed", "disputedMilestone"}
        BY <1>5 DEF ReadDisputed
    <2>2. UNCHANGED <<creditVars, contract, milestone, disputes, listing, rival>>
        BY <1>5 DEF ReadDisputed
    <2> DEFINE p == request[r]
               q == [p EXCEPT !.at = at]
    <2>3. request' = [request EXCEPT ![r] = q]
        BY <2>1 DEF RequestRows
    <2>4. p \in RequestRow /\ Fits(p) /\ p.at \notin {"idle", "milestone"}
        BY <2>1 DEF RequestRows
    <2> HIDE DEF p
    <2>5. /\ q \in RequestRow
          /\ q.at = at /\ q.action = p.action /\ q.contract = p.contract /\ q.number = p.number
        BY <2>1, <2>4 DEF RequestRow
    <2> HIDE DEF q
    <2>6. Fits(q)
        BY <2>1, <2>4, <2>5 DEF Fits
    <2> QED
        BY <2>2, <2>3, <2>5, <2>6, RequestsKeep
<1>6. CASE RequestEnds(r)
    BY <1>6, NoRequestFits, RequestsKeep DEF RequestEnds, Done
<1> QED
    BY <1>1, <1>2, <1>3, <1>4, <1>5, <1>6

\* A transaction opens a dispute ...
LEMMA OpenKeeps ==
    ASSUME RequestRows, NEW r \in Requests, Done(r), NEW c \in Agreements, NEW i \in Numbers(c),
           disputes' = Append(disputes, [contract |-> c, number |-> i, state |-> "open"])
    PROVE  /\ RequestRows'
           /\ \A d \in DOMAIN disputes : d \in DOMAIN disputes' /\ disputes'[d] = disputes[d]
           /\ \E d \in DOMAIN disputes' :
                  disputes'[d] = [contract |-> c, number |-> i, state |-> "open"]
<1> DEFINE new == [contract |-> c, number |-> i, state |-> "open"]
<1>1. new \in DisputeRow /\ new.number \in Numbers(new.contract)
    BY Parts DEF DisputeRow
<1>2. disputes \in Seq(DisputeRow) /\ disputes' = Append(disputes, new)
    BY DEF RequestRows
<1>3. new = [contract |-> c, number |-> i, state |-> "open"]
    OBVIOUS
<1> HIDE DEF new
<1>4. /\ disputes' \in Seq(DisputeRow) /\ Len(disputes) \in Nat
      /\ DOMAIN disputes = 1 .. Len(disputes) /\ DOMAIN disputes' = 1 .. (Len(disputes) + 1)
      /\ \A d \in 1 .. Len(disputes) : disputes'[d] = disputes[d]
      /\ disputes'[Len(disputes) + 1] = new
    BY <1>1, <1>2
<1>5. /\ \A d \in DOMAIN disputes : d \in DOMAIN disputes' /\ disputes'[d] = disputes[d]
      /\ Len(disputes) + 1 \in DOMAIN disputes'
      /\ \A d \in DOMAIN disputes' : d \in DOMAIN disputes \/ disputes'[d] = new
    BY <1>4
<1>6. \A d \in DOMAIN disputes' : disputes'[d].number \in Numbers(disputes'[d].contract)
    BY <1>1, <1>5 DEF RequestRows
<1>7. request' = [request EXCEPT ![r] = NoRequest]
    BY DEF Done
<1>8. request' \in [Requests -> RequestRow]
    BY <1>7, NoRequestFits DEF RequestRows
<1>9. ASSUME NEW s \in Requests
      PROVE  Fits(request[s])'
    <2>1. request'[s] = IF s = r THEN NoRequest ELSE request[s]
        BY <1>7 DEF RequestRows
    <2>2. CASE s = r
        BY <2>1, <2>2, NoRequestFits DEF Fits
    <2>3. CASE s # r
        <3>1. Fits(request[s]) /\ request'[s] = request[s]
            BY <2>1, <2>3 DEF RequestRows
        <3> QED
            BY <1>5, <3>1 DEF Fits
    <2> QED
        BY <2>2, <2>3
<1> QED
    BY <1>3, <1>4, <1>5, <1>6, <1>8, <1>9 DEF RequestRows

\* ... or resolves one.
LEMMA ResolveKeeps ==
    ASSUME RequestRows, NEW r \in Requests, Done(r), NEW d \in DOMAIN disputes,
           disputes' = [disputes EXCEPT ![d].state = "resolved"]
    PROVE  /\ RequestRows'
           /\ DOMAIN disputes' = DOMAIN disputes
           /\ \A e \in DOMAIN disputes : e # d => disputes'[e] = disputes[e]
<1>1. disputes \in Seq(DisputeRow) /\ Len(disputes) \in Nat /\ DOMAIN disputes = 1 .. Len(disputes)
    BY DEF RequestRows
<1>2. /\ DOMAIN disputes' = DOMAIN disputes
      /\ \A e \in DOMAIN disputes : e # d => disputes'[e] = disputes[e]
      /\ disputes'[d] = [disputes[d] EXCEPT !.state = "resolved"]
    BY <1>1
<1>3. \A e \in DOMAIN disputes : disputes[e] \in DisputeRow
    BY <1>1
<1>4. \A e \in DOMAIN disputes : /\ disputes'[e] \in DisputeRow
                                 /\ disputes'[e].contract = disputes[e].contract
                                 /\ disputes'[e].number = disputes[e].number
    BY <1>2, <1>3 DEF DisputeRow
<1>5. disputes' \in Seq(DisputeRow)
    <2>1. disputes' \in [1 .. Len(disputes) -> DisputeRow]
        BY <1>1, <1>2, <1>4
    <2> QED
        BY <1>1, <2>1
<1>6. \A e \in DOMAIN disputes' : disputes'[e].number \in Numbers(disputes'[e].contract)
    BY <1>2, <1>4 DEF RequestRows
<1>7. request' = [request EXCEPT ![r] = NoRequest]
    BY DEF Done
<1>8. request' \in [Requests -> RequestRow]
    BY <1>7, NoRequestFits DEF RequestRows
<1>9. ASSUME NEW s \in Requests
      PROVE  Fits(request[s])'
    <2>1. request'[s] = IF s = r THEN NoRequest ELSE request[s]
        BY <1>7 DEF RequestRows
    <2>2. CASE s = r
        BY <2>1, <2>2, NoRequestFits DEF Fits
    <2>3. CASE s # r
        <3>1. Fits(request[s]) /\ request'[s] = request[s]
            BY <2>1, <2>3 DEF RequestRows
        <3> QED
            BY <1>2, <1>4, <3>1 DEF Fits
    <2> QED
        BY <2>2, <2>3
<1> QED
    BY <1>2, <1>5, <1>6, <1>8, <1>9 DEF RequestRows

-----------------------------------------------------------------------------
(* Each step keeps what contracts tell *)

\* A step that leaves contracts and milestones alone.
LEMMA TellStays ==
    ASSUME AllTell, UNCHANGED <<contract, milestone>>
    PROVE  AllTell'
<1>1. \A c \in Agreements : Tells(contract'[c], c, milestone'[c])
    BY DEF AllTell
<1> QED
    BY <1>1 DEF AllTell, Tells, InOrder, Working, States

\* A step that leaves disputes and the listing alone, too.
LEMMA ToldStays ==
    ASSUME Told, RequestRows', UNCHANGED <<contract, milestone, disputes, listing, rival>>
    PROVE  Told'
<1>1. ContractRows'
    BY DEF Told, ContractRows
<1>2. AllTell'
    BY TellStays DEF Told
<1>3. DisputesOpen'
    BY DEF Told, DisputesOpen
<1>4. OneHolder'
    BY DEF Told, OneHolder, Holds, RefundedUnstarted
<1> QED
    BY <1>1, <1>2, <1>3, <1>4 DEF Told

\* Disputes and requests around a contract action.
LEMMA DoneKeeps ==
    ASSUME Told, NEW r \in Requests, Done(r), UNCHANGED disputes
    PROVE  RequestRows'
BY NoRequestFits, RequestsKeep DEF Told, Done

\* An action that changes only the state of one contract.
LEMMA StateKeeps ==
    ASSUME Told, NEW c \in Agreements, NEW r \in Requests, Done(r),
           NEW to \in ContractState, contract' = [contract EXCEPT ![c] = to],
           UNCHANGED <<milestone, disputes, rival>>, listing' \in {"active", "sold"},
           contract[c] \in {"DRAFT", "FUNDED"}, to \in {"FUNDED", "CANCELED", "REFUNDED"},
           \/ contract[c] = "DRAFT" /\ to = "FUNDED" /\ listing = "active" /\ listing' = "sold"
           \/ contract[c] = "DRAFT" /\ to = "CANCELED" /\ listing' = listing
           \/ contract[c] = "FUNDED" /\ to \in {"CANCELED", "REFUNDED"} /\ listing' = "active"
    PROVE  Told'
<1>1. /\ ContractRows /\ OneHolder /\ DisputesOpen /\ rival \in BOOLEAN
      /\ Tells(contract[c], c, milestone[c]) /\ Row(c, milestone[c])
    BY DEF Told, AllTell, ContractRows, Row
<1>2. \A i \in Numbers(c) : milestone[c][i] = "PENDING"
    BY TouchedHolds DEF Unstarted
<1>3. 1 \in Numbers(c) /\ milestone[c][1] = "PENDING"
    BY <1>2, Parts
<1>4. States(c, milestone[c]) = {"PENDING"}
    BY <1>2, <1>3 DEF States
<1>5. contract'[c] = to /\ \A d \in Agreements \ {c} : contract'[d] = contract[d]
    BY <1>1 DEF ContractRows
<1>6. Tells(to, c, milestone[c])
    BY <1>1, <1>3, <1>4 DEF Tells, Unstarted
<1>7. Only(c)
    <2>1. contract' \in [Agreements -> ContractState]
        BY <1>1 DEF ContractRows
    <2>2. milestone' = [d \in Agreements |-> milestone'[d]]
        BY <1>1 DEF ContractRows
    <2>3. Tells(contract'[c], c, milestone'[c]) /\ Row(c, milestone'[c])
        BY <1>1, <1>5, <1>6
    <2> QED
        BY <1>5, <2>1, <2>2, <2>3 DEF Only
<1>8. ContractRows' /\ AllTell' /\ \A d \in Agreements \ {c} : Holds(d)' <=> Holds(d)
    BY <1>1, <1>7, OnlyKeeps
<1>9. RequestRows'
    BY DoneKeeps
<1>10. DisputesOpen'
    BY <1>1 DEF DisputesOpen
<1>11. /\ Holds(c) <=> contract[c] = "FUNDED"
       /\ Holds(c)' <=> to = "FUNDED"
    BY <1>3, <1>5 DEF Holds, Sells, RefundedUnstarted, ContractState
<1>12. OneHolder'
    BY <1>1, <1>8, <1>11, HolderKeeps
<1> QED
    BY <1>8, <1>9, <1>10, <1>12 DEF Told

\* A contract under way that stays so, or ends, with its milestones.
LEMMA MovesKeep ==
    ASSUME Told, NEW c \in Agreements,
           NEW m, milestone' = [milestone EXCEPT ![c] = m], Row(c, m),
           NEW to \in ContractState, contract' = [contract EXCEPT ![c] = to],
           to \notin Unstarted, Tells(to, c, m), m[1] # "PENDING", Holds(c),
           UNCHANGED <<listing, rival>>
    PROVE  ContractRows' /\ AllTell' /\ OneHolder' /\ Holds(c)'
<1>1. /\ ContractRows /\ OneHolder /\ rival \in BOOLEAN /\ listing \in {"active", "sold"}
    BY DEF Told, ContractRows
<1>2. /\ contract'[c] = to /\ \A d \in Agreements \ {c} : contract'[d] = contract[d]
      /\ milestone'[c] = m /\ \A d \in Agreements \ {c} : milestone'[d] = milestone[d]
      /\ contract' \in [Agreements -> ContractState]
      /\ milestone' = [d \in Agreements |-> milestone'[d]]
    BY <1>1 DEF ContractRows
<1>3. Only(c)
    BY <1>2 DEF Only
<1>4. ContractRows' /\ AllTell' /\ \A d \in Agreements \ {c} : Holds(d)' <=> Holds(d)
    BY <1>1, <1>3, OnlyKeeps
<1>5. Holds(c)'
    BY <1>2 DEF Holds, Sells, RefundedUnstarted, Unstarted
<1>6. OneHolder'
    BY <1>1, <1>4, <1>5, HolderKeeps
<1> QED
    BY <1>4, <1>5, <1>6

\* PATCH /api/contracts/[id].
LEMMA ContractActionsTell ==
    ASSUME Told, NEW r \in Requests, NEW c \in Agreements,
           Fund(r, c) \/ Start(r, c) \/ Cancel(r, c) \/ Expire(r, c)
    PROVE  Told'
<1>0. "FUNDED" \in ContractState /\ "CANCELED" \in ContractState /\ "REFUNDED" \in ContractState
      /\ "IN_PROGRESS" \in ContractState /\ ContractRows /\ listing \in {"active", "sold"}
    BY DEF ContractState, Told, ContractRows
<1>1. CASE Fund(r, c)
    <2>1. /\ contract[c] = "DRAFT" /\ contract' = [contract EXCEPT ![c] = "FUNDED"] /\ Done(r)
          /\ listing = "active" /\ listing' = "sold" /\ UNCHANGED <<milestone, disputes, rival>>
        BY <1>1 DEF Fund, Write
    <2> QED
        BY <1>0, <2>1, StateKeeps
<1>2. CASE Cancel(r, c)
    <2>1. /\ contract[c] = request[r].seen /\ contract' = [contract EXCEPT ![c] = "CANCELED"] /\ Done(r)
          /\ \/ request[r].seen = "DRAFT" /\ listing' = listing
             \/ request[r].seen = "FUNDED" /\ listing' = "active"
          /\ UNCHANGED <<milestone, disputes, rival>>
        BY <1>2 DEF Cancel, CancelsRead, Write, RefundAll
    <2> QED
        BY <1>0, <2>1, StateKeeps
<1>3. CASE Expire(r, c)
    <2>1. /\ contract[c] = "FUNDED" /\ contract' = [contract EXCEPT ![c] = "REFUNDED"] /\ Done(r)
          /\ listing' = "active" /\ UNCHANGED <<milestone, disputes, rival>>
        BY <1>3 DEF Expire, Write, RefundAll
    <2> QED
        BY <1>0, <2>1, StateKeeps
<1>4. CASE Start(r, c)
    <2> DEFINE m == milestone[c]
    <2>1. /\ contract[c] = "FUNDED" /\ contract' = [contract EXCEPT ![c] = "IN_PROGRESS"] /\ Done(r)
          /\ milestone' = [milestone EXCEPT ![c][1] = IF @ \in Startable THEN "ACTIVE" ELSE @]
          /\ UNCHANGED <<disputes, listing, rival>>
        BY <1>4 DEF Start, Write
    <2>2. /\ \A i \in Numbers(c) : m[i] = "PENDING"
          /\ Row(c, m) /\ 1 \in Numbers(c)
        BY <1>0, <2>1, TouchedHolds, Parts DEF Unstarted, ContractRows, Row
    <2>3. milestone' = [milestone EXCEPT ![c] = [m EXCEPT ![1] = "ACTIVE"]]
        <3>1. m[1] \in Startable
            BY <2>2 DEF Startable
        <3> DEFINE first == IF m[1] \in Startable THEN "ACTIVE" ELSE m[1]
        <3>2. milestone' = [milestone EXCEPT ![c] = [m EXCEPT ![1] = first]]
            BY <2>1, Zenon
        <3>3. first = "ACTIVE"
            BY <3>1
        <3> HIDE DEF first
        <3> QED
            BY <3>2, <3>3, Zenon
    <2>4. PICK n : n = [m EXCEPT ![1] = "ACTIVE"]
        OBVIOUS
    <2>5. Row(c, n) /\ Tells("IN_PROGRESS", c, n) /\ n[1] = "ACTIVE"
        BY <2>2, <2>4, StartKeeps
    <2>6. Holds(c)
        BY <2>1 DEF Holds, Sells, RefundedUnstarted, ContractState
    <2>7. milestone' = [milestone EXCEPT ![c] = n]
        BY <2>3, <2>4
    <2>8. ContractRows' /\ AllTell' /\ OneHolder'
        <3>1. "IN_PROGRESS" \notin Unstarted /\ n[1] # "PENDING" /\ UNCHANGED <<listing, rival>>
            BY <2>1, <2>5 DEF Unstarted
        <3> QED
            BY <1>0, <2>1, <2>5, <2>6, <2>7, <3>1, MovesKeep
    <2>9. RequestRows'
        BY <2>1, DoneKeeps
    <2>10. DisputesOpen'
        <3>1. \A i \in Numbers(c) : n[i] # "DISPUTED"
            BY <2>2, <2>4 DEF Row
        <3>2. \A d \in Agreements : milestone'[d] = IF d = c THEN n ELSE milestone[d]
            BY <1>0, <2>7 DEF ContractRows
        <3>3. DisputesOpen
            BY DEF Told
        <3> QED
            BY <2>1, <3>1, <3>2, <3>3 DEF DisputesOpen
    <2> QED
        BY <2>8, <2>9, <2>10 DEF Told
<1> QED
    BY <1>1, <1>2, <1>3, <1>4

\* What a milestone action writes: the milestone is under way, and only a dispute
\* makes it disputed.
LEMMA MovesUnderWay ==
    ASSUME NEW action, NEW seen, NEW to, <<action, seen, to>> \in Moves
    PROVE  /\ action \in MilestoneActions
           /\ seen \notin Over \cup {"PENDING"} /\ to \in MilestoneState \ {"PENDING"}
           /\ to = "DISPUTED" => action = "open_dispute"
           /\ action = "open_dispute" => to = "DISPUTED"
           /\ to \in Over <=> action = "mark_paid"
BY DEF Moves, MilestoneActions, MilestoneState, Over

\* No milestone but this one may become disputed.
NoOther(c, i) ==
    \A d \in Agreements : \A j \in Numbers(d) :
        <<d, j>> # <<c, i>> /\ milestone'[d][j] = "DISPUTED" => milestone[d][j] = "DISPUTED"

\* The milestone under way, moved, and the contract's state derived again.
LEMMA MilestoneMoves ==
    ASSUME Told, NEW c \in Agreements, NEW i \in Numbers(c),
           milestone[c][i] \notin Over \cup {"PENDING"}, NEW to \in MilestoneState \ {"PENDING"},
           NEW from, "PENDING" \in from,
           milestone' = [milestone EXCEPT ![c] = Moved(c, i, to, from)],
           contract' = [contract EXCEPT ![c] = Derived(States(c, Moved(c, i, to, from)))],
           UNCHANGED <<listing, rival>>
    PROVE  /\ ContractRows' /\ AllTell' /\ OneHolder' /\ Holds(c) /\ Holds(c)'
           /\ milestone'[c][i] = to
           /\ NoOther(c, i)
<1>1. /\ ContractRows /\ Row(c, milestone[c]) /\ InOrder(c, milestone[c])
    BY DEF Told, AllTell, Tells, ContractRows, Row
<1>2. PICK m : m = Moved(c, i, to, from)
    OBVIOUS
<1>3. /\ Row(c, m) /\ InOrder(c, m) /\ Working(c, m)
      /\ milestone[c][1] # "PENDING" /\ m[1] # "PENDING" /\ m[i] = to
      /\ \A j \in Numbers(c) \ {i} : m[j] = milestone[c][j] \/ m[j] = "ACTIVE"
    BY <1>1, <1>2, MoveKeeps
<1>4. PICK s : s = Derived(States(c, m))
    OBVIOUS
<1>5. Tells(s, c, m) /\ s \in ContractState \ Unstarted
    BY <1>3, <1>4, DerivedTells
<1>6. contract' = [contract EXCEPT ![c] = s] /\ milestone' = [milestone EXCEPT ![c] = m]
    BY <1>2, <1>4
<1>7. Holds(c)
    BY <1>3, TouchedHolds
<1>8. ContractRows' /\ AllTell' /\ OneHolder' /\ Holds(c)'
    BY <1>3, <1>5, <1>6, <1>7, MovesKeep
<1>9. \A d \in Agreements : milestone'[d] = IF d = c THEN m ELSE milestone[d]
    BY <1>1, <1>6 DEF ContractRows
<1>10. NoOther(c, i)
    BY <1>3, <1>9 DEF NoOther
<1> QED
    BY <1>3, <1>7, <1>8, <1>9, <1>10

\* PATCH /api/contracts/[id]/milestones/[milestoneId].
LEMMA WriteMilestoneTells ==
    ASSUME Told, NEW r \in Requests, NEW to \in MilestoneState, WriteMilestone(r, to)
    PROVE  Told'
<1> DEFINE q == request[r]
           c == q.contract
           i == q.number
<1>1. /\ q.at = "write" /\ <<q.action, q.seen, to>> \in Moves /\ milestone[c][i] = q.seen
      /\ milestone' = [milestone EXCEPT ![c] = Moved(c, i, to, Startable)]
      /\ contract' = [contract EXCEPT ![c] = Derived({Moved(c, i, to, Startable)[j] : j \in Numbers(c)})]
      /\ IF q.action = "open_dispute"
         THEN disputes' = Append(disputes, [contract |-> c, number |-> i, state |-> "open"])
         ELSE UNCHANGED disputes
      /\ Done(r) /\ UNCHANGED <<listing, rival>>
    BY DEF WriteMilestone, UnchangedSince
<1>2. /\ q.action \in MilestoneActions
      /\ q.seen \notin Over \cup {"PENDING"} /\ to \in MilestoneState \ {"PENDING"}
      /\ to = "DISPUTED" => q.action = "open_dispute"
    BY <1>1, MovesUnderWay
<1>3. c \in Agreements /\ i \in Numbers(c)
    BY <1>1, <1>2 DEF Told, RequestRows, Fits
<1> HIDE DEF q, c, i
<1>4. {Moved(c, i, to, Startable)[j] : j \in Numbers(c)} = States(c, Moved(c, i, to, Startable))
    BY DEF States
<1>5. contract' = [contract EXCEPT ![c] = Derived(States(c, Moved(c, i, to, Startable)))]
    BY <1>1, <1>4, Zenon
<1>6. /\ ContractRows' /\ AllTell' /\ OneHolder'
      /\ milestone'[c][i] = to
      /\ NoOther(c, i)
    <2>1. milestone[c][i] \notin Over \cup {"PENDING"} /\ to \in MilestoneState \ {"PENDING"}
        BY <1>1, <1>2
    <2>2. milestone' = [milestone EXCEPT ![c] = Moved(c, i, to, Startable)] /\ UNCHANGED <<listing, rival>>
        BY <1>1
    <2> QED
        BY <1>3, <1>5, <2>1, <2>2, StartableStarts, MilestoneMoves
<1>7. RequestRows /\ DisputesOpen
    BY DEF Told
<1>8. CASE q.action = "open_dispute"
    <2>1. /\ RequestRows'
          /\ \A d \in DOMAIN disputes : d \in DOMAIN disputes' /\ disputes'[d] = disputes[d]
          /\ \E d \in DOMAIN disputes' :
                  disputes'[d] = [contract |-> c, number |-> i, state |-> "open"]
        BY <1>1, <1>3, <1>7, <1>8, OpenKeeps
    <2>2. DisputesOpen'
        <3> SUFFICES ASSUME NEW d \in Agreements, NEW j \in Numbers(d), milestone'[d][j] = "DISPUTED"
                     PROVE  \E e \in DOMAIN disputes' :
                                disputes'[e] = [contract |-> d, number |-> j, state |-> "open"]
            BY DEF DisputesOpen
        <3>1. CASE d = c /\ j = i
            BY <2>1, <3>1
        <3>2. CASE ~ (d = c /\ j = i)
            <4>1. milestone[d][j] = "DISPUTED"
                BY <1>6, <3>2 DEF NoOther
            <4>2. PICK e \in DOMAIN disputes : disputes[e] = [contract |-> d, number |-> j, state |-> "open"]
                BY <1>7, <4>1 DEF DisputesOpen
            <4> QED
                BY <2>1, <4>2
        <3> QED
            BY <3>1, <3>2
    <2> QED
        BY <1>6, <2>1, <2>2 DEF Told
<1>9. CASE q.action # "open_dispute"
    <2>1. UNCHANGED disputes /\ to # "DISPUTED"
        BY <1>1, <1>2, <1>9
    <2>2. RequestRows'
        BY <1>1, <2>1, DoneKeeps
    <2>3. DisputesOpen'
        <3> SUFFICES ASSUME NEW d \in Agreements, NEW j \in Numbers(d), milestone'[d][j] = "DISPUTED"
                     PROVE  \E e \in DOMAIN disputes' :
                                disputes'[e] = [contract |-> d, number |-> j, state |-> "open"]
            BY DEF DisputesOpen
        <3>1. milestone[d][j] = "DISPUTED"
            BY <1>6, <2>1 DEF NoOther
        <3> QED
            BY <1>7, <2>1, <3>1 DEF DisputesOpen
    <2> QED
        BY <1>6, <2>2, <2>3 DEF Told
<1> QED
    BY <1>8, <1>9

\* A contract with a disputed milestone is disputed.
LEMMA DisputedTells ==
    ASSUME Told, NEW c \in Agreements, NEW i \in Numbers(c), milestone[c][i] = "DISPUTED"
    PROVE  contract[c] = "DISPUTED"
<1>1. Tells(contract[c], c, milestone[c]) /\ Row(c, milestone[c])
    BY DEF Told, AllTell, ContractRows, Row
<1>2. InOrder(c, milestone[c]) /\ Working(c, milestone[c])
    BY <1>1 DEF Tells
<1>3. milestone[c][1] # "PENDING"
    BY <1>1, <1>2, UnderWay DEF Over
<1>4. States(c, milestone[c]) # {"PENDING"} /\ contract[c] \notin Unstarted
    BY <1>1, <1>2, <1>3, FirstTells DEF Tells
<1>5. contract[c] = Derived(States(c, milestone[c]))
    BY <1>1, <1>4 DEF Tells
<1>6. "DISPUTED" \in States(c, milestone[c])
    BY DEF States
<1> QED
    BY <1>1, <1>2, <1>3, <1>5, <1>6, DerivedTells

\* PATCH /api/admin/contracts/disputes/[id]/resolve.
LEMMA RuleTells ==
    ASSUME Told, NEW r \in Requests, NEW to \in {"REFUNDED", "ACTIVE", "PAID"}, NEW percent,
           Rule(r, to, percent)
    PROVE  Told'
<1> DEFINE d == request[r].number
           c == request[r].contract
           i == disputes[d].number
<1>1. /\ request[r].at = "write" /\ request[r].action = "rule"
      /\ milestone[c][i] = "DISPUTED"
      /\ disputes' = [disputes EXCEPT ![d].state = "resolved"]
      /\ milestone' = [milestone EXCEPT ![c] = Moved(c, i, to, {"PENDING"})]
      /\ contract' = [contract EXCEPT ![c] =
             IF @ = "DISPUTED" THEN Derived({Moved(c, i, to, {"PENDING"})[j] : j \in Numbers(c)}) ELSE @]
      /\ Done(r) /\ UNCHANGED <<listing, rival>>
    BY DEF Rule
<1>2. /\ c \in Agreements /\ d \in DOMAIN disputes /\ disputes[d].contract = c
      /\ i \in Numbers(c)
    BY <1>1 DEF Told, RequestRows, Fits
<1>3. RequestRows /\ DisputesOpen
    BY DEF Told
<1> HIDE DEF c, d
<1>4. /\ RequestRows'
      /\ DOMAIN disputes' = DOMAIN disputes
      /\ \A e \in DOMAIN disputes : e # d => disputes'[e] = disputes[e]
    BY <1>1, <1>2, <1>3, ResolveKeeps
<1> HIDE DEF i
<1>5. contract[c] = "DISPUTED"
    BY <1>1, <1>2, DisputedTells
<1>6. {Moved(c, i, to, {"PENDING"})[j] : j \in Numbers(c)} = States(c, Moved(c, i, to, {"PENDING"}))
    BY DEF States
<1>7. contract' = [contract EXCEPT ![c] = Derived(States(c, Moved(c, i, to, {"PENDING"})))]
    <2>1. contract' = [contract EXCEPT ![c] = Derived({Moved(c, i, to, {"PENDING"})[j] : j \in Numbers(c)})]
        <3> DEFINE s == Derived({Moved(c, i, to, {"PENDING"})[j] : j \in Numbers(c)})
        <3>1. contract' = [contract EXCEPT ![c] = IF @ = "DISPUTED" THEN s ELSE @]
            BY <1>1
        <3> HIDE DEF s
        <3>2. contract' = [contract EXCEPT ![c] = s]
            BY <1>5, <3>1
        <3> QED
            BY <3>2 DEF s
    <2> QED
        BY <1>6, <2>1, Zenon
<1>8. to \in MilestoneState \ {"PENDING"} /\ to # "DISPUTED" /\ "DISPUTED" \notin Over \cup {"PENDING"}
    BY DEF MilestoneState, Over
<1>9. /\ ContractRows' /\ AllTell' /\ OneHolder'
      /\ milestone'[c][i] = to
      /\ NoOther(c, i)
    <2>1. milestone[c][i] \notin Over \cup {"PENDING"}
        BY <1>1, <1>8
    <2>2. milestone' = [milestone EXCEPT ![c] = Moved(c, i, to, {"PENDING"})] /\ UNCHANGED <<listing, rival>>
        BY <1>1
    <2>3. c \in Agreements /\ i \in Numbers(c) /\ to \in MilestoneState \ {"PENDING"}
        BY <1>2, <1>8
    <2> QED
        BY <1>7, <2>1, <2>2, <2>3, MilestoneMoves
<1>10. DisputesOpen'
    <2> SUFFICES ASSUME NEW e \in Agreements, NEW j \in Numbers(e), milestone'[e][j] = "DISPUTED"
                 PROVE  \E f \in DOMAIN disputes' :
                            disputes'[f] = [contract |-> e, number |-> j, state |-> "open"]
        BY DEF DisputesOpen
    <2>1. ~ (e = c /\ j = i)
        BY <1>8, <1>9
    <2>2. milestone[e][j] = "DISPUTED"
        BY <1>9, <2>1 DEF NoOther
    <2>3. PICK f \in DOMAIN disputes : disputes[f] = [contract |-> e, number |-> j, state |-> "open"]
        BY <1>3, <2>2 DEF DisputesOpen
    <2>4. f # d
        BY <1>2, <2>1, <2>3 DEF i
    <2> QED
        BY <1>4, <2>3, <2>4
<1> QED
    BY <1>4, <1>9, <1>10 DEF Told

\* POST /api/contracts/maintenance: a contract expires only unstarted, every other
\* keeps telling its milestones, some of them approved now.
Maintained(c, expired) ==
    /\ Row(c, milestone'[c]) /\ Tells(contract'[c], c, milestone'[c])
    /\ contract'[c] \in ContractState
    /\ \A i \in Numbers(c) : /\ milestone'[c][i] = "DISPUTED" => milestone[c][i] = "DISPUTED"
                             /\ milestone'[c][i] \in Over <=> milestone[c][i] \in Over
    /\ c \in expired => Holds(c) /\ ~ Holds(c)' /\ \A i \in Numbers(c) : milestone[c][i] = "PENDING"
    /\ c \notin expired => (Holds(c)' <=> Holds(c))

\* What maintenance did to one contract: its milestones again tell its state, nothing
\* reopened, and a listing is given back only with an expired one.
LEMMA MaintainOne ==
    ASSUME Told, NEW expired \in SUBSET Agreements, NEW overdue \in SUBSET InReview,
           Maintain(expired, overdue), NEW c \in Agreements
    PROVE  Maintained(c, expired)
<1> DEFINE State(d) ==
               IF d \in expired THEN "REFUNDED"
               ELSE IF contract[d] \in {"IN_PROGRESS", "AWAITING_REVIEW", "DISPUTED"}
               THEN Derived({Approved(overdue)[d][i] : i \in Numbers(d)})
               ELSE contract[d]
<1>1. /\ \A d \in expired : contract[d] = "FUNDED"
      /\ milestone' = Approved(overdue)
      /\ contract' = [d \in Agreements |-> State(d)]
    BY DEF Maintain
<1>2. ContractRows /\ AllTell
    BY DEF Told
<1> DEFINE m == milestone[c]
           n == milestone'[c]
<1>3. /\ Row(c, m) /\ Tells(contract[c], c, m) /\ InOrder(c, m) /\ Working(c, m)
      /\ contract[c] \in ContractState
    BY <1>2 DEF ContractRows, AllTell, Tells, Row
<1>4. n = [i \in Numbers(c) |-> IF <<c, i>> \in overdue THEN "APPROVED" ELSE m[i]]
    BY <1>1 DEF Approved
<1>5. ASSUME NEW i \in Numbers(c)
      PROVE  n[i] = m[i] \/ (m[i] = "AWAITING_BUYER_REVIEW" /\ n[i] = "APPROVED")
    <2>1. <<c, i>> \in overdue => m[i] = "AWAITING_BUYER_REVIEW"
        BY DEF InReview
    <2> QED
        BY <1>4, <2>1
<1>6. Row(c, n)
    BY <1>3, <1>4 DEF Row, MilestoneState
<1>7. contract'[c] = IF c \in expired THEN "REFUNDED"
                     ELSE IF contract[c] \in {"IN_PROGRESS", "AWAITING_REVIEW", "DISPUTED"}
                     THEN Derived(States(c, n)) ELSE contract[c]
    <2>1. {Approved(overdue)[c][i] : i \in Numbers(c)} = States(c, n)
        BY <1>1 DEF States
    <2>2. contract'[c] = State(c)
        BY <1>1
    <2>3. Derived({Approved(overdue)[c][i] : i \in Numbers(c)}) = Derived(States(c, n))
        BY <2>1, Zenon
    <2> QED
        BY <2>2, <2>3
<1> HIDE DEF n
<1>8. /\ InOrder(c, n) /\ Working(c, n)
      /\ m[1] = "PENDING" => n = m
      /\ (m[1] = "PENDING") <=> (n[1] = "PENDING")
      /\ States(c, m) \subseteq Over => n = m
    <2> HIDE DEF m
    <2> QED
        BY <1>3, <1>5, <1>6, ApproveKeeps
<1>9. /\ (States(c, m) = {"PENDING"}) <=> (m[1] = "PENDING")
      /\ contract[c] \in Unstarted => m[1] = "PENDING"
      /\ contract[c] \notin Unstarted /\ contract[c] # "REFUNDED" => m[1] # "PENDING"
    BY <1>3, FirstTells DEF Tells
<1>10. \A i \in Numbers(c) : /\ n[i] = "DISPUTED" => m[i] = "DISPUTED"
                             /\ n[i] \in Over <=> m[i] \in Over
    BY <1>5 DEF Over
<1>11. CASE c \in expired
    <2>1. contract[c] = "FUNDED" /\ contract'[c] = "REFUNDED" /\ m[1] = "PENDING" /\ n = m
        BY <1>1, <1>7, <1>8, <1>9, <1>11 DEF Unstarted
    <2>2. Tells("REFUNDED", c, m)
        BY <1>3, <1>9, <2>1 DEF Tells, Unstarted
    <2>3. Holds(c) /\ ~ Holds(c)'
        BY <2>1 DEF Holds, Sells, RefundedUnstarted, ContractState, n
    <2> QED
        BY <1>3, <1>6, <1>9, <1>10, <1>11, <2>1, <2>2, <2>3, FirstTells DEF n, ContractState, Maintained
<1>12. CASE c \notin expired /\ contract[c] \in {"IN_PROGRESS", "AWAITING_REVIEW", "DISPUTED"}
    <2>1. m[1] # "PENDING" /\ n[1] # "PENDING"
        BY <1>8, <1>9, <1>12 DEF Unstarted
    <2>2. PICK s : s = Derived(States(c, n))
        OBVIOUS
    <2>3. Tells(s, c, n) /\ s \in ContractState \ Unstarted
        BY <1>6, <1>8, <2>1, <2>2, DerivedTells
    <2>4. contract'[c] = s
        BY <1>7, <1>12, <2>2
    <2>5. Holds(c)' /\ Holds(c)
        BY <1>12, <2>1, <2>3, <2>4 DEF Holds, Sells, RefundedUnstarted, ContractState, Unstarted, n
    <2> QED
        BY <1>6, <1>10, <1>12, <2>3, <2>4, <2>5 DEF n, Maintained
<1>13. CASE c \notin expired /\ contract[c] \notin {"IN_PROGRESS", "AWAITING_REVIEW", "DISPUTED"}
    <2>1. contract'[c] = contract[c]
        BY <1>7, <1>13
    <2>2. n = m
        <3>1. CASE m[1] = "PENDING"
            BY <1>8, <3>1
        <3>2. CASE m[1] # "PENDING"
            <4>1. contract[c] = Derived(States(c, m)) /\ contract[c] \notin Unstarted
                BY <1>3, <1>9, <3>2 DEF Tells
            <4>2. contract[c] \in {"COMPLETED", "REFUNDED"}
                BY <1>3, <1>13, <4>1 DEF ContractState, Unstarted
            <4>3. States(c, m) \subseteq Over
                BY <1>3, <3>2, <4>1, <4>2, DerivedTells
            <4> QED
                BY <1>8, <4>3
        <3> QED
            BY <3>1, <3>2
    <2>3. Holds(c)' <=> Holds(c)
        BY <2>1, <2>2 DEF Holds, RefundedUnstarted, n
    <2> QED
        BY <1>3, <1>6, <1>10, <1>13, <2>1, <2>2, <2>3 DEF n, Maintained
<1> QED
    BY <1>11, <1>12, <1>13

\* The whole of maintenance; only the holder of the listing can expire.
LEMMA MaintainTells ==
    ASSUME Told, NEW expired \in SUBSET Agreements, NEW overdue \in SUBSET InReview,
           Maintain(expired, overdue)
    PROVE  Told'
<1>1. /\ listing' = IF expired # {} THEN "active" ELSE listing
      /\ milestone' = Approved(overdue)
      /\ contract' = [c \in Agreements |-> contract'[c]]
      /\ UNCHANGED <<disputes, rival, request>>
    BY DEF Maintain
<1>2. /\ ContractRows /\ RequestRows /\ AllTell /\ DisputesOpen /\ OneHolder
    BY DEF Told
<1>3. \A c \in Agreements : Maintained(c, expired)
    BY MaintainOne
<1>4. ContractRows'
    <2>1. contract' \in [Agreements -> ContractState]
        BY <1>1, <1>3 DEF Maintained
    <2>2. milestone' = [c \in Agreements |-> milestone'[c]]
        BY <1>1 DEF Approved
    <2>3. \A c \in Agreements : milestone'[c] \in [Numbers(c) -> MilestoneState]
        BY <1>3 DEF Maintained, Row
    <2>4. listing' \in {"active", "sold"} /\ rival' \in BOOLEAN
        BY <1>1, <1>2 DEF ContractRows
    <2> QED
        BY <2>1, <2>2, <2>3, <2>4 DEF ContractRows
<1>5. RequestRows'
    BY <1>1, <1>2 DEF RequestRows, Fits
<1>6. AllTell'
    <2>1. \A c \in Agreements : Tells(contract'[c], c, milestone'[c])
        BY <1>3 DEF Maintained
    <2> QED
        BY <2>1 DEF AllTell, Tells, InOrder, Working, States
<1>7. DisputesOpen'
    BY <1>1, <1>2, <1>3 DEF DisputesOpen, Maintained
<1>8. OneHolder'
    <2>1. CASE expired = {}
        <3>1. \A c \in Agreements : Holds(c)' <=> Holds(c)
            BY <1>3, <2>1 DEF Maintained
        <3> QED
            BY <1>1, <1>2, <2>1, <3>1 DEF OneHolder
    <2>2. CASE expired # {}
        <3>1. PICK c \in expired : TRUE
            BY <2>2
        <3>2. \A d \in expired : d = c
            BY <1>2, <1>3, <3>1 DEF OneHolder, Maintained
        <3>3. /\ c \in Agreements /\ Holds(c) /\ ~ Holds(c)'
              /\ \A d \in Agreements \ {c} : Holds(d)' <=> Holds(d)
            BY <1>3, <3>1, <3>2 DEF Maintained
        <3> QED
            BY <1>1, <1>2, <2>2, <3>3, HolderKeeps
    <2> QED
        BY <2>1, <2>2
<1> QED
    BY <1>4, <1>5, <1>6, <1>7, <1>8 DEF Told

-----------------------------------------------------------------------------
(* What contracts owe *)

\* What the milestones that are not over come to.
Unsettled(c, m) == SumFunctionOnSet(Amounts[c], {i \in Numbers(c) : m[i] \notin Over})

OwedIsHeld == \A c \in Agreements : Held(c) = Owed(c)

\* A contract owes its unsettled milestones while it has the listing.
LEMMA OwedIs ==
    ASSUME ContractRows, ContractRows', NEW c \in Agreements
    PROVE  /\ Owed(c) = IF Holds(c) THEN Unsettled(c, milestone[c]) ELSE 0
           /\ Owed(c)' = IF Holds(c)' THEN Unsettled(c, milestone'[c]) ELSE 0
<1>1. Holds(c) <=> ~ (contract[c] \in {"DRAFT", "CANCELED"} \/ RefundedUnstarted(c))
    BY DEF ContractRows, Holds, Sells
<1>2. Holds(c)' <=> ~ (contract'[c] \in {"DRAFT", "CANCELED"} \/ RefundedUnstarted(c)')
    BY DEF ContractRows, Holds, Sells
<1> QED
    BY <1>1, <1>2 DEF Owed, Unsettled

\* Before any milestone is over, it is the whole contract.
LEMMA AllUnsettled ==
    ASSUME NEW c \in Agreements, NEW m, \A i \in Numbers(c) : m[i] \notin Over
    PROVE  Unsettled(c, m) = Total(c)
<1>1. {i \in Numbers(c) : m[i] \notin Over} = Numbers(c)
    OBVIOUS
<1>2. SumFunctionOnSet(Amounts[c], {i \in Numbers(c) : m[i] \notin Over})
        = SumFunctionOnSet(Amounts[c], Numbers(c))
    BY <1>1, Zenon
<1> QED
    BY <1>2, TotalIsSum DEF Unsettled

\* If the same milestones are over, the same amount is unsettled.
LEMMA SameUnsettled ==
    ASSUME NEW c \in Agreements, NEW m, NEW n,
           \A i \in Numbers(c) : n[i] \in Over <=> m[i] \in Over
    PROVE  Unsettled(c, n) = Unsettled(c, m)
<1>1. {i \in Numbers(c) : n[i] \notin Over} = {i \in Numbers(c) : m[i] \notin Over}
    OBVIOUS
<1> QED
    BY <1>1, Zenon DEF Unsettled

\* A milestone that ends takes exactly its amount off.
LEMMA OneSettled ==
    ASSUME NEW c \in Agreements, NEW m, NEW n, NEW i \in Numbers(c), m[i] \notin Over, n[i] \in Over,
           \A j \in Numbers(c) \ {i} : n[j] \in Over <=> m[j] \in Over
    PROVE  Unsettled(c, n) = Unsettled(c, m) - Amounts[c][i]
<1> DEFINE S == {j \in Numbers(c) : m[j] \notin Over}
           T == {j \in Numbers(c) : n[j] \notin Over}
<1>1. IsFiniteSet(S) /\ (\A j \in S : Amounts[c][j] \in Int) /\ i \in S /\ Amounts[c][i] \in Int
    BY Parts, FS_Subset
<1>2. T = S \ {i} /\ IsFiniteSet(S \ {i}) /\ \A j \in S \ {i} : Amounts[c][j] \in Int
    BY <1>1, FS_Subset
<1>3. Unsettled(c, m) = SumFunctionOnSet(Amounts[c], S) /\ Unsettled(c, n) = SumFunctionOnSet(Amounts[c], T)
    BY DEF Unsettled
<1> HIDE DEF S, T
<1>4. SumFunctionOnSet(Amounts[c], S) = Amounts[c][i] + SumFunctionOnSet(Amounts[c], S \ {i})
    BY <1>1, SumTake
<1>5. SumFunctionOnSet(Amounts[c], T) = SumFunctionOnSet(Amounts[c], S \ {i})
    BY <1>2, Zenon
<1>6. SumFunctionOnSet(Amounts[c], S \ {i}) \in Int
    BY <1>2, SumIsInt
<1> QED
    BY <1>1, <1>3, <1>4, <1>5, <1>6

\* A step that takes for one purchase from escrow, or puts there, what it changes
\* in what is owed for it.
MoneyMoves(reference, held) ==
    /\ Booked(reference, 0, held) /\ held \in Int
    /\ reference \notin Sales \/ held = 0
    /\ \A c \in Agreements :
           Owed(c)' = IF c = reference THEN Owed(c) + held ELSE Owed(c)

\* If a transaction changes what a contract owes by what it books for the contract, the
\* escrow goes on holding what is owed.
LEMMA MoneyKeeps ==
    ASSUME Deposited, OwedIsHeld, NEW reference, NEW held, MoneyMoves(reference, held),
           UNCHANGED <<deposit, receipts, sale, call>>
    PROVE  Deposited' /\ OwedIsHeld'
<1>1. CreditRows /\ Claims /\ InBalance /\ Backed /\ SalesHeld
    BY DEF Deposited
<1>2. /\ InBalance'
      /\ Available(entries)' + Escrow(entries)' = Available(entries) + Escrow(entries) + 0
      /\ \A other : Held(other)' = IF other = reference THEN Held(other) + held ELSE Held(other)
    BY DEF MoneyMoves, Booked, InBalance
<1>3. Available(entries) \in Int /\ Escrow(entries) \in Int /\ \A other : Held(other) \in Int
    BY <1>1, HeldIsInt DEF InBalance
<1>4. CreditRows' /\ Claims' /\ Confirmed' = Confirmed
    BY <1>1 DEF CreditRows, Claims, Confirmed
<1>5. Backed'
    <2>1. Available(entries)' + Escrow(entries)' = Available(entries) + Escrow(entries)
        BY <1>2, <1>3
    <2> QED
        BY <1>1, <1>4, <2>1 DEF Backed
<1>6. SalesHeld'
    <2>1. \A t \in Sales : Held(t)' = Held(t)
        BY <1>2, <1>3 DEF MoneyMoves
    <2> QED
        BY <1>1, <2>1 DEF SalesHeld
<1>7. OwedIsHeld'
    BY <1>2 DEF OwedIsHeld, MoneyMoves
<1> QED
    BY <1>2, <1>4, <1>5, <1>6, <1>7 DEF Deposited

\* Nothing is posted and nothing owed changes.
LEMMA NoMoneyMoves ==
    ASSUME InBalance, ContractRows, ContractRows', UNCHANGED <<account, entries>>,
           \A c \in Agreements : Holds(c)' <=> Holds(c),
           \A c \in Agreements : \A i \in Numbers(c) : milestone'[c][i] \in Over <=> milestone[c][i] \in Over
    PROVE  \E reference, held : MoneyMoves(reference, held)
<1>1. Booked(Null, 0, 0)
    BY NothingBooked
<1>2. ASSUME NEW c \in Agreements
      PROVE  Owed(c)' = Owed(c) /\ Owed(c) \in Int
    <2>1. Unsettled(c, milestone'[c]) = Unsettled(c, milestone[c])
        BY SameUnsettled
    <2>2. Unsettled(c, milestone[c]) \in Int
        <3>1. /\ IsFiniteSet({i \in Numbers(c) : milestone[c][i] \notin Over})
              /\ \A i \in {i \in Numbers(c) : milestone[c][i] \notin Over} : Amounts[c][i] \in Int
            BY Parts, FS_Subset
        <3> QED
            BY <3>1, SumIsInt DEF Unsettled
    <2> QED
        BY <2>1, <2>2, OwedIs
<1>3. MoneyMoves(Null, 0)
    BY <1>1, <1>2 DEF MoneyMoves
<1> QED
    BY <1>3

\* A transaction about one contract: what it books is what stops, or starts, being
\* owed for it.
LEMMA OneMoves ==
    ASSUME InBalance, ContractRows, ContractRows', NEW c \in Agreements, NEW held \in Int,
           Booked(c, 0, held), Owed(c)' = Owed(c) + held,
           \A d \in Agreements \ {c} : Holds(d)' <=> Holds(d),
           \A d \in Agreements \ {c} : milestone'[d] = milestone[d]
    PROVE  MoneyMoves(c, held)
<1>1. ASSUME NEW d \in Agreements \ {c}
      PROVE  Owed(d)' = Owed(d)
    <2>1. Unsettled(d, milestone'[d]) = Unsettled(d, milestone[d])
        OBVIOUS
    <2> QED
        BY <2>1, OwedIs
<1>2. c \notin Sales
    BY ContractsAssumption
<1> QED
    BY <1>1, <1>2 DEF MoneyMoves

\* Another contract holds the listing as before.
LEMMA OthersHold ==
    ASSUME ContractRows, NEW c \in Agreements, NEW to, contract' = [contract EXCEPT ![c] = to],
           \A d \in Agreements \ {c} : milestone'[d] = milestone[d]
    PROVE  \A d \in Agreements \ {c} : Holds(d)' <=> Holds(d)
BY DEF ContractRows, Holds, RefundedUnstarted

\* The money of a cancellation or an expiry: all there was.
LEMMA RefundMoves ==
    ASSUME InBalance, ContractRows, ContractRows', NEW c \in Agreements, RefundAll(c),
           \A i \in Numbers(c) : milestone[c][i] = "PENDING", contract[c] = "FUNDED",
           UNCHANGED milestone,
           NEW to \in {"CANCELED", "REFUNDED"}, contract' = [contract EXCEPT ![c] = to]
    PROVE  \E held : MoneyMoves(c, held)
<1>1. Total(c) \in Nat /\ Total(c) \in 0 .. Total(c) /\ - Total(c) \in Int
    BY TotalIsSum
<1>2. Booked(c, 0, - Total(c))
    BY <1>1, DistributeBooked DEF RefundAll
<1>3. Holds(c) /\ ~ Holds(c)'
    <2>1. milestone[c][1] = "PENDING" /\ contract'[c] = to
        BY Parts DEF ContractRows
    <2> QED
        BY <2>1 DEF Holds, RefundedUnstarted, Sells, ContractState
<1>4. Unsettled(c, milestone[c]) = Total(c)
    BY AllUnsettled DEF Over
<1>5. Owed(c) = Total(c) /\ Owed(c)' = 0
    BY <1>3, <1>4, OwedIs
<1>6. Owed(c)' = Owed(c) + (- Total(c))
    BY <1>1, <1>5
<1>7. \A d \in Agreements \ {c} : Holds(d)' <=> Holds(d)
    BY OthersHold
<1>8. MoneyMoves(c, - Total(c))
    BY <1>1, <1>2, <1>6, <1>7, OneMoves
<1> QED
    BY <1>8

\* PATCH /api/contracts/[id].
LEMMA ContractActionsPay ==
    ASSUME Told, Told', InBalance, NEW r \in Requests, NEW c \in Agreements,
           Fund(r, c) \/ Start(r, c) \/ Cancel(r, c) \/ Expire(r, c)
    PROVE  \E reference, held : MoneyMoves(reference, held)
<1>1. ContractRows /\ ContractRows' /\ 1 \in Numbers(c)
    BY Parts DEF Told
<1>2. contract[c] \in Unstarted => \A i \in Numbers(c) : milestone[c][i] = "PENDING"
    BY TouchedHolds
<1>3. CASE Fund(r, c)
    <2>1. /\ contract[c] = "DRAFT" /\ contract' = [contract EXCEPT ![c] = "FUNDED"]
          /\ UNCHANGED milestone /\ Post(Reservation(c, Total(c), Fee[c]))
        BY <1>3 DEF Fund, Write
    <2>2. Total(c) \in Nat /\ Fee[c] \in Nat /\ 0 \in Int /\ Total(c) \in Int
        BY TotalIsSum, Parts
    <2>3. Books(Reservation(c, Total(c), Fee[c]), c, 0, Total(c))
        BY <2>2, ReservationBooks
    <2>4. Booked(c, 0, Total(c))
        BY <2>1, <2>2, <2>3, PostIsBooked
    <2>5. ~ Holds(c) /\ Holds(c)'
        <3>1. contract'[c] = "FUNDED"
            BY <1>1, <2>1 DEF ContractRows
        <3> QED
            BY <2>1, <3>1 DEF Holds, Sells, RefundedUnstarted, ContractState
    <2>6. Unsettled(c, milestone'[c]) = Total(c)
        BY <1>2, <2>1, AllUnsettled DEF Unstarted, Over
    <2>7. Owed(c)' = Owed(c) + Total(c)
        <3>1. Owed(c) = 0 /\ Owed(c)' = Total(c)
            BY <1>1, <2>5, <2>6, OwedIs
        <3> QED
            BY <2>2, <3>1
    <2>8. \A d \in Agreements \ {c} : Holds(d)' <=> Holds(d)
        BY <1>1, <2>1, OthersHold
    <2>9. MoneyMoves(c, Total(c))
        BY <1>1, <2>1, <2>2, <2>4, <2>7, <2>8, OneMoves
    <2> QED
        BY <2>9
<1>4. CASE Start(r, c)
    <2>1. /\ contract[c] = "FUNDED" /\ contract' = [contract EXCEPT ![c] = "IN_PROGRESS"]
          /\ milestone' = [milestone EXCEPT ![c][1] = IF @ \in Startable THEN "ACTIVE" ELSE @]
          /\ UNCHANGED <<account, entries>>
        BY <1>4 DEF Start, Write, creditVars
    <2>2. /\ contract'[c] = "IN_PROGRESS"
          /\ \A d \in Agreements \ {c} : contract'[d] = contract[d] /\ milestone'[d] = milestone[d]
          /\ \A i \in Numbers(c) : milestone'[c][i] \in {"PENDING", "ACTIVE"}
        <3>1. milestone'[c] = [milestone[c] EXCEPT ![1] = IF @ \in Startable THEN "ACTIVE" ELSE @]
            BY <1>1, <2>1 DEF ContractRows
        <3>2. \A i \in Numbers(c) : milestone'[c][i] \in {"PENDING", "ACTIVE"}
            BY <1>1, <1>2, <2>1, <3>1 DEF ContractRows, Unstarted
        <3> QED
            BY <1>1, <2>1, <3>2 DEF ContractRows
    <2>3. Holds(c) /\ Holds(c)'
        BY <2>1, <2>2 DEF Holds, Sells, RefundedUnstarted, ContractState
    <2>4. \A d \in Agreements : Holds(d)' <=> Holds(d)
        BY <2>2, <2>3 DEF Holds, RefundedUnstarted
    <2>5. \A d \in Agreements : \A i \in Numbers(d) :
              milestone'[d][i] \in Over <=> milestone[d][i] \in Over
        BY <1>2, <2>1, <2>2 DEF Over, Unstarted
    <2> QED
        BY <1>1, <2>1, <2>4, <2>5, NoMoneyMoves
<1>5. CASE Cancel(r, c)
    <2>1. /\ contract[c] = request[r].seen /\ contract' = [contract EXCEPT ![c] = "CANCELED"]
          /\ \/ request[r].seen = "DRAFT" /\ UNCHANGED creditVars
             \/ request[r].seen = "FUNDED" /\ RefundAll(c)
          /\ UNCHANGED milestone
        BY <1>5 DEF Cancel, CancelsRead, Write
    <2>2. CASE contract[c] = "DRAFT" /\ UNCHANGED creditVars
        <3>1. contract'[c] = "CANCELED" /\ \A d \in Agreements \ {c} : contract'[d] = contract[d]
            BY <1>1, <2>1 DEF ContractRows
        <3>2. \A d \in Agreements : Holds(d)' <=> Holds(d)
            BY <2>1, <2>2, <3>1 DEF Holds, Sells, RefundedUnstarted
        <3>3. /\ UNCHANGED <<account, entries>>
              /\ \A d \in Agreements : \A i \in Numbers(d) :
                     milestone'[d][i] \in Over <=> milestone[d][i] \in Over
            BY <2>1, <2>2 DEF creditVars
        <3> QED
            BY <1>1, <3>2, <3>3, NoMoneyMoves
    <2>3. CASE contract[c] = "FUNDED" /\ RefundAll(c)
        BY <1>1, <1>2, <2>1, <2>3, RefundMoves DEF Unstarted
    <2> QED
        BY <2>1, <2>2, <2>3
<1>6. CASE Expire(r, c)
    <2>1. /\ contract[c] = "FUNDED" /\ contract' = [contract EXCEPT ![c] = "REFUNDED"]
          /\ RefundAll(c) /\ UNCHANGED milestone
        BY <1>6 DEF Expire, Write
    <2> QED
        BY <1>1, <1>2, <2>1, RefundMoves DEF Unstarted
<1> QED
    BY <1>3, <1>4, <1>5, <1>6

\* What is unsettled after a milestone moved.
LEMMA MovedUnsettled ==
    ASSUME NEW c \in Agreements, NEW i \in Numbers(c), NEW to, milestone[c][i] \notin Over,
           NEW from, from \cap Over = {}
    PROVE  LET after == Moved(c, i, to, from) IN
           /\ to \in Over => Unsettled(c, after) = Unsettled(c, milestone[c]) - Amounts[c][i]
           /\ to \notin Over => Unsettled(c, after) = Unsettled(c, milestone[c])
<1>1. PICK after : after = Moved(c, i, to, from)
    OBVIOUS
<1>2. /\ after[i] = to
      /\ \A j \in Numbers(c) \ {i} : after[j] \in Over <=> milestone[c][j] \in Over
    BY <1>1 DEF Moved, Over
<1>3. to \in Over => Unsettled(c, after) = Unsettled(c, milestone[c]) - Amounts[c][i]
    BY <1>2, OneSettled
<1>4. to \notin Over => \A j \in Numbers(c) : after[j] \in Over <=> milestone[c][j] \in Over
    BY <1>2
<1>5. to \notin Over => Unsettled(c, after) = Unsettled(c, milestone[c])
    BY <1>4, SameUnsettled
<1> QED
    BY <1>1, <1>3, <1>5

\* A milestone that ends takes its amount out of escrow, another move nothing.
LEMMA MilestonePays ==
    ASSUME Told, InBalance, NEW c \in Agreements, NEW i \in Numbers(c),
           milestone[c][i] \notin Over \cup {"PENDING"}, NEW to \in MilestoneState \ {"PENDING"},
           NEW from, "PENDING" \in from, from \cap Over = {},
           milestone' = [milestone EXCEPT ![c] = Moved(c, i, to, from)],
           contract' = [contract EXCEPT ![c] = Derived(States(c, Moved(c, i, to, from)))],
           UNCHANGED <<listing, rival>>,
           to \in Over => Booked(c, 0, - Amounts[c][i]),
           to \notin Over => UNCHANGED <<account, entries>>
    PROVE  \E reference, held : MoneyMoves(reference, held)
<1>1. ContractRows /\ ContractRows' /\ Holds(c) /\ Holds(c)'
    BY MilestoneMoves DEF Told
<1>2. /\ milestone'[c] = Moved(c, i, to, from)
      /\ \A d \in Agreements \ {c} : milestone'[d] = milestone[d]
    BY <1>1 DEF ContractRows
<1>3. Owed(c) = Unsettled(c, milestone[c]) /\ Owed(c)' = Unsettled(c, milestone'[c])
    BY <1>1, OwedIs
<1>4. Unsettled(c, milestone'[c]) = Unsettled(c, Moved(c, i, to, from))
    BY <1>2, Zenon
<1>5. Amounts[c][i] \in Nat /\ Unsettled(c, milestone[c]) \in Int /\ - Amounts[c][i] \in Int /\ 0 \in Int
    <2>1. /\ IsFiniteSet({j \in Numbers(c) : milestone[c][j] \notin Over})
          /\ \A j \in {j \in Numbers(c) : milestone[c][j] \notin Over} : Amounts[c][j] \in Int
        BY Parts, FS_Subset
    <2>2. Unsettled(c, milestone[c]) \in Int
        BY <2>1, SumIsInt DEF Unsettled
    <2> QED
        BY <2>2, Parts
<1>6. \A d \in Agreements \ {c} : Holds(d)' <=> Holds(d)
    BY <1>1, <1>2, OthersHold
<1>7. CASE to \in Over
    <2>1. Owed(c)' = Owed(c) + (- Amounts[c][i])
        BY <1>3, <1>4, <1>5, <1>7, MovedUnsettled
    <2>2. MoneyMoves(c, - Amounts[c][i])
        BY <1>1, <1>2, <1>5, <1>6, <1>7, <2>1, OneMoves
    <2> QED
        BY <2>2
<1>8. CASE to \notin Over
    <2>1. Booked(c, 0, 0)
        BY <1>8, NothingBooked
    <2>2. Owed(c)' = Owed(c) + 0
        BY <1>3, <1>4, <1>5, <1>8, MovedUnsettled
    <2>3. MoneyMoves(c, 0)
        BY <1>1, <1>2, <1>5, <1>6, <2>1, <2>2, OneMoves
    <2> QED
        BY <2>3
<1> QED
    BY <1>7, <1>8

\* PATCH /api/contracts/[id]/milestones/[milestoneId].
LEMMA WriteMilestonePays ==
    ASSUME Told, InBalance, NEW r \in Requests, NEW to \in MilestoneState, WriteMilestone(r, to)
    PROVE  \E reference, held : MoneyMoves(reference, held)
<1> DEFINE q == request[r]
           c == q.contract
           i == q.number
<1>1. /\ q.at = "write" /\ <<q.action, q.seen, to>> \in Moves /\ milestone[c][i] = q.seen
      /\ milestone' = [milestone EXCEPT ![c] = Moved(c, i, to, Startable)]
      /\ contract' = [contract EXCEPT ![c] = Derived({Moved(c, i, to, Startable)[j] : j \in Numbers(c)})]
      /\ q.action = "mark_paid" => Distribute(c, i, Amounts[c][i], 0)
      /\ q.action # "mark_paid" => UNCHANGED creditVars
      /\ UNCHANGED <<listing, rival>>
    BY DEF WriteMilestone, UnchangedSince
<1>2. /\ q.action \in MilestoneActions
      /\ q.seen \notin Over \cup {"PENDING"} /\ to \in MilestoneState \ {"PENDING"}
      /\ to \in Over <=> q.action = "mark_paid"
    BY <1>1, MovesUnderWay
<1>3. c \in Agreements /\ i \in Numbers(c)
    BY <1>1, <1>2 DEF Told, RequestRows, Fits
<1> HIDE DEF q, c, i
<1>4. {Moved(c, i, to, Startable)[j] : j \in Numbers(c)} = States(c, Moved(c, i, to, Startable))
    BY DEF States
<1>5. contract' = [contract EXCEPT ![c] = Derived(States(c, Moved(c, i, to, Startable)))]
    BY <1>1, <1>4, Zenon
<1>6. to \in Over => Booked(c, 0, - Amounts[c][i])
    <2>1. Amounts[c][i] \in Nat /\ 0 \in 0 .. Amounts[c][i]
        BY <1>3, Parts
    <2> QED
        BY <1>1, <1>2, <2>1, DistributeBooked
<1>7. to \notin Over => UNCHANGED <<account, entries>>
    BY <1>1, <1>2 DEF creditVars
<1>8. milestone[c][i] \notin Over \cup {"PENDING"} /\ UNCHANGED <<listing, rival>>
    BY <1>1, <1>2
<1>9. to \in MilestoneState \ {"PENDING"} /\ milestone' = [milestone EXCEPT ![c] = Moved(c, i, to, Startable)]
    BY <1>1, <1>2
<1> QED
    BY <1>3, <1>5, <1>6, <1>7, <1>8, <1>9, StartableStarts, MilestonePays

\* PATCH /api/admin/contracts/disputes/[id]/resolve: whatever the ruling gives the
\* seller, the whole amount of the milestone leaves escrow, or nothing does.
LEMMA RulePays ==
    ASSUME Told, InBalance, NEW r \in Requests, NEW to \in {"REFUNDED", "ACTIVE", "PAID"},
           NEW percent, Rule(r, to, percent)
    PROVE  \E reference, held : MoneyMoves(reference, held)
<1> DEFINE d == request[r].number
           c == request[r].contract
           i == disputes[d].number
<1>1. /\ request[r].at = "write" /\ request[r].action = "rule"
      /\ milestone[c][i] = "DISPUTED"
      /\ milestone' = [milestone EXCEPT ![c] = Moved(c, i, to, {"PENDING"})]
      /\ contract' = [contract EXCEPT ![c] =
             IF @ = "DISPUTED" THEN Derived({Moved(c, i, to, {"PENDING"})[j] : j \in Numbers(c)}) ELSE @]
      /\ to # "ACTIVE" => \E share \in SellerShares(Amounts[c][i], percent) :
                              Distribute(c, i, Amounts[c][i], Amounts[c][i] - share)
      /\ to = "ACTIVE" => UNCHANGED <<account, entries>>
      /\ UNCHANGED <<listing, rival>>
    BY DEF Rule
<1>2. /\ c \in Agreements /\ d \in DOMAIN disputes /\ disputes[d].contract = c
      /\ i \in Numbers(c)
    BY <1>1 DEF Told, RequestRows, Fits
<1> HIDE DEF c, d, i
<1>3. contract[c] = "DISPUTED"
    BY <1>1, <1>2, DisputedTells
<1>4. {Moved(c, i, to, {"PENDING"})[j] : j \in Numbers(c)} = States(c, Moved(c, i, to, {"PENDING"}))
    BY DEF States
<1>5. contract' = [contract EXCEPT ![c] = Derived(States(c, Moved(c, i, to, {"PENDING"})))]
    <2>1. contract' = [contract EXCEPT ![c] = Derived({Moved(c, i, to, {"PENDING"})[j] : j \in Numbers(c)})]
        <3> DEFINE s == Derived({Moved(c, i, to, {"PENDING"})[j] : j \in Numbers(c)})
        <3>1. contract' = [contract EXCEPT ![c] = IF @ = "DISPUTED" THEN s ELSE @]
            BY <1>1
        <3> HIDE DEF s
        <3>2. contract' = [contract EXCEPT ![c] = s]
            BY <1>3, <3>1
        <3> QED
            BY <3>2 DEF s
    <2> QED
        BY <1>4, <2>1, Zenon
<1>6. to \in MilestoneState \ {"PENDING"} /\ "DISPUTED" \notin Over \cup {"PENDING"}
    BY DEF MilestoneState, Over
<1>7. to \in Over => Booked(c, 0, - Amounts[c][i])
    <2> SUFFICES ASSUME to \in Over
                 PROVE  Booked(c, 0, - Amounts[c][i])
        OBVIOUS
    <2>1. PICK share \in SellerShares(Amounts[c][i], percent) :
              Distribute(c, i, Amounts[c][i], Amounts[c][i] - share)
        BY <1>1 DEF Over
    <2>2. Amounts[c][i] \in Nat
        BY <1>2, Parts
    <2>3. Amounts[c][i] - share \in 0 .. Amounts[c][i]
        BY <2>2, ShareFits
    <2> QED
        BY <1>2, <2>1, <2>2, <2>3, DistributeBooked
<1>8. to \notin Over => UNCHANGED <<account, entries>>
    BY <1>1 DEF Over
<1>9. milestone[c][i] \notin Over \cup {"PENDING"} /\ UNCHANGED <<listing, rival>>
    BY <1>1, <1>6
<1>10. c \in Agreements /\ i \in Numbers(c) /\ to \in MilestoneState \ {"PENDING"}
       /\ milestone' = [milestone EXCEPT ![c] = Moved(c, i, to, {"PENDING"})]
    BY <1>1, <1>2, <1>6
<1> QED
    <2>1. "PENDING" \in {"PENDING"} /\ {"PENDING"} \cap Over = {}
        BY DEF Over
    <2> QED
        BY <1>5, <1>7, <1>8, <1>9, <1>10, <2>1, MilestonePays

\* POST /api/contracts/maintenance.
LEMMA MaintainPays ==
    ASSUME Told, Told', InBalance, NEW expired \in SUBSET Agreements,
           NEW overdue \in SUBSET InReview, Maintain(expired, overdue)
    PROVE  \E reference, held : MoneyMoves(reference, held)
<1> DEFINE Refund(c) == Division(c, Total(c), Total(c), <<"contract_settlement", 0>>,
                                 <<"contract_sale", 0>>)
<1>1. Post(UNION {Refund(c) : c \in expired})
    BY DEF Maintain
<1>2. \A c \in Agreements : Maintained(c, expired)
    BY MaintainOne
<1>3. ContractRows /\ ContractRows' /\ OneHolder
    BY DEF Told
<1>4. \A c \in Agreements : \A i \in Numbers(c) : milestone'[c][i] \in Over <=> milestone[c][i] \in Over
    BY <1>2 DEF Maintained
<1>5. CASE expired = {}
    <2>1. Post({})
        <3>1. UNION {Refund(c) : c \in expired} = {}
            BY <1>5
        <3> QED
            BY <1>1, <3>1, Zenon
    <2>2. UNCHANGED <<account, entries>>
        <3>1. /\ entries' = entries
              /\ account' = [u \in Users |->
                     [available |-> account[u].available + Available({e \in {} : e.user = u}),
                      escrow |-> account[u].escrow + Escrow({e \in {} : e.user = u})]]
            BY <2>1 DEF Post
        <3>2. ASSUME NEW u \in Users
              PROVE  /\ account[u].available + Available({e \in {} : e.user = u}) = account[u].available
                     /\ account[u].escrow + Escrow({e \in {} : e.user = u}) = account[u].escrow
            <4>1. {e \in {} : e.user = u} = {}
                OBVIOUS
            <4>2. Available({e \in {} : e.user = u}) = 0 /\ Escrow({e \in {} : e.user = u}) = 0
                BY <4>1, NoEntries, Zenon
            <4>3. account[u].available \in Nat /\ account[u].escrow \in Nat
                BY DEF InBalance, AccountRows
            <4> QED
                BY <4>2, <4>3
        <3>3. account' = [u \in Users |-> [available |-> account[u].available, escrow |-> account[u].escrow]]
            BY <3>1, <3>2
        <3>4. account \in [Users -> [available : Nat, escrow : Nat]]
            BY DEF InBalance, AccountRows
        <3>5. account' = account
            BY <3>3, <3>4
        <3> QED
            BY <3>1, <3>5
    <2>3. \A c \in Agreements : Holds(c)' <=> Holds(c)
        BY <1>2, <1>5 DEF Maintained
    <2> QED
        BY <1>3, <1>4, <2>2, <2>3, NoMoneyMoves
<1>6. CASE expired # {}
    <2>1. PICK c \in expired : TRUE
        BY <1>6
    <2>2. c \in Agreements /\ expired = {c}
        BY <1>2, <1>3, <2>1 DEF OneHolder, Maintained
    <2>3. Post(Refund(c))
        <3>1. UNION {Refund(d) : d \in expired} = Refund(c)
            <4> HIDE DEF Refund
            <4> QED
                BY <2>2
        <3> QED
            BY <1>1, <3>1, Zenon
    <2>4. Total(c) \in Nat /\ Total(c) \in 0 .. Total(c) /\ - Total(c) \in Int /\ 0 \in Int
        BY <2>2, TotalIsSum
    <2>5. Booked(c, 0, - Total(c))
        <3>1. Books(Refund(c), c, 0, - Total(c))
            BY <2>4, DivisionBooks
        <3> HIDE DEF Refund
        <3> QED
            BY <2>3, <2>4, <3>1, PostIsBooked
    <2>6. /\ Holds(c) /\ ~ Holds(c)' /\ \A i \in Numbers(c) : milestone[c][i] = "PENDING"
          /\ \A d \in Agreements \ {c} : Holds(d)' <=> Holds(d)
        BY <1>2, <2>1, <2>2 DEF Maintained
    <2>7. Unsettled(c, milestone[c]) = Total(c)
        BY <2>2, <2>6, AllUnsettled DEF Over
    <2>8. Owed(c)' = Owed(c) + (- Total(c))
        <3>1. Owed(c) = Total(c) /\ Owed(c)' = 0
            BY <1>3, <2>2, <2>6, <2>7, OwedIs
        <3> QED
            BY <2>4, <3>1
    <2>9. \A d \in Agreements \ {c} : Owed(d)' = Owed(d)
        <3> SUFFICES ASSUME NEW d \in Agreements \ {c}
                     PROVE  Owed(d)' = Owed(d)
            OBVIOUS
        <3>1. Unsettled(d, milestone'[d]) = Unsettled(d, milestone[d])
            BY <1>4, SameUnsettled
        <3> QED
            BY <1>3, <2>6, <3>1, OwedIs
    <2>10. MoneyMoves(c, - Total(c))
        BY <2>2, <2>4, <2>5, <2>8, <2>9, ContractsAssumption DEF MoneyMoves
    <2> QED
        BY <2>10
<1> QED
    BY <1>5, <1>6

-----------------------------------------------------------------------------
(* Every step, all together *)

Sound == Told /\ Deposited /\ OwedIsHeld

\* The system starts with nothing posted and nothing owed.
LEMMA InitSound ==
    ASSUME ContractsInit
    PROVE  Sound
<1>1. AccountRows /\ AccountsAddUp /\ CreditRows /\ ContractRows /\ RequestRows
    BY InitRows
<1>2. /\ contract = [c \in Agreements |-> "DRAFT"]
      /\ milestone = [c \in Agreements |-> [i \in Numbers(c) |-> "PENDING"]]
      /\ disputes = <<>> /\ listing = "active" /\ rival = FALSE
      /\ entries = {} /\ deposit = [d \in Deposits |-> [state |-> "pending", hash |-> Null]]
      /\ sale = [t \in Sales |-> "none"]
      /\ call = [k \in Calls |-> [at |-> "idle", deposit |-> Null, hash |-> Null]]
    BY DEF ContractsInit, CreditInit, NoCall
<1>3. AllTell
    <2>1. ASSUME NEW c \in Agreements
          PROVE  Tells(contract[c], c, milestone[c])
        <3>1. /\ contract[c] = "DRAFT" /\ 1 \in Numbers(c)
              /\ \A i \in Numbers(c) : milestone[c][i] = "PENDING"
            BY <1>2, Parts
        <3>2. States(c, milestone[c]) = {"PENDING"}
            BY <3>1 DEF States
        <3>3. InOrder(c, milestone[c]) /\ Working(c, milestone[c])
            BY <3>1 DEF InOrder, Working
        <3> QED
            BY <3>1, <3>2, <3>3 DEF Tells, Unstarted
    <2> QED
        BY <2>1 DEF AllTell
<1>4. \A c \in Agreements : ~ Holds(c) /\ Owed(c) = 0
    BY <1>2 DEF Holds, Sells, Owed
<1>5. Told
    BY <1>1, <1>2, <1>3, <1>4 DEF Told, DisputesOpen, OneHolder
<1>6. \A reference : Held(reference) = 0
    <2> SUFFICES ASSUME NEW reference
                 PROVE  Held(reference) = 0
        OBVIOUS
    <2>1. {e \in Of(Buyer) : e.reference = reference} = {}
        BY <1>2 DEF Of
    <2>2. Escrow({e \in Of(Buyer) : e.reference = reference}) = Escrow({})
        BY <2>1, Zenon
    <2> QED
        BY <2>2, NoEntries DEF Held
<1>7. Confirmed = {}
    BY <1>2 DEF Confirmed
<1>8. Claims
    BY <1>2, <1>7 DEF Claims
<1>9. Backed
    <2>1. Cardinality(Confirmed) = 0
        BY <1>7, FS_EmptySet
    <2>2. Available(entries) = 0 /\ Escrow(entries) = 0
        BY <1>2, NoEntries
    <2> QED
        BY <2>1, <2>2, CreditAssumption DEF Backed
<1>10. SalesHeld
    BY <1>2, <1>6 DEF SalesHeld
<1> QED
    BY <1>1, <1>4, <1>5, <1>6, <1>8, <1>9, <1>10 DEF Sound, Deposited, InBalance, OwedIsHeld

\* A step of the contracts or of another buyer: who holds the listing, what is owed.
LEMMA ContractStepSound ==
    ASSUME Sound, ContractsNext, ~ (CreditNext /\ UNCHANGED contractVars)
    PROVE  Told' /\ \E reference, held : MoneyMoves(reference, held)
<1>1. Told /\ InBalance
    BY DEF Sound, Deposited
<1>2. RequestRows /\ ContractRows
    BY <1>1 DEF Told
<1>3. ASSUME Told', UNCHANGED <<creditVars, contract, milestone>>
      PROVE  \E reference, held : MoneyMoves(reference, held)
    <2>1. ContractRows'
        BY <1>3 DEF Told
    <2>2. /\ UNCHANGED <<account, entries>>
          /\ \A c \in Agreements : Holds(c)' <=> Holds(c)
        BY <1>3 DEF creditVars, Holds, RefundedUnstarted
    <2>3. \A c \in Agreements : \A i \in Numbers(c) : milestone'[c][i] \in Over <=> milestone[c][i] \in Over
        BY <1>3
    <2> QED
        BY <1>1, <1>2, <2>1, <2>2, <2>3, NoMoneyMoves
<1>4. ASSUME NEW r \in Requests,
             \/ \E c \in Agreements, action \in ContractActions : ReadContract(r, c, action)
             \/ \E c \in Agreements, action \in MilestoneActions :
                    \E i \in Numbers(c) : ReadUnderWay(r, c, i, action)
             \/ ReadMilestone(r)
             \/ \E d \in DOMAIN disputes : ReadDispute(r, d)
             \/ ReadDisputed(r)
             \/ RequestEnds(r)
      PROVE  Told' /\ \E reference, held : MoneyMoves(reference, held)
    <2>1. RequestRows' /\ UNCHANGED <<creditVars, contract, milestone, disputes, listing, rival>>
        BY <1>2, <1>4, ReadsKeep
    <2>2. Told'
        BY <1>1, <2>1, ToldStays
    <2> QED
        BY <1>3, <2>1, <2>2
<1>5. ASSUME NEW r \in Requests, NEW c \in Agreements,
             Fund(r, c) \/ Start(r, c) \/ Cancel(r, c) \/ Expire(r, c)
      PROVE  Told' /\ \E reference, held : MoneyMoves(reference, held)
    <2>1. Told'
        BY <1>1, <1>5, ContractActionsTell
    <2> QED
        BY <1>1, <1>5, <2>1, ContractActionsPay
<1>6. ASSUME NEW r \in Requests, NEW to \in MilestoneState, WriteMilestone(r, to)
      PROVE  Told' /\ \E reference, held : MoneyMoves(reference, held)
    BY <1>1, <1>6, WriteMilestoneTells, WriteMilestonePays
<1>7. ASSUME NEW r \in Requests, Ruling(r)
      PROVE  Told' /\ \E reference, held : MoneyMoves(reference, held)
    <2>1. ASSUME NEW to \in {"REFUNDED", "ACTIVE", "PAID"}, NEW percent, Rule(r, to, percent)
          PROVE  Told' /\ \E reference, held : MoneyMoves(reference, held)
        BY <1>1, <2>1, RuleTells, RulePays
    <2> QED
        BY <1>7, <2>1 DEF Ruling
<1>8. ASSUME NEW expired \in SUBSET Agreements, NEW overdue \in SUBSET InReview, Maintain(expired, overdue)
      PROVE  Told' /\ \E reference, held : MoneyMoves(reference, held)
    <2>1. Told'
        BY <1>1, <1>8, MaintainTells
    <2> QED
        BY <1>1, <1>8, <2>1, MaintainPays
<1>9. CASE RivalBuys \/ RivalCancels
    <2>1. /\ UNCHANGED <<creditVars, contract, milestone, disputes, request>>
          /\ \/ listing = "active" /\ listing' = "sold" /\ rival' = TRUE
             \/ rival /\ listing' = "active" /\ rival' = FALSE
        BY <1>9 DEF RivalBuys, RivalCancels
    <2>2. ContractRows' /\ RequestRows'
        BY <1>2, <2>1 DEF ContractRows, RequestRows, Fits
    <2>3. AllTell' /\ DisputesOpen'
        <3>1. AllTell'
            <4>1. UNCHANGED <<contract, milestone>> /\ AllTell
                BY <1>1, <2>1 DEF Told
            <4> QED
                BY <4>1, TellStays
        <3>2. DisputesOpen'
            BY <1>1, <2>1 DEF Told, DisputesOpen
        <3> QED
            BY <3>1, <3>2
    <2>4. OneHolder'
        <3>1. \A c \in Agreements : Holds(c)' <=> Holds(c)
            BY <2>1 DEF Holds, RefundedUnstarted
        <3> QED
            BY <1>1, <2>1, <3>1 DEF Told, OneHolder
    <2>5. Told'
        BY <2>2, <2>3, <2>4 DEF Told
    <2> QED
        BY <1>3, <2>1, <2>5
<1> QED
    BY <1>4, <1>5, <1>6, <1>7, <1>8, <1>9 DEF ContractsNext

\* All of it is kept by every step.
LEMMA SoundStep ==
    ASSUME Sound, [ContractsNext]_allVars
    PROVE  Sound'
<1>1. Told /\ Deposited /\ OwedIsHeld
    BY DEF Sound
<1>2. ASSUME RequestRows', UNCHANGED contractVars
      PROVE  Told' /\ \A c \in Agreements : Owed(c)' = Owed(c)
    <2>1. UNCHANGED <<contract, milestone, disputes, listing, rival>>
        BY <1>2 DEF contractVars
    <2>2. Told'
        BY <1>1, <1>2, <2>1, ToldStays
    <2> QED
        BY <2>1, <2>2 DEF Owed, RefundedUnstarted
<1>3. UNCHANGED contractVars => RequestRows'
    BY <1>1 DEF Told, RequestRows, Fits, contractVars
<1>4. CASE CreditNext /\ UNCHANGED contractVars
    <2>1. Deposited' /\ \A c \in Agreements : Held(c)' = Held(c)
        BY <1>1, <1>4, CreditStepKeeps
    <2> QED
        BY <1>1, <1>2, <1>3, <1>4, <2>1 DEF Sound, OwedIsHeld
<1>5. CASE ContractsNext /\ ~ (CreditNext /\ UNCHANGED contractVars)
    <2>1. Told' /\ \E reference, held : MoneyMoves(reference, held)
        BY <1>5, ContractStepSound
    <2>2. UNCHANGED <<deposit, receipts, sale, call>>
        BY <1>5, CreditOrContract
    <2>3. Deposited' /\ OwedIsHeld'
        BY <1>1, <2>1, <2>2, MoneyKeeps
    <2> QED
        BY <2>1, <2>3 DEF Sound
<1>6. CASE UNCHANGED allVars
    <2>1. UNCHANGED contractVars /\ UNCHANGED <<account, entries, deposit, receipts, sale, call>>
        BY <1>6 DEF allVars, creditVars
    <2>2. Deposited'
        <3>1. InBalance'
            BY <1>1, <2>1, NothingBooked DEF Deposited, Booked, InBalance
        <3>2. CreditRows' /\ Claims'
            BY <1>1, <2>1 DEF Deposited, CreditRows, Claims, Confirmed
        <3>3. Backed'
            BY <1>1, <2>1 DEF Deposited, Backed, Confirmed, Available, Escrow
        <3>4. SalesHeld'
            BY <1>1, <2>1 DEF Deposited, SalesHeld, Held, Of, Escrow
        <3> QED
            BY <3>1, <3>2, <3>3, <3>4 DEF Deposited
    <2>3. \A c \in Agreements : Held(c)' = Held(c)
        BY <2>1 DEF Held, Of, Escrow
    <2> QED
        BY <1>1, <1>2, <1>3, <2>1, <2>2, <2>3 DEF Sound, OwedIsHeld
<1> QED
    BY <1>4, <1>5, <1>6

\* The inductive invariant always holds.
LEMMA AlwaysSound == Spec => []Sound
<1>1. ContractsInit => Sound
    BY InitSound
<1>2. Sound /\ [ContractsNext]_allVars => Sound'
    BY SoundStep
<1> QED
    BY <1>1, <1>2, PTL DEF Spec

-----------------------------------------------------------------------------
(* What follows *)

\* Every row of the credit and of the contracts always is of its type; no balance
\* of an account is ever negative.
THEOREM ContractsAreTyped == Spec => []TypeOK
<1>1. Sound => TypeOK
    BY RowsAreTyped DEF Sound, Told, Deposited, InBalance
<1> QED
    BY <1>1, AlwaysSound, PTL

\* One hash is one confirmed deposit.
LEMMA HashesCount ==
    ASSUME Claims
    PROVE  Cardinality({deposit[d].hash : d \in Confirmed}) = Cardinality(Confirmed)
<1> DEFINE H == {deposit[d].hash : d \in Confirmed}
           f == [d \in Confirmed |-> deposit[d].hash]
<1>1. IsFiniteSet(Confirmed)
    BY CreditAssumption, FS_Subset DEF Confirmed
<1>2. \A d, e \in Confirmed : deposit[d].hash = deposit[e].hash => d = e
    BY CreditAssumption DEF Claims, Confirmed
<1>3. f \in Bijection(Confirmed, H)
    BY <1>2 DEF Bijection, Injection, Surjection, IsInjective
<1>4. ExistsBijection(Confirmed, H)
    BY <1>3 DEF ExistsBijection
<1> HIDE DEF H, f
<1>5. Cardinality(H) = Cardinality(Confirmed)
    BY <1>1, <1>4, FS_Bijection
<1> QED
    BY <1>5 DEF H

\* However deposits, purchases, contracts, rulings and maintenance interleave, the
\* accounts are the sum of their entries, all credit comes from a confirmed deposit
\* of its own transfer, and the buyer's one escrow holds for each sale and each
\* contract exactly what that one still owes.
THEOREM BooksBalance == Spec => []CreditBooks
<1>1. ASSUME Sound
      PROVE  CreditBooks
    <2>1. AccountsAddUp /\ Claims /\ Backed /\ SalesHeld /\ OwedIsHeld
        BY <1>1 DEF Sound, Deposited, InBalance
    <2>2. Cardinality({deposit[d].hash : d \in Confirmed}) = Cardinality(Confirmed)
        BY <2>1, HashesCount
    <2> QED
        BY <2>1, <2>2 DEF CreditBooks, AccountsAddUp, Claims, Backed, SalesHeld, OwedIsHeld, Confirmed
<1> QED
    BY <1>1, AlwaysSound, PTL

\* At most one holder, counted.
LEMMA HoldersCount ==
    ASSUME OneHolder, NEW S, S = {c \in Agreements : Holds(c)}, rival \in BOOLEAN
    PROVE  Cardinality(S) + (IF rival THEN 1 ELSE 0) <= 1
<1>1. CASE S = {}
    BY <1>1, FS_EmptySet
<1>2. CASE S # {}
    <2>1. PICK c \in S : S = {c}
        BY <1>2 DEF OneHolder
    <2>2. Cardinality(S) = 1 /\ ~ rival
        BY <2>1, FS_Singleton DEF OneHolder
    <2> QED
        BY <2>2
<1> QED
    BY <1>1, <1>2

\* However late a request writes, the state of a contract is what its milestones
\* say, they are worked on one after the other, a disputed one has an open dispute,
\* and never do two buyers have the listing.
THEOREM ContractsTellTheirMilestones == Spec => []ContractTellsItsMilestones
<1>1. ASSUME Sound
      PROVE  ContractTellsItsMilestones
    <2>1. AllTell /\ DisputesOpen /\ OneHolder /\ rival \in BOOLEAN
        BY <1>1 DEF Sound, Told, ContractRows
    <2>2. ASSUME NEW c \in Agreements
          PROVE  LET states == {milestone[c][i] : i \in Numbers(c)} IN
                 /\ contract[c] \notin Unstarted /\ states # {"PENDING"} => contract[c] = Derived(states)
                 /\ (states = {"PENDING"}) <=> (contract[c] \in Unstarted \/ RefundedUnstarted(c))
                 /\ \A i, j \in Numbers(c) : i < j => milestone[c][i] \in Over \/ milestone[c][j] = "PENDING"
        BY <2>1 DEF AllTell, Tells, States, InOrder, RefundedUnstarted
    <2>3. LET holders == {c \in Agreements : contract[c] \in Sells /\ ~ RefundedUnstarted(c)} IN
          /\ Cardinality(holders) + (IF rival THEN 1 ELSE 0) <= 1
          /\ (listing = "sold") <=> (holders # {} \/ rival)
        <3> DEFINE holders == {c \in Agreements : contract[c] \in Sells /\ ~ RefundedUnstarted(c)}
        <3>1. holders = {c \in Agreements : Holds(c)}
            BY DEF Holds
        <3> HIDE DEF holders
        <3>2. Cardinality(holders) + (IF rival THEN 1 ELSE 0) <= 1
            BY <2>1, <3>1, HoldersCount
        <3>3. (listing = "sold") <=> (holders # {} \/ rival)
            BY <2>1, <3>1 DEF OneHolder
        <3> QED
            BY <3>2, <3>3 DEF holders
    <2> QED
        BY <2>1, <2>2, <2>3 DEF ContractTellsItsMilestones, DisputesOpen
<1> QED
    BY <1>1, AlwaysSound, PTL

\* A contract with a milestone under way has not ended.
LEMMA UnderWayLasts ==
    ASSUME Told, NEW c \in Agreements, NEW i \in Numbers(c), milestone[c][i] \notin Over \cup {"PENDING"}
    PROVE  contract[c] \notin {"COMPLETED", "CANCELED", "REFUNDED"}
<1>1. Tells(contract[c], c, milestone[c]) /\ Row(c, milestone[c])
    BY DEF Told, AllTell, ContractRows, Row
<1>2. InOrder(c, milestone[c]) /\ Working(c, milestone[c])
    BY <1>1 DEF Tells
<1>3. milestone[c][1] # "PENDING"
    BY <1>1, <1>2, UnderWay
<1>4. States(c, milestone[c]) # {"PENDING"}
    BY <1>1, <1>2, <1>3, FirstTells
<1>5. contract[c] \notin Unstarted /\ contract[c] = Derived(States(c, milestone[c]))
    BY <1>1, <1>4 DEF Tells
<1>6. ~ (States(c, milestone[c]) \subseteq Over)
    BY DEF States
<1> QED
    BY <1>1, <1>2, <1>3, <1>5, <1>6, DerivedTells DEF Unstarted

Ended == {"COMPLETED", "CANCELED", "REFUNDED"}

EndedStays(c) ==
    contract[c] \in Ended => contract'[c] = contract[c] /\ milestone'[c] = milestone[c]

\* Each step leaves the contracts that ended as they are.
LEMMA EndedStep ==
    ASSUME Sound, [ContractsNext]_allVars
    PROVE  \A c \in Agreements : EndedStays(c)
<1>1. Told /\ RequestRows /\ ContractRows
    BY DEF Sound, Told
<1>2. ASSUME UNCHANGED <<contract, milestone>>
      PROVE  \A c \in Agreements : EndedStays(c)
    BY <1>2 DEF EndedStays
<1>3. ASSUME NEW c \in Agreements, contract[c] \notin Ended, NEW s, NEW m,
             contract' = [contract EXCEPT ![c] = s],
             UNCHANGED milestone \/ milestone' = [milestone EXCEPT ![c] = m]
      PROVE  \A d \in Agreements : EndedStays(d)
    BY <1>1, <1>3 DEF EndedStays, ContractRows
<1>4. ASSUME NEW r \in Requests, NEW c \in Agreements,
             Fund(r, c) \/ Cancel(r, c) \/ Expire(r, c)
      PROVE  \A d \in Agreements : EndedStays(d)
    <2>1. PICK s : /\ contract[c] \in {"DRAFT", "FUNDED"} /\ contract' = [contract EXCEPT ![c] = s]
                   /\ UNCHANGED milestone
        BY <1>4 DEF Fund, Cancel, CancelsRead, Expire, Write
    <2>2. contract[c] \notin Ended
        BY <2>1 DEF Ended
    <2> QED
        BY <1>3, <2>1, <2>2
<1>5. ASSUME NEW r \in Requests, NEW c \in Agreements, Start(r, c)
      PROVE  \A d \in Agreements : EndedStays(d)
    <2>1. /\ contract[c] = "FUNDED" /\ contract' = [contract EXCEPT ![c] = "IN_PROGRESS"]
          /\ milestone' = [milestone EXCEPT ![c][1] = IF @ \in Startable THEN "ACTIVE" ELSE @]
        BY <1>5 DEF Start, Write
    <2>2. contract[c] \notin Ended
        BY <2>1 DEF Ended
    <2>3. \A d \in Agreements \ {c} : contract'[d] = contract[d] /\ milestone'[d] = milestone[d]
        BY <1>1, <2>1 DEF ContractRows
    <2> QED
        BY <2>2, <2>3 DEF EndedStays
<1>6. ASSUME NEW r \in Requests, NEW to \in MilestoneState, WriteMilestone(r, to)
      PROVE  \A d \in Agreements : EndedStays(d)
    <2> DEFINE q == request[r]
               c == q.contract
               i == q.number
    <2>1. /\ q.at = "write" /\ <<q.action, q.seen, to>> \in Moves /\ milestone[c][i] = q.seen
          /\ milestone' = [milestone EXCEPT ![c] = Moved(c, i, to, Startable)]
          /\ contract' = [contract EXCEPT ![c] = Derived({Moved(c, i, to, Startable)[j] : j \in Numbers(c)})]
        BY <1>6 DEF WriteMilestone, UnchangedSince
    <2>2. q.action \in MilestoneActions /\ q.seen \notin Over \cup {"PENDING"}
        BY <2>1, MovesUnderWay
    <2>3. c \in Agreements /\ i \in Numbers(c)
        BY <1>1, <2>1, <2>2 DEF RequestRows, Fits
    <2> HIDE DEF q, c, i
    <2>4. milestone[c][i] \notin Over \cup {"PENDING"}
        BY <2>1, <2>2
    <2>5. contract[c] \notin Ended
        BY <1>1, <2>3, <2>4, UnderWayLasts DEF Ended
    <2> QED
        BY <1>3, <2>1, <2>3, <2>5
<1>7. ASSUME NEW r \in Requests, NEW to, NEW percent, Rule(r, to, percent)
      PROVE  \A d \in Agreements : EndedStays(d)
    <2> DEFINE c == request[r].contract
               i == disputes[request[r].number].number
    <2>1. /\ request[r].at = "write" /\ request[r].action = "rule"
          /\ milestone[c][i] = "DISPUTED"
          /\ milestone' = [milestone EXCEPT ![c] = Moved(c, i, to, {"PENDING"})]
          /\ contract' = [contract EXCEPT ![c] =
                 IF @ = "DISPUTED" THEN Derived({Moved(c, i, to, {"PENDING"})[j] : j \in Numbers(c)}) ELSE @]
        BY <1>7 DEF Rule
    <2>2. c \in Agreements /\ i \in Numbers(c)
        BY <1>1, <2>1 DEF RequestRows, Fits
    <2>3. contract[c] = "DISPUTED"
        BY <1>1, <2>1, <2>2, DisputedTells
    <2>4. contract[c] \notin Ended
        BY <2>3 DEF Ended
    <2> HIDE DEF c, i
    <2>5. PICK s : contract' = [contract EXCEPT ![c] = s]
        BY <2>1
    <2> QED
        BY <1>3, <2>1, <2>2, <2>4, <2>5
<1>8. ASSUME NEW expired \in SUBSET Agreements, NEW overdue \in SUBSET InReview, Maintain(expired, overdue)
      PROVE  \A d \in Agreements : EndedStays(d)
    <2> SUFFICES ASSUME NEW c \in Agreements, contract[c] \in Ended
                 PROVE  contract'[c] = contract[c] /\ milestone'[c] = milestone[c]
        BY DEF EndedStays
    <2>1. /\ \A d \in expired : contract[d] = "FUNDED"
          /\ milestone' = Approved(overdue)
          /\ contract' = [d \in Agreements |->
                 IF d \in expired THEN "REFUNDED"
                 ELSE IF contract[d] \in {"IN_PROGRESS", "AWAITING_REVIEW", "DISPUTED"}
                 THEN Derived({Approved(overdue)[d][i] : i \in Numbers(d)})
                 ELSE contract[d]]
        BY <1>8 DEF Maintain
    <2>2. contract'[c] = contract[c]
        BY <2>1 DEF Ended
    <2>3. \A i \in Numbers(c) : <<c, i>> \notin overdue
        <3> SUFFICES ASSUME NEW i \in Numbers(c), <<c, i>> \in overdue
                     PROVE  FALSE
            OBVIOUS
        <3>1. milestone[c][i] = "AWAITING_BUYER_REVIEW"
            BY DEF InReview
        <3>2. milestone[c][i] \notin Over \cup {"PENDING"}
            BY <3>1 DEF Over
        <3> QED
            BY <1>1, <3>2, UnderWayLasts DEF Ended
    <2>4. milestone'[c] = milestone[c]
        <3>1. milestone'[c] = [i \in Numbers(c) |-> milestone[c][i]]
            BY <2>1, <2>3 DEF Approved
        <3>2. milestone[c] \in [Numbers(c) -> MilestoneState]
            BY <1>1 DEF ContractRows
        <3> QED
            BY <3>1, <3>2
    <2> QED
        BY <2>2, <2>4
<1>9. ASSUME NEW r \in Requests,
             \/ \E c \in Agreements, action \in ContractActions : ReadContract(r, c, action)
             \/ \E c \in Agreements, action \in MilestoneActions :
                    \E i \in Numbers(c) : ReadUnderWay(r, c, i, action)
             \/ ReadMilestone(r)
             \/ \E d \in DOMAIN disputes : ReadDispute(r, d)
             \/ ReadDisputed(r)
             \/ RequestEnds(r)
      PROVE  \A d \in Agreements : EndedStays(d)
    BY <1>1, <1>2, <1>9, ReadsKeep
<1>10. ASSUME UNCHANGED contractVars \/ UNCHANGED allVars \/ RivalBuys \/ RivalCancels
       PROVE  \A d \in Agreements : EndedStays(d)
    BY <1>2, <1>10 DEF contractVars, allVars, RivalBuys, RivalCancels
<1> QED
    BY <1>4, <1>5, <1>6, <1>7, <1>8, <1>9, <1>10 DEF ContractsNext, Ruling

\* A contract that was completed, refunded or cancelled is final: no request that
\* read it before, no ruling and no maintenance changes it or a milestone of it.
THEOREM EndedContractsAreFinal == Spec => [][\A c \in Agreements : EndedStays(c)]_allVars
<1>1. Sound /\ [ContractsNext]_allVars => [\A c \in Agreements : EndedStays(c)]_allVars
    BY EndedStep
<1> QED
    BY <1>1, AlwaysSound, PTL DEF Spec

=============================================================================
