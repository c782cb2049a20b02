--------------------------- MODULE VoucherProofs ---------------------------
(***************************************************************************)
(* Proofs about Voucher, for any number of connections, vouchers, entries, *)
(* packages and pesos: locks are exclusive and never wait in a circle, so  *)
(* that a transaction writes what the rows still say, one voucher is       *)
(* issued a package, every peso is accounted for, and the transactions     *)
(* implement VoucherBook.                                                  *)
(***************************************************************************)
EXTENDS Voucher, Sums

AnyRow   == VoucherRow \cup {NoVoucher}
AnyEntry == Availment \cup {NoAvail}
AnyView  == [tier : Tiers \cup {0}, cd : BOOLEAN, tiers : SUBSET Tiers]
AnyRows  == [voucher : AnyRow, avail : AnyEntry, wallet : Nat]

\* The types of the tables, and those of the variables of transactions.
TableTypes ==
    /\ account \in [tier : Tiers, cd : BOOLEAN]
    /\ vouchers \in [Vids -> AnyRow]
    /\ availed \in [Avails -> AnyEntry]
    /\ loose \in [Vids -> Nat] /\ wallet \in Nat /\ credits \in 0 .. MaxCredits

ProcTypes ==
    /\ op \in [Procs -> Operation \cup {NoOp}]
    /\ step \in [Procs -> 0 .. 5]
    /\ view \in [Procs -> AnyView]
    /\ seen \in [Procs -> AnyRows]

\* Entries and operations refer to rows that exist.
Refer ==
    /\ \A a \in Recorded : availed[a].voucher \in Issued
    /\ \A p \in Procs : /\ op[p].kind \in OfVoucher => op[p].voucher \in Issued
                        /\ op[p].kind \in OfAvail => op[p].avail \in Recorded

\* A transaction begins with its first lock.
Begun ==
    \A p \in Procs :
        /\ op[p] = NoOp => step[p] = 0 /\ view[p] = NoView /\ seen[p] = NoRows
        /\ op[p] # NoOp => step[p] \in 1 .. Len(Plan(op[p]))

\* No two transactions have the same lock.
LocksApart == \A p, q \in Procs : p # q => Held(p) \cap Held(q) = {}

SameRow(r, s) == r.tier = s.tier /\ r.left = s.left /\ r.status = s.status /\ r.used = s.used

WritesVoucher == OfVoucher \cup {"edit", "cancel"}
WritesWallet  == {"redeem", "create", "edit", "cancel", "credit"}

\* A transaction that has all its locks has seen the rows as they are, apart
\* from dates that have passed since.
Current(p) ==
    /\ op[p].kind \in WritesVoucher => SameRow(seen[p].voucher, vouchers[VoucherOf(op[p])])
    /\ op[p].kind \in OfAvail => seen[p].avail = availed[op[p].avail]
    /\ op[p].kind \in WritesWallet => seen[p].wallet = wallet
    /\ op[p].kind \in {"grant", "upgrade"} => view[p].tiers = TiersHeld
    /\ op[p].kind = "grant" => view[p].tier \in Tiers

SeenCurrent == \A p \in Procs : ~Lacks(p) => Current(p)

LockInv == TableTypes /\ ProcTypes /\ Refer /\ Begun /\ LocksApart /\ SeenCurrent

\* Operations, by what they are about.
LEMMA Kinds ==
    ASSUME NEW o \in Operation
    PROVE  \/ o.kind \in OfVoucher /\ o.voucher \in Vids
           \/ o.kind \in OfAvail /\ o.avail \in Avails
           \/ o.kind \in {"grant", "upgrade", "credit"}
BY DEF Operation

\* The plans, one by one.
LEMMA Plans ==
    ASSUME NEW o
    PROVE  /\ o.kind = "redeem" => Plan(o) = <<Income, Row(VoucherOf(o)), Wallet>>
           /\ o.kind = "create" => Plan(o) = <<Named(VoucherOf(o)), Row(VoucherOf(o)), Wallet>>
           /\ o.kind = "edit" =>
                  Plan(o) = <<AvailRow(o.avail), Named(VoucherOf(o)), Row(VoucherOf(o)), Wallet>>
           /\ o.kind = "claim" => Plan(o) = <<AvailRow(o.avail)>>
           /\ o.kind = "cancel" =>
                  Plan(o) = <<Income, AvailRow(o.avail), Row(VoucherOf(o)), Wallet>>
           /\ o.kind = "reopen" => Plan(o) = <<Income, AvailRow(o.avail)>>
           /\ o.kind = "revoke" => Plan(o) = <<Member, Row(VoucherOf(o))>>
           /\ o.kind \in {"grant", "upgrade"} => Plan(o) = <<Member>>
           /\ o.kind = "credit" => Plan(o) = <<Income, Wallet>>
           /\ o.kind = "none" => Plan(o) = <<>>
BY DEF Plan, CancelLocks

\* A plan has one to four locks.
LEMMA PlanLength ==
    ASSUME NEW o \in Operation
    PROVE  Len(Plan(o)) \in 1 .. 4
<1>1. o.kind \in {"redeem", "create", "edit", "claim", "cancel", "reopen", "revoke", "grant",
                  "upgrade", "credit"}
  BY Kinds DEF OfVoucher, OfAvail
<1>. QED
  BY <1>1, Plans

\* What a transaction that has all its locks may write.
LEMMA HoldsAll ==
    ASSUME ProcTypes, Begun, NEW p \in Procs, op[p] # NoOp, ~Lacks(p)
    PROVE  /\ op[p].kind \in WritesVoucher => Row(VoucherOf(op[p])) \in Held(p)
           /\ op[p].kind \in OfAvail => AvailRow(op[p].avail) \in Held(p)
           /\ op[p].kind \in WritesWallet => Wallet \in Held(p)
           /\ op[p].kind \in {"grant", "upgrade"} => Member \in Held(p)
<1>. DEFINE o == op[p]
            P == Plan(o)
<1>1. o \in Operation
  BY DEF ProcTypes
<1>2. Len(P) \in 1 .. 4
  BY <1>1, PlanLength
<1>3. step[p] = Len(P)
  BY <1>2 DEF Begun, Lacks, ProcTypes
<1>4. Held(p) = {P[i] : i \in 1 .. Len(P)}
  BY <1>3 DEF Held
<1>. HIDE DEF P, o
<1>5. \A i \in 1 .. Len(P) : P[i] \in Held(p)
  BY <1>4
<1>6. /\ o.kind \in {"redeem", "create"} => P[2] = Row(VoucherOf(o)) /\ P[3] = Wallet /\ Len(P) = 3
      /\ o.kind = "edit" => /\ P[1] = AvailRow(o.avail) /\ P[3] = Row(VoucherOf(o))
                            /\ P[4] = Wallet /\ Len(P) = 4
      /\ o.kind = "claim" => P[1] = AvailRow(o.avail)
      /\ o.kind = "cancel" => /\ P[2] = AvailRow(o.avail) /\ P[3] = Row(VoucherOf(o))
                              /\ P[4] = Wallet /\ Len(P) = 4
      /\ o.kind = "reopen" => P[2] = AvailRow(o.avail) /\ Len(P) = 2
      /\ o.kind = "revoke" => P[2] = Row(VoucherOf(o)) /\ Len(P) = 2
      /\ o.kind \in {"grant", "upgrade"} => P[1] = Member
      /\ o.kind = "credit" => P[2] = Wallet /\ Len(P) = 2
  BY Plans DEF P
<1>7. 1 \in 1 .. Len(P)
  BY <1>2 DEF P
<1>8. /\ Len(P) = 2 => 2 \in 1 .. Len(P)
      /\ Len(P) = 3 => 2 \in 1 .. Len(P) /\ 3 \in 1 .. Len(P)
      /\ Len(P) = 4 => 2 \in 1 .. Len(P) /\ 3 \in 1 .. Len(P) /\ 4 \in 1 .. Len(P)
  OBVIOUS
<1>9. /\ o.kind \in WritesVoucher => Row(VoucherOf(o)) \in Held(p)
      /\ o.kind \in OfAvail => AvailRow(o.avail) \in Held(p)
      /\ o.kind \in WritesWallet => Wallet \in Held(p)
      /\ o.kind \in {"grant", "upgrade"} => Member \in Held(p)
  BY <1>5, <1>6, <1>7, <1>8 DEF WritesVoucher, WritesWallet, OfVoucher, OfAvail
<1>. QED
  BY <1>9 DEF o
-----------------------------------------------------------------------------
\* AUTO_INCREMENT gives an id that is not in use.
LEMMA NewIdFresh ==
    ASSUME NEW ids, NEW taken, \E i \in ids : i \notin taken
    PROVE  NewId(ids, taken) \in ids \ taken
BY DEF NewId

\* The row of a voucher that exists.
LEMMA IssuedRow ==
    ASSUME TableTypes, NEW v \in Issued
    PROVE  /\ v \in Vids /\ vouchers[v] \in VoucherRow
           /\ vouchers[v].tier \in Tiers /\ vouchers[v].left \in Nat
           /\ vouchers[v].status \in 1 .. 5
           /\ vouchers[v].late \in BOOLEAN /\ vouchers[v].over \in BOOLEAN
<1>1. v \in Vids /\ vouchers[v] \in VoucherRow
  BY DEF TableTypes, AnyRow, Issued, NoVoucher
<1>. QED
  BY <1>1 DEF VoucherRow, Active, Revoked

\* The row of an entry that exists.
LEMMA RecordedEntry ==
    ASSUME TableTypes, NEW a \in Recorded
    PROVE  /\ a \in Avails /\ availed[a] \in Availment
           /\ availed[a].voucher \in Vids /\ availed[a].total \in Amounts
           /\ availed[a].claim \in {"requested", "claimed", "cancelled"}
<1>1. a \in Avails /\ availed[a] \in Availment
  BY DEF TableTypes, AnyEntry, Recorded, NoAvail
<1>. QED
  BY <1>1 DEF Availment

\* The rows of a transaction that has its locks, by what it has seen of them.
LEMMA SeenRows ==
    ASSUME LockInv, NEW p \in Procs, op[p] # NoOp, ~Lacks(p)
    PROVE  /\ op[p].kind \in WritesVoucher =>
                 /\ VoucherOf(op[p]) \in Issued /\ seen[p].voucher \in VoucherRow
                 /\ SameRow(seen[p].voucher, vouchers[VoucherOf(op[p])])
                 /\ Row(VoucherOf(op[p])) \in Held(p)
           /\ op[p].kind \in OfAvail =>
                 /\ op[p].avail \in Recorded /\ seen[p].avail = availed[op[p].avail]
                 /\ VoucherOf(op[p]) = availed[op[p].avail].voucher
                 /\ AvailRow(op[p].avail) \in Held(p)
           /\ op[p].kind \in WritesWallet => seen[p].wallet = wallet /\ Wallet \in Held(p)
           /\ op[p].kind \in {"grant", "upgrade"} =>
                 view[p].tiers = TiersHeld /\ Member \in Held(p)
           /\ op[p].kind = "grant" => view[p].tier \in Tiers
<1>1. Current(p)
  BY DEF LockInv, SeenCurrent
<1>2. /\ op[p].kind \in WritesVoucher => Row(VoucherOf(op[p])) \in Held(p)
      /\ op[p].kind \in OfAvail => AvailRow(op[p].avail) \in Held(p)
      /\ op[p].kind \in WritesWallet => Wallet \in Held(p)
      /\ op[p].kind \in {"grant", "upgrade"} => Member \in Held(p)
  BY HoldsAll DEF LockInv
<1>3. op[p].kind \in OfAvail => op[p].avail \in Recorded /\ VoucherOf(op[p]) = availed[op[p].avail].voucher
  BY DEF LockInv, Refer, VoucherOf, OfAvail, OfVoucher
<1>4. op[p].kind \in WritesVoucher => VoucherOf(op[p]) \in Issued
  BY <1>3 DEF LockInv, Refer, VoucherOf, WritesVoucher, OfAvail, OfVoucher
<1>5. ASSUME op[p].kind \in WritesVoucher
      PROVE  seen[p].voucher \in VoucherRow
  <2>1. SameRow(seen[p].voucher, vouchers[VoucherOf(op[p])]) /\ VoucherOf(op[p]) \in Issued
    BY <1>1, <1>4, <1>5 DEF Current
  <2>2. seen[p].voucher.status # 0
    BY <2>1 DEF SameRow, Issued
  <2>. QED
    BY <2>2 DEF LockInv, ProcTypes, AnyRows, AnyRow, NoVoucher
<1>. QED
  BY <1>1, <1>2, <1>3, <1>4, <1>5 DEF Current
-----------------------------------------------------------------------------
(***************************************************************************)
(* What a step does to the rows as they are at that step.                  *)
(***************************************************************************)

Changed(v, left, status) ==
    \E r \in VoucherRow :
        /\ vouchers' = [vouchers EXCEPT ![v] = r]
        /\ r.tier = vouchers[v].tier /\ r.left = left /\ r.status = status

Moved(v, left) == Changed(v, left, IF left = 0 THEN FullyUsed ELSE Active)

Entered(a, v, n, pay, claims) ==
    \E e \in Availment :
        /\ availed' = [availed EXCEPT ![a] = e]
        /\ e.voucher = v /\ e.total = n /\ e.pay = pay /\ e.claim \in claims

LiveClaims == {"requested", "claimed"}

\* n pesos are taken out of v, for an entry or for good.
Takes(v, n, pay) ==
    /\ vouchers[v].status # Suspended
    /\ n <= vouchers[v].left /\ FromWallet(pay, n) <= wallet
    /\ Moved(v, vouchers[v].left - n)
    /\ wallet' = wallet - FromWallet(pay, n)
    /\ \/ pay = "wallet" /\ loose' = [loose EXCEPT ![v] = @ + n] /\ UNCHANGED availed
       \/ \E a \in Avails \ Recorded : Entered(a, v, n, pay, LiveClaims) /\ UNCHANGED loose
    /\ UNCHANGED credits

\* The entry a takes n pesos instead of what it took.
Changes(a, n, pay) ==
    LET e == availed[a]
        v == e.voucher
    IN /\ e.claim # "cancelled" /\ vouchers[v].status # Suspended
       /\ n <= vouchers[v].left + e.total
       /\ FromWallet(pay, n) <= wallet + FromWallet(e.pay, e.total)
       /\ Moved(v, vouchers[v].left + e.total - n)
       /\ wallet' = wallet + FromWallet(e.pay, e.total) - FromWallet(pay, n)
       /\ Entered(a, v, n, pay, LiveClaims)
       /\ UNCHANGED <<loose, credits>>

\* The entry a is given back.
GivesBack(a) ==
    LET e == availed[a]
        v == e.voucher
    IN /\ e.claim # "cancelled" /\ e.pay = "wallet"
       /\ \E s \in Active .. Revoked :
             /\ Changed(v, vouchers[v].left + e.total, s)
             /\ s # vouchers[v].status => vouchers[v].status = FullyUsed /\ s \in {Active, Expired}
       /\ wallet' = wallet + e.total
       /\ Entered(a, v, e.total, e.pay, {"cancelled"})
       /\ UNCHANGED <<loose, credits>>

\* The entry a is claimed, or a claim taken back.
Marks(a) ==
    /\ availed[a].claim # "cancelled"
    /\ Entered(a, availed[a].voucher, availed[a].total, availed[a].pay, LiveClaims)
    /\ UNCHANGED <<vouchers, loose, wallet, credits>>

Issues(t) ==
    /\ t \in Tiers /\ t \notin TiersHeld
    /\ \E v \in Vids \ Issued : vouchers' = [vouchers EXCEPT ![v] = NewVoucher(t)]
    /\ UNCHANGED <<availed, loose, wallet, credits>>

\* The status of v becomes s, or only its dates pass.
Turns(v, s) ==
    /\ Changed(v, vouchers[v].left, s)
    /\ s \in Active .. Revoked
    /\ s = Active => vouchers[v].status \in {Active, Suspended}
    /\ s = Suspended => vouchers[v].status \in {Active, Suspended}
    /\ UNCHANGED <<availed, loose, wallet, credits>>

Earns == /\ wallet' = wallet + 1 /\ credits' = credits + 1 /\ credits < MaxCredits
         /\ UNCHANGED <<vouchers, availed, loose>>

\* One of these, under the locks of L, or nothing.
Does(L) ==
    /\ account' \in [tier : Tiers, cd : BOOLEAN]
    /\ \/ \E v \in Issued, n \in Amounts, pay \in {"wallet", "cash"} :
              Row(v) \in L /\ Wallet \in L /\ Takes(v, n, pay)
       \/ \E a \in Recorded, n \in Amounts, pay \in {"wallet", "cash"} :
              /\ AvailRow(a) \in L /\ Row(availed[a].voucher) \in L /\ Wallet \in L
              /\ Changes(a, n, pay)
       \/ \E a \in Recorded :
              /\ AvailRow(a) \in L /\ Row(availed[a].voucher) \in L /\ Wallet \in L
              /\ GivesBack(a)
       \/ \E a \in Recorded : AvailRow(a) \in L /\ Marks(a)
       \/ \E t \in Tiers : Member \in L /\ Issues(t)
       \/ \E v \in Issued, s \in 1 .. 5 : Row(v) \in L /\ Turns(v, s)
       \/ Wallet \in L /\ Earns
       \/ UNCHANGED <<vouchers, availed, loose, wallet, credits>>

\* What an entry of n pesos leaves, when `back' pesos are given back first.
LEMMA PaidRow ==
    ASSUME TableTypes, NEW v \in Issued, NEW r \in VoucherRow, SameRow(r, vouchers[v]),
           NEW back \in Nat, NEW n \in Nat, n <= r.left + back,
           Write(v, Deduct(r, back, n))
    PROVE  Moved(v, vouchers[v].left + back - n)
<1>. DEFINE m == vouchers[v].left + back - n
            s == IF r.left + back = n THEN FullyUsed ELSE Active
            x == [Deduct(r, back, n) EXCEPT !.late = vouchers[v].late, !.over = vouchers[v].over]
<1>1. /\ vouchers[v].left \in Nat /\ vouchers[v].late \in BOOLEAN /\ vouchers[v].over \in BOOLEAN
  BY IssuedRow
<1>2. r.left = vouchers[v].left /\ r.tier = vouchers[v].tier
  BY DEF SameRow
<1>3. m \in Nat /\ s \in Active .. Revoked /\ s = IF m = 0 THEN FullyUsed ELSE Active
  BY <1>1, <1>2 DEF Active, Revoked, FullyUsed
<1>4. Deduct(r, back, n) = [r EXCEPT !.left = m, !.status = s, !.used = TRUE]
  BY <1>2 DEF Deduct
<1>5. vouchers' = [vouchers EXCEPT ![v] = x]
  BY DEF Write, SetVoucher
<1>. HIDE DEF m, s
<1>6. x \in VoucherRow /\ x.tier = r.tier /\ x.left = m /\ x.status = s
  BY <1>1, <1>3, <1>4 DEF VoucherRow
<1>. HIDE DEF x
<1>7. Moved(v, m)
  BY <1>2, <1>3, <1>5, <1>6 DEF Moved, Changed
<1>. QED
  BY <1>7 DEF m

\* A checkout takes from the voucher and the wallet of its last step.
LEMMA RedeemDoes ==
    ASSUME LockInv, NEW p \in Procs, Redeem(p)
    PROVE  /\ op[p] # NoOp /\ End(p) /\ UNCHANGED account
           /\ \E v \in Issued, n \in Amounts, pay \in {"wallet", "cash"} :
                 Row(v) \in Held(p) /\ Wallet \in Held(p) /\ Takes(v, n, pay)
<1>. DEFINE v == op[p].voucher
            r == seen[p].voucher
<1>1. op[p].kind = "redeem" /\ ~Lacks(p) /\ op[p] # NoOp
  BY DEF Redeem, Ready, NoOp
<1>2. /\ v \in Issued /\ r \in VoucherRow /\ SameRow(r, vouchers[v]) /\ Row(v) \in Held(p)
      /\ seen[p].wallet = wallet /\ Wallet \in Held(p)
  BY <1>1, SeenRows DEF WritesVoucher, WritesWallet, OfVoucher, VoucherOf
<1>3. r.status = Active
  BY DEF Redeem
<1>4. PICK n \in Amounts :
          /\ n <= r.left /\ n <= seen[p].wallet
          /\ Write(v, Deduct(r, 0, n))
          /\ wallet' = seen[p].wallet - n
          /\ \/ loose' = [loose EXCEPT ![v] = @ + n] /\ UNCHANGED availed
             \/ /\ Recorded # Avails
                /\ SetAvail(NewId(Avails, Recorded),
                       [voucher |-> v, total |-> n, pay |-> "wallet",
                        from |-> "member", claim |-> "requested", via |-> "request"])
                /\ UNCHANGED loose
  BY DEF Redeem
<1>5. End(p) /\ UNCHANGED <<account, credits>>
  BY DEF Redeem
<1>. HIDE DEF v, r
<1>6. vouchers[v] \in VoucherRow /\ vouchers[v].left \in Nat /\ v \in Vids
  BY <1>2, IssuedRow DEF LockInv
<1>7. n \in Nat /\ r.left = vouchers[v].left /\ vouchers[v].status # Suspended
  BY <1>2, <1>3, VoucherAssumption DEF SameRow, Active, Suspended
<1>8. Moved(v, vouchers[v].left - n)
  <2>1. n <= r.left + 0 /\ vouchers[v].left + 0 - n = vouchers[v].left - n
    BY <1>4, <1>6, <1>7
  <2>2. Moved(v, vouchers[v].left + 0 - n)
    BY <1>2, <1>4, <1>7, <2>1, PaidRow DEF LockInv
  <2>. QED
    BY <2>1, <2>2
<1>9. ASSUME Recorded # Avails,
             SetAvail(NewId(Avails, Recorded),
                 [voucher |-> v, total |-> n, pay |-> "wallet",
                  from |-> "member", claim |-> "requested", via |-> "request"])
      PROVE  \E a \in Avails \ Recorded : Entered(a, v, n, "wallet", LiveClaims)
  <2>1. NewId(Avails, Recorded) \in Avails \ Recorded
    BY <1>9, NewIdFresh DEF Recorded
  <2>2. [voucher |-> v, total |-> n, pay |-> "wallet",
         from |-> "member", claim |-> "requested", via |-> "request"] \in Availment
    BY <1>6 DEF Availment
  <2>. QED
    BY <1>9, <2>1, <2>2 DEF SetAvail, Entered, LiveClaims
<1>10. FromWallet("wallet", n) = n
  BY DEF FromWallet
<1>11. Takes(v, n, "wallet")
  BY <1>2, <1>4, <1>5, <1>7, <1>8, <1>9, <1>10 DEF Takes
<1>. QED
  BY <1>1, <1>2, <1>5, <1>11

\* So does what the cashier types in.
LEMMA CreateDoes ==
    ASSUME LockInv, NEW p \in Procs, Create(p)
    PROVE  /\ op[p] # NoOp /\ End(p) /\ UNCHANGED account
           /\ \E v \in Issued, n \in Amounts, pay \in {"wallet", "cash"} :
                 Row(v) \in Held(p) /\ Wallet \in Held(p) /\ Takes(v, n, pay)
<1>. DEFINE v == op[p].voucher
            r == seen[p].voucher
            a == NewId(Avails, Recorded)
<1>1. op[p].kind = "create" /\ ~Lacks(p) /\ op[p] # NoOp
  BY DEF Create, Ready, NoOp
<1>2. /\ v \in Issued /\ r \in VoucherRow /\ SameRow(r, vouchers[v]) /\ Row(v) \in Held(p)
      /\ seen[p].wallet = wallet /\ Wallet \in Held(p)
  BY <1>1, SeenRows DEF WritesVoucher, WritesWallet, OfVoucher, VoucherOf
<1>3. r.status # Suspended
  BY DEF Create, ManualAllowed
<1>4. PICK n \in Amounts, pay \in {"wallet", "cash"} :
          /\ n <= r.left /\ Recorded # Avails
          /\ FromWallet(pay, n) <= seen[p].wallet
          /\ Write(v, Deduct(r, 0, n))
          /\ wallet' = seen[p].wallet - FromWallet(pay, n)
          /\ SetAvail(a, [voucher |-> v, total |-> n, pay |-> pay,
                          from |-> "cashier", claim |-> "claimed", via |-> "manual"])
  BY DEF Create
<1>5. End(p) /\ UNCHANGED <<account, loose, credits>>
  BY DEF Create
<1>6. a \in Avails \ Recorded
  BY <1>4, NewIdFresh DEF Recorded
<1>. HIDE DEF v, r, a
<1>7. vouchers[v] \in VoucherRow /\ vouchers[v].left \in Nat /\ v \in Vids
  BY <1>2, IssuedRow DEF LockInv
<1>8. n \in Nat /\ r.left = vouchers[v].left /\ vouchers[v].status # Suspended
  BY <1>2, <1>3, VoucherAssumption DEF SameRow
<1>9. Moved(v, vouchers[v].left - n)
  <2>1. n <= r.left + 0 /\ vouchers[v].left + 0 - n = vouchers[v].left - n
    BY <1>4, <1>7, <1>8
  <2>2. Moved(v, vouchers[v].left + 0 - n)
    BY <1>2, <1>4, <1>8, <2>1, PaidRow DEF LockInv
  <2>. QED
    BY <2>1, <2>2
<1>10. Entered(a, v, n, pay, LiveClaims)
  <2>1. [voucher |-> v, total |-> n, pay |-> pay,
         from |-> "cashier", claim |-> "claimed", via |-> "manual"] \in Availment
    BY <1>7 DEF Availment
  <2>. QED
    BY <1>4, <2>1 DEF SetAvail, Entered, LiveClaims
<1>11. Takes(v, n, pay)
  BY <1>2, <1>4, <1>5, <1>6, <1>8, <1>9, <1>10 DEF Takes
<1>. QED
  BY <1>1, <1>2, <1>5, <1>11

\* A correction replaces what the entry took.
LEMMA EditDoes ==
    ASSUME LockInv, NEW p \in Procs, Edit(p)
    PROVE  /\ op[p] # NoOp /\ End(p) /\ UNCHANGED account
           /\ \E a \in Recorded, n \in Amounts, pay \in {"wallet", "cash"} :
                 /\ AvailRow(a) \in Held(p) /\ Row(availed[a].voucher) \in Held(p)
                 /\ Wallet \in Held(p) /\ Changes(a, n, pay)
<1>. DEFINE a == op[p].avail
            e == seen[p].avail
            r == seen[p].voucher
            v == availed[a].voucher
<1>1. op[p].kind = "edit" /\ ~Lacks(p) /\ op[p] # NoOp
  BY DEF Edit, Ready, NoOp
<1>2. /\ a \in Recorded /\ e = availed[a] /\ AvailRow(a) \in Held(p)
      /\ v \in Issued /\ r \in VoucherRow /\ SameRow(r, vouchers[v]) /\ Row(v) \in Held(p)
      /\ seen[p].wallet = wallet /\ Wallet \in Held(p)
  BY <1>1, SeenRows DEF WritesVoucher, WritesWallet, OfAvail
<1>3. r.status # Suspended /\ e.claim # "cancelled"
  BY DEF Edit, ManualAllowed
<1>4. PICK n \in Amounts, pay \in {"wallet", "cash"} :
          /\ n <= r.left + e.total
          /\ FromWallet(pay, n) <= seen[p].wallet + FromWallet(e.pay, e.total)
          /\ Write(e.voucher, Deduct(r, e.total, n))
          /\ wallet' = seen[p].wallet + FromWallet(e.pay, e.total) - FromWallet(pay, n)
          /\ SetAvail(a, [e EXCEPT !.total = n, !.pay = pay, !.via = "manual"])
  BY DEF Edit
<1>5. End(p) /\ UNCHANGED <<account, loose, credits>>
  BY DEF Edit
<1>6. e \in Availment /\ e.total \in Nat /\ e.claim \in LiveClaims
  BY <1>2, <1>3, RecordedEntry, VoucherAssumption DEF LockInv, LiveClaims
<1>7. v = e.voucher
  BY <1>2
<1>. HIDE DEF v, r, e, a
<1>8. n \in Nat /\ r.left = vouchers[v].left /\ vouchers[v].status # Suspended
  BY <1>2, <1>3, VoucherAssumption DEF SameRow
<1>9. Moved(v, vouchers[v].left + e.total - n)
  BY <1>2, <1>4, <1>6, <1>7, <1>8, PaidRow DEF LockInv
<1>10. Entered(a, v, n, pay, LiveClaims)
  <2>. DEFINE x == [e EXCEPT !.total = n, !.pay = pay, !.via = "manual"]
  <2>1. x \in Availment /\ x.voucher = e.voucher /\ x.claim = e.claim /\ x.total = n /\ x.pay = pay
    BY <1>6 DEF Availment
  <2>2. availed' = [availed EXCEPT ![a] = x]
    BY <1>4 DEF SetAvail
  <2>. HIDE DEF x
  <2>. QED
    BY <1>6, <1>7, <2>1, <2>2 DEF Entered
<1>11. Changes(a, n, pay)
  BY <1>2, <1>3, <1>4, <1>5, <1>7, <1>8, <1>9, <1>10 DEF Changes
<1>. QED
  BY <1>1, <1>2, <1>5, <1>7, <1>11

\* A claim and a claim taken back leave what the entry took.
LEMMA MarkDoes ==
    ASSUME LockInv, NEW p \in Procs, Claim(p) \/ Reopen(p)
    PROVE  /\ op[p] # NoOp /\ End(p) /\ UNCHANGED account
           /\ \E a \in Recorded : AvailRow(a) \in Held(p) /\ Marks(a)
<1>. DEFINE a == op[p].avail
            e == seen[p].avail
<1>1. op[p].kind \in {"claim", "reopen"} /\ ~Lacks(p) /\ op[p] # NoOp
  BY DEF Claim, Reopen, Ready, NoOp
<1>2. a \in Recorded /\ e = availed[a] /\ AvailRow(a) \in Held(p)
  BY <1>1, SeenRows DEF OfAvail
<1>3. PICK c \in LiveClaims : availed' = [availed EXCEPT ![a] = [e EXCEPT !.claim = c]]
  BY DEF Claim, Reopen, SetAvail, LiveClaims
<1>4. /\ e.claim # "cancelled" /\ End(p)
      /\ UNCHANGED <<account, vouchers, loose, wallet, credits>>
  BY DEF Claim, Reopen
<1>5. e \in Availment
  BY <1>2, RecordedEntry DEF LockInv
<1>. HIDE DEF a, e
<1>6. /\ [e EXCEPT !.claim = c] \in Availment
      /\ [e EXCEPT !.claim = c].voucher = e.voucher /\ [e EXCEPT !.claim = c].total = e.total
      /\ [e EXCEPT !.claim = c].pay = e.pay /\ [e EXCEPT !.claim = c].claim = c
  BY <1>5 DEF Availment, LiveClaims
<1>. DEFINE x == [e EXCEPT !.claim = c]
<1>7. /\ availed' = [availed EXCEPT ![a] = x] /\ x \in Availment
      /\ x.voucher = e.voucher /\ x.total = e.total /\ x.pay = e.pay /\ x.claim \in LiveClaims
  BY <1>3, <1>6
<1>. HIDE DEF x
<1>8. Entered(a, e.voucher, e.total, e.pay, LiveClaims)
  BY <1>7 DEF Entered
<1>. QED
  BY <1>1, <1>2, <1>4, <1>8 DEF Marks

\* A cancellation gives back what the entry took, as it is then.
LEMMA CancelDoes ==
    ASSUME LockInv, NEW p \in Procs, Cancel(p)
    PROVE  /\ op[p] # NoOp /\ End(p) /\ UNCHANGED account
           /\ \E a \in Recorded :
                 /\ AvailRow(a) \in Held(p) /\ Row(availed[a].voucher) \in Held(p)
                 /\ Wallet \in Held(p) /\ GivesBack(a)
<1>. DEFINE a == op[p].avail
            e == seen[p].avail
            r == seen[p].voucher
            v == availed[a].voucher
            s == IF r.status # FullyUsed THEN r.status ELSE IF r.late THEN Expired ELSE Active
            m == r.left + e.total
            x == [[r EXCEPT !.left = m, !.status = s]
                     EXCEPT !.late = vouchers[v].late, !.over = vouchers[v].over]
<1>1. op[p].kind = "cancel" /\ ~Lacks(p) /\ op[p] # NoOp
  BY DEF Cancel, Ready, NoOp
<1>2. /\ a \in Recorded /\ e = availed[a] /\ AvailRow(a) \in Held(p)
      /\ v \in Issued /\ r \in VoucherRow /\ SameRow(r, vouchers[v]) /\ Row(v) \in Held(p)
      /\ seen[p].wallet = wallet /\ Wallet \in Held(p)
  BY <1>1, SeenRows DEF WritesVoucher, WritesWallet, OfAvail
<1>3. e.claim = "requested" /\ e.pay = "wallet"
  BY DEF Cancel
<1>4. /\ wallet' = seen[p].wallet + e.total
      /\ availed' = [availed EXCEPT ![a] = [e EXCEPT !.claim = "cancelled"]]
      /\ End(p) /\ UNCHANGED <<account, loose, credits>>
  BY DEF Cancel, SetAvail
<1>5. vouchers' = [vouchers EXCEPT ![v] = x]
  BY <1>2 DEF Cancel, Write, SetVoucher
<1>6. e \in Availment /\ e.total \in Nat
  BY <1>2, RecordedEntry, VoucherAssumption DEF LockInv
<1>7. /\ vouchers[v] \in VoucherRow /\ vouchers[v].left \in Nat /\ v \in Vids
      /\ vouchers[v].late \in BOOLEAN /\ vouchers[v].over \in BOOLEAN
  BY <1>2, IssuedRow DEF LockInv
<1>8. r.status \in Active .. Revoked /\ r.left \in Nat
  BY <1>2 DEF VoucherRow
<1>9. m \in Nat /\ s \in Active .. Revoked
  BY <1>6, <1>8 DEF Active, Revoked, Expired
<1>10. s # r.status => r.status = FullyUsed /\ s \in {Active, Expired}
  OBVIOUS
<1>11. /\ r.left = vouchers[v].left /\ r.tier = vouchers[v].tier
       /\ r.status = vouchers[v].status /\ v = e.voucher
  BY <1>2 DEF SameRow
<1>12. m = vouchers[v].left + e.total
  BY <1>11
<1>. HIDE DEF a, e, r, v, s, m
<1>13. x \in VoucherRow /\ x.tier = r.tier /\ x.left = m /\ x.status = s
  BY <1>2, <1>7, <1>9 DEF VoucherRow
<1>. HIDE DEF x
<1>14. Changed(v, vouchers[v].left + e.total, s)
  BY <1>5, <1>11, <1>12, <1>13 DEF Changed
<1>15. Entered(a, v, e.total, e.pay, {"cancelled"})
  <2>. DEFINE y == [e EXCEPT !.claim = "cancelled"]
  <2>1. /\ y \in Availment /\ y.voucher = e.voucher /\ y.total = e.total /\ y.pay = e.pay
        /\ y.claim = "cancelled" /\ availed' = [availed EXCEPT ![a] = y]
    BY <1>4, <1>6 DEF Availment
  <2>. HIDE DEF y
  <2>. QED
    BY <1>11, <2>1 DEF Entered
<1>16. s # vouchers[v].status => vouchers[v].status = FullyUsed /\ s \in {Active, Expired}
  BY <1>10, <1>11
<1>17. wallet' = wallet + e.total
  BY <1>2, <1>4
<1>18. e.claim # "cancelled"
  BY <1>3
<1>19. GivesBack(a)
  BY <1>2, <1>3, <1>4, <1>9, <1>11, <1>14, <1>15, <1>16, <1>17, <1>18 DEF GivesBack
<1>. QED
  BY <1>1, <1>2, <1>4, <1>11, <1>19

\* A package without a voucher gets one.
LEMMA IssueDoes ==
    ASSUME LockInv, NEW t \in Tiers, NEW cd, Issue(t, cd, TiersHeld),
           UNCHANGED <<availed, loose, wallet, credits>>
    PROVE  Issues(t)
<1>1. t \notin TiersHeld /\ NewId(Vids, Issued) \in Vids \ Issued
  BY NewIdFresh DEF Issue, Issued
<1>2. vouchers' = [vouchers EXCEPT ![NewId(Vids, Issued)] = NewVoucher(t)]
  BY DEF Issue, SetVoucher
<1>. QED
  BY <1>1, <1>2 DEF Issues

\* Grants and upgrades, under the lock of the member.
LEMMA GrantDoes ==
    ASSUME LockInv, NEW p \in Procs, Grant(p) \/ Upgrade(p)
    PROVE  /\ op[p] # NoOp /\ End(p) /\ account' \in [tier : Tiers, cd : BOOLEAN]
           /\ \/ \E t \in Tiers : Member \in Held(p) /\ Issues(t)
              \/ UNCHANGED <<vouchers, availed, loose, wallet, credits>>
<1>1. op[p].kind \in {"grant", "upgrade"} /\ ~Lacks(p) /\ op[p] # NoOp
  BY DEF Grant, Upgrade, Ready, NoOp
<1>2. view[p].tiers = TiersHeld /\ Member \in Held(p)
  BY <1>1, SeenRows
<1>3. End(p) /\ UNCHANGED <<availed, loose, wallet, credits>>
  BY DEF Grant, Upgrade
<1>4. CASE Grant(p)
  <2>1. view[p].tier \in Tiers
    BY <1>1, <1>4, SeenRows DEF Grant, Ready
  <2>2. Issue(view[p].tier, view[p].cd, TiersHeld) /\ UNCHANGED account
    BY <1>2, <1>4 DEF Grant
  <2>. QED
    BY <1>1, <1>2, <1>3, <2>1, <2>2, IssueDoes DEF LockInv, TableTypes
<1>5. CASE Upgrade(p)
  <2>1. PICK t \in Tiers, cd \in BOOLEAN :
            /\ account' = [tier |-> t, cd |-> cd]
            /\ Issue(t, cd, TiersHeld) \/ UNCHANGED vouchers
    BY <1>2, <1>5 DEF Upgrade
  <2>. QED
    BY <1>1, <1>2, <1>3, <2>1, IssueDoes
<1>. QED
  BY <1>4, <1>5

\* A revocation changes the status and nothing else.
LEMMA RevokeDoes ==
    ASSUME LockInv, NEW p \in Procs, Revoke(p)
    PROVE  /\ op[p] # NoOp /\ End(p) /\ UNCHANGED account
           /\ \E v \in Issued, s \in 1 .. 5 : Row(v) \in Held(p) /\ Turns(v, s)
<1>. DEFINE v == op[p].voucher
            r == seen[p].voucher
            x == [[r EXCEPT !.left = r.left, !.status = Revoked]
                     EXCEPT !.late = vouchers[v].late, !.over = vouchers[v].over]
<1>1. op[p].kind = "revoke" /\ ~Lacks(p) /\ op[p] # NoOp
  BY DEF Revoke, Ready, NoOp
<1>2. v \in Issued /\ r \in VoucherRow /\ SameRow(r, vouchers[v]) /\ Row(v) \in Held(p)
  BY <1>1, SeenRows DEF WritesVoucher, OfVoucher, VoucherOf
<1>3. /\ vouchers[v] \in VoucherRow /\ v \in Vids
      /\ vouchers[v].late \in BOOLEAN /\ vouchers[v].over \in BOOLEAN
  BY <1>2, IssuedRow DEF LockInv
<1>4. /\ vouchers' = [vouchers EXCEPT ![v] = [[r EXCEPT !.status = Revoked]
                           EXCEPT !.late = vouchers[v].late, !.over = vouchers[v].over]]
      /\ End(p) /\ UNCHANGED <<account, availed, loose, wallet, credits>>
  BY DEF Revoke, Write, SetVoucher
<1>5. [r EXCEPT !.status = Revoked] = [r EXCEPT !.left = r.left, !.status = Revoked]
  BY <1>2 DEF VoucherRow
<1>6. r.left \in Nat /\ Revoked \in Active .. Revoked /\ Revoked = 5
  BY <1>2 DEF VoucherRow, Active, Revoked
<1>7. r.left = vouchers[v].left /\ r.tier = vouchers[v].tier
  BY <1>2 DEF SameRow
<1>8. vouchers' = [vouchers EXCEPT ![v] = x]
  BY <1>4, <1>5
<1>. HIDE DEF v, r
<1>9. x \in VoucherRow /\ x.tier = r.tier /\ x.left = r.left /\ x.status = Revoked
  BY <1>2, <1>3, <1>6 DEF VoucherRow
<1>. HIDE DEF x
<1>10. Changed(v, vouchers[v].left, Revoked)
  BY <1>7, <1>8, <1>9 DEF Changed
<1>11. Turns(v, Revoked)
  BY <1>4, <1>6, <1>10 DEF Turns, Active, Suspended, Revoked
<1>. QED
  BY <1>1, <1>2, <1>4, <1>6, <1>11

\* A settlement adds a peso to the wallet of its last step.
LEMMA CreditDoes ==
    ASSUME LockInv, NEW p \in Procs, Credit(p)
    PROVE  /\ op[p] # NoOp /\ End(p) /\ UNCHANGED account
           /\ Wallet \in Held(p) /\ Earns
<1>1. op[p].kind = "credit" /\ ~Lacks(p) /\ op[p] # NoOp
  BY DEF Credit, Ready, NoOp
<1>2. seen[p].wallet = wallet /\ Wallet \in Held(p)
  BY <1>1, SeenRows DEF WritesWallet
<1>. QED
  BY <1>1, <1>2 DEF Credit, Earns

\* Every transaction does one of these things under its own locks.
LEMMA TransactionDoes ==
    ASSUME LockInv, NEW p \in Procs, Transaction(p)
    PROVE  op[p] # NoOp /\ End(p) /\ Does(Held(p))
<1>1. account \in [tier : Tiers, cd : BOOLEAN]
  BY DEF LockInv, TableTypes
<1>2. CASE Redeem(p) \/ Create(p)
  BY <1>1, <1>2, RedeemDoes, CreateDoes DEF Does
<1>3. CASE Edit(p)
  BY <1>1, <1>3, EditDoes DEF Does
<1>4. CASE Claim(p) \/ Reopen(p)
  BY <1>1, <1>4, MarkDoes DEF Does
<1>5. CASE Cancel(p)
  BY <1>1, <1>5, CancelDoes DEF Does
<1>6. CASE Grant(p) \/ Upgrade(p)
  BY <1>6, GrantDoes DEF Does
<1>7. CASE Revoke(p)
  BY <1>1, <1>7, RevokeDoes DEF Does
<1>8. CASE Credit(p)
  BY <1>1, <1>8, CreditDoes DEF Does
<1>. QED
  BY <1>2, <1>3, <1>4, <1>5, <1>6, <1>7, <1>8 DEF Transaction

\* So do the statements of their own, if nobody has the row, and time.
LEMMA StatementDoes ==
    ASSUME LockInv, NEW v \in Vids, Suspend(v) \/ Unsuspend(v) \/ Sweep(v) \/ Age(v)
    PROVE  /\ UNCHANGED <<account, availed, loose, wallet, credits, op, step, view, seen>>
           /\ v \in Issued /\ \E s \in 1 .. 5 : Turns(v, s)
           /\ Free(Row(v), Procs) \/ SameRow(vouchers'[v], vouchers[v])
<1>1. vouchers \in [Vids -> AnyRow]
  BY DEF LockInv, TableTypes
<1>2. ASSUME NEW from \in {Active, Suspended}, NEW to \in {Active, Suspended, Expired},
             SetStatus(v, from, to)
      PROVE  /\ UNCHANGED <<account, availed, loose, wallet, credits, op, step, view, seen>>
             /\ v \in Issued /\ to \in 1 .. 5 /\ Turns(v, to)
             /\ Free(Row(v), Procs)
  <2>1. vouchers[v].status = from /\ from # 0 /\ to \in Active .. Revoked /\ to \in 1 .. 5
    BY <1>2 DEF SetStatus, Active, Suspended, Expired, Revoked
  <2>2. v \in Issued
    BY <2>1 DEF Issued
  <2>3. vouchers[v] \in VoucherRow
    BY <2>2, IssuedRow DEF LockInv
  <2>. DEFINE x == [vouchers[v] EXCEPT !.status = to]
  <2>4. /\ x \in VoucherRow /\ x.tier = vouchers[v].tier /\ x.left = vouchers[v].left
        /\ x.status = to /\ vouchers' = [vouchers EXCEPT ![v] = x]
    BY <1>2, <2>1, <2>3 DEF VoucherRow, SetStatus, SetVoucher
  <2>. HIDE DEF x
  <2>5. Changed(v, vouchers[v].left, to)
    BY <2>4 DEF Changed
  <2>. QED
    BY <1>2, <2>1, <2>2, <2>5 DEF Turns, SetStatus
<1>3. ASSUME Age(v)
      PROVE  /\ UNCHANGED <<account, availed, loose, wallet, credits, op, step, view, seen>>
             /\ v \in Issued /\ vouchers[v].status \in 1 .. 5 /\ Turns(v, vouchers[v].status)
             /\ SameRow(vouchers'[v], vouchers[v])
  <2>1. v \in Issued /\ UNCHANGED <<account, availed, loose, wallet, credits, op, step, view, seen>>
    BY <1>3 DEF Age
  <2>2. vouchers[v] \in VoucherRow /\ vouchers[v].status \in 1 .. 5
    BY <2>1, IssuedRow DEF LockInv
  <2>3. PICK x : /\ x \in {[vouchers[v] EXCEPT !.late = TRUE], [vouchers[v] EXCEPT !.over = TRUE]}
                 /\ vouchers' = [vouchers EXCEPT ![v] = x]
    BY <1>3 DEF Age, SetVoucher
  <2>4. /\ x \in VoucherRow /\ x.tier = vouchers[v].tier /\ x.left = vouchers[v].left
        /\ x.status = vouchers[v].status /\ x.used = vouchers[v].used
    BY <2>2, <2>3 DEF VoucherRow
  <2>5. Changed(v, vouchers[v].left, vouchers[v].status)
    BY <2>3, <2>4 DEF Changed
  <2>6. vouchers'[v] = x
    BY <1>1, <2>3
  <2>. QED
    BY <2>1, <2>2, <2>4, <2>5, <2>6 DEF Turns, SameRow, Active, Suspended, Revoked
<1>. QED
  BY <1>2, <1>3 DEF Suspend, Unsuspend, Sweep

\* So does every step that changes the tables.
LEMMA StepDoes ==
    ASSUME LockInv, [Next]_vars
    PROVE  \E L : Does(L)
<1>1. ASSUME UNCHANGED <<account, vouchers, availed, loose, wallet, credits>>
      PROVE  Does({})
  BY <1>1 DEF Does, LockInv, TableTypes
<1>2. ASSUME NEW p \in Procs, Start(p) \/ Lock(p) \/ Abort(p)
      PROVE  UNCHANGED <<account, vouchers, availed, loose, wallet, credits>>
  BY <1>2 DEF Start, Lock, Abort, Acquire, db
<1>3. ASSUME NEW p \in Procs, Transaction(p)
      PROVE  Does(Held(p))
  BY <1>3, TransactionDoes
<1>4. ASSUME NEW v \in Vids, Suspend(v) \/ Unsuspend(v) \/ Sweep(v) \/ Age(v)
      PROVE  Does({Row(v)})
  BY <1>4, StatementDoes DEF Does, LockInv, TableTypes
<1>. QED
  BY <1>1, <1>2, <1>3, <1>4 DEF Next, vars
-----------------------------------------------------------------------------
(***************************************************************************)
(* What others can rely on: a step changes a row only under its lock.      *)
(***************************************************************************)

Touches(L) ==
    /\ TableTypes'
    /\ Recorded \subseteq Recorded' /\ Issued \subseteq Issued'
    /\ \A a \in Recorded' : availed'[a].voucher \in Issued'
    /\ \A a \in Recorded : availed'[a].voucher = availed[a].voucher
    /\ \A v \in Issued : SameRow(vouchers'[v], vouchers[v]) \/ Row(v) \in L
    /\ \A a \in Recorded : availed'[a] = availed[a] \/ AvailRow(a) \in L
    /\ wallet' = wallet \/ Wallet \in L
    /\ TiersHeld' = TiersHeld \/ Member \in L

\* A change of one voucher leaves the others, and the package of that one.
LEMMA ChangedTouches ==
    ASSUME TableTypes, NEW v \in Issued, NEW left, NEW s, Changed(v, left, s)
    PROVE  /\ vouchers' \in [Vids -> AnyRow]
           /\ vouchers'[v] \in VoucherRow /\ vouchers'[v].left = left /\ vouchers'[v].status = s
           /\ \A u \in Vids : vouchers'[u].tier = vouchers[u].tier
           /\ \A u \in Vids : u # v => vouchers'[u] = vouchers[u]
           /\ Issued' = Issued /\ TiersHeld' = TiersHeld
<1>1. PICK r \in VoucherRow :
          /\ vouchers' = [vouchers EXCEPT ![v] = r]
          /\ r.tier = vouchers[v].tier /\ r.left = left /\ r.status = s
  BY DEF Changed
<1>2. vouchers \in [Vids -> AnyRow] /\ v \in Vids /\ vouchers[v].status # 0
  BY DEF TableTypes, Issued
<1>3. r.status # 0
  BY DEF VoucherRow, Active, Revoked
<1>4. /\ vouchers' \in [Vids -> AnyRow] /\ vouchers'[v] = r
      /\ \A u \in Vids : u # v => vouchers'[u] = vouchers[u]
  BY <1>1, <1>2 DEF AnyRow
<1>5. \A u \in Vids : vouchers'[u].tier = vouchers[u].tier
  BY <1>1, <1>4
<1>6. Issued' = Issued
  BY <1>2, <1>3, <1>4 DEF Issued
<1>7. TiersHeld' = TiersHeld
  BY <1>5, <1>6 DEF TiersHeld, Issued
<1>. QED
  BY <1>1, <1>4, <1>5, <1>6, <1>7

\* An entry that is written leaves the others.
LEMMA EnteredTouches ==
    ASSUME TableTypes, NEW a \in Avails, NEW v, NEW n, NEW pay, NEW claims,
           Entered(a, v, n, pay, claims)
    PROVE  /\ availed' \in [Avails -> AnyEntry]
           /\ availed'[a] \in Availment /\ availed'[a].voucher = v
           /\ availed'[a].total = n /\ availed'[a].pay = pay /\ availed'[a].claim \in claims
           /\ \A b \in Avails : b # a => availed'[b] = availed[b]
           /\ Recorded' = Recorded \cup {a}
<1>1. PICK e \in Availment :
          /\ availed' = [availed EXCEPT ![a] = e]
          /\ e.voucher = v /\ e.total = n /\ e.pay = pay /\ e.claim \in claims
  BY DEF Entered
<1>2. /\ availed' \in [Avails -> AnyEntry] /\ availed'[a] = e
      /\ \A b \in Avails : b # a => availed'[b] = availed[b]
  BY <1>1 DEF TableTypes, AnyEntry
<1>3. e.claim # "none"
  BY DEF Availment
<1>4. Recorded' = Recorded \cup {a}
  BY <1>2, <1>3 DEF Recorded
<1>. QED
  BY <1>1, <1>2, <1>4

\* A new voucher is a row.
LEMMA NewRow ==
    ASSUME NEW t \in Tiers
    PROVE  /\ NewVoucher(t) \in VoucherRow /\ NewVoucher(t).tier = t
           /\ NewVoucher(t).left = Face[t] /\ NewVoucher(t).status = Active
<1>1. Face[t] \in Nat
  BY VoucherAssumption
<1>2. NoVoucher \in [tier : Nat, left : Nat, status : Nat, used : BOOLEAN,
                     late : BOOLEAN, over : BOOLEAN]
  BY DEF NoVoucher
<1>3. t \in Nat
  BY VoucherAssumption
<1>. DEFINE x == [NoVoucher EXCEPT !.tier = t, !.left = Face[t], !.status = 1]
<1>4. /\ x \in [tier : Nat, left : Nat, status : Nat, used : BOOLEAN, late : BOOLEAN, over : BOOLEAN]
      /\ x.tier = t /\ x.left = Face[t] /\ x.status = 1
  BY <1>1, <1>2, <1>3
<1>5. NewVoucher(t) = x
  BY DEF NewVoucher, Active
<1>. HIDE DEF x
<1>6. x \in VoucherRow
  BY <1>1, <1>4 DEF VoucherRow, Active, Revoked
<1>. QED
  BY <1>4, <1>5, <1>6 DEF Active

\* A voucher that is issued changes no other and holds one more package.
LEMMA IssuesTouches ==
    ASSUME TableTypes, NEW t \in Tiers, Issues(t)
    PROVE  /\ vouchers' \in [Vids -> AnyRow]
           /\ \E v \in Vids \ Issued :
                 /\ vouchers' = [vouchers EXCEPT ![v] = NewVoucher(t)]
                 /\ vouchers'[v] = NewVoucher(t) /\ Issued' = Issued \cup {v}
                 /\ \A u \in Vids : u # v => vouchers'[u] = vouchers[u]
<1>1. PICK v \in Vids \ Issued : vouchers' = [vouchers EXCEPT ![v] = NewVoucher(t)]
  BY DEF Issues
<1>2. NewVoucher(t) \in VoucherRow /\ NewVoucher(t).status = 1
  BY NewRow DEF Active
<1>3. vouchers \in [Vids -> AnyRow]
  BY DEF TableTypes
<1>4. /\ vouchers' \in [Vids -> AnyRow] /\ vouchers'[v] = NewVoucher(t)
      /\ \A u \in Vids : u # v => vouchers'[u] = vouchers[u]
  BY <1>1, <1>2, <1>3 DEF AnyRow
<1>5. Issued' = Issued \cup {v}
  BY <1>2, <1>4 DEF Issued
<1>. QED
  BY <1>1, <1>4, <1>5

\* Whatever is done under the locks of L touches only the rows locked.
LEMMA DoesTouches ==
    ASSUME LockInv, NEW L, Does(L)
    PROVE  Touches(L)
<1>1. /\ TableTypes /\ \A a \in Recorded : availed[a].voucher \in Issued
      /\ Issued \subseteq Vids /\ Recorded \subseteq Avails
  BY DEF LockInv, Refer, Issued, Recorded
<1>2. /\ account' \in [tier : Tiers, cd : BOOLEAN]
      /\ wallet \in Nat /\ loose \in [Vids -> Nat] /\ credits \in 0 .. MaxCredits
      /\ vouchers \in [Vids -> AnyRow] /\ availed \in [Avails -> AnyEntry]
      /\ Amounts \subseteq Nat
  BY <1>1, VoucherAssumption DEF Does, TableTypes
<1>3. ASSUME NEW v \in Issued, NEW n \in Amounts, NEW pay \in {"wallet", "cash"},
             Row(v) \in L, Wallet \in L, Takes(v, n, pay)
      PROVE  Touches(L)
  <2>1. /\ vouchers' \in [Vids -> AnyRow] /\ Issued' = Issued /\ TiersHeld' = TiersHeld
        /\ \A u \in Vids : u # v => vouchers'[u] = vouchers[u]
    BY <1>1, <1>3, ChangedTouches DEF Takes, Moved
  <2>2. wallet' \in Nat /\ credits' = credits
    BY <1>2, <1>3 DEF Takes, FromWallet
  <2>3. CASE UNCHANGED availed /\ loose' = [loose EXCEPT ![v] = @ + n]
    <3>1. loose' \in [Vids -> Nat]
      <4>1. n \in Nat /\ v \in Vids /\ loose[v] + n \in Nat
        BY <1>1, <1>2
      <4>. QED
        BY <1>2, <2>3, <4>1
    <3>. QED
      BY <1>1, <1>2, <1>3, <2>1, <2>2, <2>3, <3>1 DEF Touches, TableTypes, SameRow, Recorded
  <2>4. ASSUME NEW a \in Avails \ Recorded, Entered(a, v, n, pay, LiveClaims), UNCHANGED loose
        PROVE  Touches(L)
    <3>1. /\ availed' \in [Avails -> AnyEntry] /\ availed'[a].voucher = v
          /\ \A b \in Avails : b # a => availed'[b] = availed[b]
          /\ Recorded' = Recorded \cup {a}
      BY <1>1, <2>4, EnteredTouches
    <3>. QED
      BY <1>1, <1>2, <1>3, <2>1, <2>2, <2>4, <3>1 DEF Touches, TableTypes, SameRow
  <2>. QED
    BY <1>3, <2>3, <2>4 DEF Takes
<1>4. ASSUME NEW a \in Recorded, NEW n \in Amounts, NEW pay \in {"wallet", "cash"},
             AvailRow(a) \in L, Row(availed[a].voucher) \in L, Wallet \in L, Changes(a, n, pay)
      PROVE  Touches(L)
  <2>. DEFINE v == availed[a].voucher
  <2>0. v \in Issued /\ availed[a].total \in Nat
    BY <1>1, <1>2, RecordedEntry
  <2>1. /\ vouchers' \in [Vids -> AnyRow] /\ Issued' = Issued /\ TiersHeld' = TiersHeld
        /\ \A u \in Vids : u # v => vouchers'[u] = vouchers[u]
    BY <1>1, <1>4, <2>0, ChangedTouches DEF Changes, Moved
  <2>2. wallet' \in Nat /\ credits' = credits /\ loose' = loose
    BY <1>2, <1>4, <2>0 DEF Changes, FromWallet
  <2>3. /\ availed' \in [Avails -> AnyEntry] /\ availed'[a].voucher = v
        /\ \A b \in Avails : b # a => availed'[b] = availed[b]
        /\ Recorded' = Recorded \cup {a}
    BY <1>1, <1>4, EnteredTouches DEF Changes
  <2>. HIDE DEF v
  <2>. QED
    BY <1>1, <1>2, <1>4, <2>0, <2>1, <2>2, <2>3 DEF Touches, TableTypes, SameRow, v
<1>5. ASSUME NEW a \in Recorded,
             AvailRow(a) \in L, Row(availed[a].voucher) \in L, Wallet \in L, GivesBack(a)
      PROVE  Touches(L)
  <2>. DEFINE v == availed[a].voucher
  <2>0. v \in Issued /\ availed[a].total \in Nat
    BY <1>1, <1>2, RecordedEntry
  <2>1. /\ vouchers' \in [Vids -> AnyRow] /\ Issued' = Issued /\ TiersHeld' = TiersHeld
        /\ \A u \in Vids : u # v => vouchers'[u] = vouchers[u]
    BY <1>1, <1>5, <2>0, ChangedTouches DEF GivesBack
  <2>2. wallet' \in Nat /\ credits' = credits /\ loose' = loose
    BY <1>2, <1>5, <2>0 DEF GivesBack
  <2>3. /\ availed' \in [Avails -> AnyEntry] /\ availed'[a].voucher = v
        /\ \A b \in Avails : b # a => availed'[b] = availed[b]
        /\ Recorded' = Recorded \cup {a}
    BY <1>1, <1>5, EnteredTouches DEF GivesBack
  <2>. HIDE DEF v
  <2>. QED
    BY <1>1, <1>2, <1>5, <2>0, <2>1, <2>2, <2>3 DEF Touches, TableTypes, SameRow, v
<1>6. ASSUME NEW a \in Recorded, AvailRow(a) \in L, Marks(a)
      PROVE  Touches(L)
  <2>1. /\ availed' \in [Avails -> AnyEntry] /\ availed'[a].voucher = availed[a].voucher
        /\ \A b \in Avails : b # a => availed'[b] = availed[b]
        /\ Recorded' = Recorded \cup {a}
    BY <1>1, <1>6, EnteredTouches DEF Marks
  <2>2. UNCHANGED <<vouchers, loose, wallet, credits>>
    BY <1>6 DEF Marks
  <2>. QED
    BY <1>1, <1>2, <1>6, <2>1, <2>2 DEF Touches, TableTypes, SameRow, Issued, TiersHeld
<1>7. ASSUME NEW t \in Tiers, Member \in L, Issues(t)
      PROVE  Touches(L)
  <2>1. PICK v \in Vids \ Issued :
            /\ vouchers'[v] = NewVoucher(t) /\ Issued' = Issued \cup {v}
            /\ \A u \in Vids : u # v => vouchers'[u] = vouchers[u]
    BY <1>1, <1>7, IssuesTouches
  <2>2. vouchers' \in [Vids -> AnyRow] /\ UNCHANGED <<availed, loose, wallet, credits>>
    BY <1>1, <1>7, IssuesTouches DEF Issues
  <2>. QED
    BY <1>1, <1>2, <1>7, <2>1, <2>2 DEF Touches, TableTypes, SameRow, Recorded
<1>8. ASSUME NEW v \in Issued, NEW s \in 1 .. 5, Row(v) \in L, Turns(v, s)
      PROVE  Touches(L)
  <2>1. /\ vouchers' \in [Vids -> AnyRow] /\ Issued' = Issued /\ TiersHeld' = TiersHeld
        /\ \A u \in Vids : u # v => vouchers'[u] = vouchers[u]
    BY <1>1, <1>8, ChangedTouches DEF Turns
  <2>2. UNCHANGED <<availed, loose, wallet, credits>>
    BY <1>8 DEF Turns
  <2>. QED
    BY <1>1, <1>2, <1>8, <2>1, <2>2 DEF Touches, TableTypes, SameRow, Recorded
<1>9. ASSUME Wallet \in L, Earns
      PROVE  Touches(L)
  <2>1. wallet' \in Nat /\ credits' \in 0 .. MaxCredits /\ UNCHANGED <<vouchers, availed, loose>>
    BY <1>2, <1>9, VoucherAssumption DEF Earns
  <2>. QED
    BY <1>1, <1>2, <1>9, <2>1 DEF Touches, TableTypes, SameRow, Recorded, Issued, TiersHeld
<1>10. ASSUME UNCHANGED <<vouchers, availed, loose, wallet, credits>>
       PROVE  Touches(L)
  BY <1>1, <1>2, <1>10 DEF Touches, TableTypes, SameRow, Recorded, Issued, TiersHeld
<1>. QED
  BY <1>3, <1>4, <1>5, <1>6, <1>7, <1>8, <1>9, <1>10 DEF Does
-----------------------------------------------------------------------------
\* The plan of a transaction stays, because entries keep their vouchers.
LEMMA PlanStays ==
    ASSUME LockInv, NEW q \in Procs, NEW L, Touches(L), op'[q] = op[q], step'[q] = step[q]
    PROVE  /\ op[q].kind \in OfVoucher \cup OfAvail => VoucherOf(op[q])' = VoucherOf(op[q])
           /\ Plan(op[q])' = Plan(op[q]) /\ Held(q)' = Held(q) /\ (Lacks(q) <=> Lacks(q)')
<1>1. op[q].kind \in OfVoucher \cup OfAvail => VoucherOf(op[q])' = VoucherOf(op[q])
  BY DEF LockInv, Refer, Touches, VoucherOf, OfVoucher, OfAvail
<1>2. op'[q] = op[q] /\ op[q] \in Operation \cup {NoOp}
  BY DEF LockInv, ProcTypes
<1>3. op[q].kind \in {"redeem", "create", "edit", "claim", "cancel", "reopen", "revoke", "grant",
                      "upgrade", "credit", "none"}
  BY <1>2, Kinds DEF OfVoucher, OfAvail, NoOp
<1>4. Plan(op[q])' = Plan(op[q])
  <2>1. CASE op[q].kind \in OfVoucher \cup OfAvail
    BY <1>1, <1>2, <2>1 DEF Plan, CancelLocks, OfVoucher, OfAvail, Income, Named, Row, AvailRow, Wallet, Member
  <2>2. CASE op[q].kind \notin OfVoucher \cup OfAvail
    BY <1>2, <1>3, <2>2 DEF Plan, OfVoucher, OfAvail, Income, Wallet, Member
  <2>. QED
    BY <2>1, <2>2
<1>. QED
  BY <1>1, <1>4 DEF Held, Lacks

\* A transaction keeps what it knows while others touch rows it has not locked.
LEMMA StaysCurrent ==
    ASSUME LockInv, NEW q \in Procs, NEW L, Touches(L), L \cap Held(q) = {},
           op'[q] = op[q], step'[q] = step[q], seen'[q] = seen[q], view'[q] = view[q]
    PROVE  /\ Held(q)' = Held(q)
           /\ ~Lacks(q)' => Current(q)'
<1>1. /\ op[q].kind \in OfVoucher \cup OfAvail => VoucherOf(op[q])' = VoucherOf(op[q])
      /\ Held(q)' = Held(q) /\ (Lacks(q) <=> Lacks(q)')
  BY PlanStays
<1>2. SUFFICES ASSUME ~Lacks(q)
               PROVE  Current(q)'
  BY <1>1
<1>3. CASE op[q] = NoOp
  BY <1>3 DEF Current, NoOp, WritesVoucher, WritesWallet, OfVoucher, OfAvail
<1>4. CASE op[q] # NoOp
  <2>1. /\ op[q].kind \in WritesVoucher =>
              /\ VoucherOf(op[q]) \in Issued /\ SameRow(seen[q].voucher, vouchers[VoucherOf(op[q])])
              /\ Row(VoucherOf(op[q])) \notin L
        /\ op[q].kind \in OfAvail =>
              /\ op[q].avail \in Recorded /\ seen[q].avail = availed[op[q].avail]
              /\ AvailRow(op[q].avail) \notin L
        /\ op[q].kind \in WritesWallet => seen[q].wallet = wallet /\ Wallet \notin L
        /\ op[q].kind \in {"grant", "upgrade"} => view[q].tiers = TiersHeld /\ Member \notin L
        /\ op[q].kind = "grant" => view[q].tier \in Tiers
    BY <1>2, <1>4, SeenRows
  <2>2. op[q].kind \in WritesVoucher => SameRow(seen'[q].voucher, vouchers'[VoucherOf(op[q])])
    BY <2>1 DEF Touches, SameRow
  <2>3. op[q].kind \in WritesVoucher => op[q].kind \in OfVoucher \cup OfAvail
    BY DEF WritesVoucher, OfVoucher, OfAvail
  <2>4. op[q].kind \in OfAvail => seen'[q].avail = availed'[op[q].avail]
    BY <2>1 DEF Touches
  <2>5. op[q].kind \in WritesWallet => seen'[q].wallet = wallet'
    BY <2>1 DEF Touches
  <2>6. op[q].kind \in {"grant", "upgrade"} => view'[q].tiers = TiersHeld'
    BY <2>1 DEF Touches
  <2>7. op'[q] = op[q] /\ view'[q] = view[q]
    OBVIOUS
  <2>8. op[q].kind \in WritesVoucher => SameRow(seen[q].voucher, vouchers[VoucherOf(op[q])])'
    BY <1>1, <2>2, <2>3, <2>7 DEF SameRow
  <2>. QED
    BY <2>1, <2>4, <2>5, <2>6, <2>7, <2>8 DEF Current
<1>. QED
  BY <1>3, <1>4
-----------------------------------------------------------------------------
(***************************************************************************)
(* LockInv holds at the start and is kept by every step.                   *)
(***************************************************************************)

\* There is a lowest package.
LEMMA MinTier == Min(Tiers) \in Tiers
<1>1. Tiers \subseteq Nat /\ Tiers # {} /\ IsFiniteSet(Tiers)
  BY VoucherAssumption
<1>2. PICK t \in Tiers : \A u \in Tiers : t <= u
  BY <1>1, Smallest
<1>. QED
  BY <1>2 DEF Min

\* The initial state.
LEMMA LockInit == Init => LockInv
<1>1. SUFFICES ASSUME Init
               PROVE  LockInv
  OBVIOUS
<1>2. PICK cd \in BOOLEAN, had \in SUBSET {NewId(Vids, {})} :
          /\ account = [tier |-> Min(Tiers), cd |-> cd]
          /\ vouchers = [v \in Vids |-> IF v \in had THEN NewVoucher(Min(Tiers)) ELSE NoVoucher]
          /\ availed = [a \in Avails |-> NoAvail]
          /\ loose = [v \in Vids |-> 0]
          /\ wallet = StartWallet /\ credits = 0
          /\ op = [p \in Procs |-> NoOp]
          /\ step = [p \in Procs |-> 0]
          /\ view = [p \in Procs |-> NoView]
          /\ seen = [p \in Procs |-> NoRows]
  BY <1>1 DEF Init
<1>3. TableTypes
  <2>1. vouchers \in [Vids -> AnyRow]
    BY <1>2, MinTier, NewRow DEF AnyRow
  <2>2. availed \in [Avails -> AnyEntry]
    BY <1>2 DEF AnyEntry
  <2>3. 0 \in 0 .. MaxCredits /\ StartWallet \in Nat
    BY VoucherAssumption
  <2>. QED
    BY <1>2, <2>1, <2>2, <2>3, MinTier DEF TableTypes
<1>4. ProcTypes
  <2>1. NoView \in AnyView /\ NoRows \in AnyRows
    BY DEF NoView, AnyView, NoRows, AnyRows, AnyRow, AnyEntry
  <2>. QED
    BY <1>2, <2>1 DEF ProcTypes
<1>5. Recorded = {}
  BY <1>2 DEF Recorded, NoAvail
<1>6. Refer
  BY <1>2, <1>5 DEF Refer, NoOp, OfVoucher, OfAvail
<1>7. Begun
  BY <1>2 DEF Begun
<1>8. \A p \in Procs : Held(p) = {}
  BY <1>2 DEF Held
<1>9. LocksApart
  BY <1>8 DEF LocksApart
<1>10. SeenCurrent
  BY <1>2 DEF SeenCurrent, Current, NoOp, WritesVoucher, WritesWallet, OfVoucher, OfAvail
<1>. QED
  BY <1>3, <1>4, <1>6, <1>7, <1>9, <1>10 DEF LockInv

\* A step of a transaction that ends keeps the invariant.
LEMMA EndKeeps ==
    ASSUME LockInv, NEW p \in Procs, op[p] # NoOp, End(p), Touches(Held(p))
    PROVE  LockInv'
<1>1. TableTypes'
  BY DEF Touches
<1>2. /\ op' = [op EXCEPT ![p] = NoOp] /\ step' = [step EXCEPT ![p] = 0]
      /\ view' = [view EXCEPT ![p] = NoView] /\ seen' = [seen EXCEPT ![p] = NoRows]
      /\ op \in [Procs -> Operation \cup {NoOp}] /\ step \in [Procs -> 0 .. 5]
      /\ view \in [Procs -> AnyView] /\ seen \in [Procs -> AnyRows]
  BY DEF End, LockInv, ProcTypes
<1>3. ProcTypes'
  <2>1. NoView \in AnyView /\ NoRows \in AnyRows
    BY DEF NoView, AnyView, NoRows, AnyRows, AnyRow, AnyEntry
  <2>. QED
    BY <1>2, <2>1 DEF ProcTypes
<1>4. /\ op'[p] = NoOp /\ step'[p] = 0 /\ view'[p] = NoView /\ seen'[p] = NoRows
      /\ \A q \in Procs : q # p => /\ op'[q] = op[q] /\ step'[q] = step[q]
                                   /\ view'[q] = view[q] /\ seen'[q] = seen[q]
  BY <1>2
<1>5. Refer'
  BY <1>4 DEF LockInv, Refer, Touches, NoOp, OfVoucher, OfAvail
<1>6. \A q \in Procs : q # p => /\ Held(q)' = Held(q) /\ Plan(op[q])' = Plan(op[q])
                                /\ (~Lacks(q)' => Current(q)')
  BY <1>4, PlanStays, StaysCurrent DEF LockInv, LocksApart
<1>7. Begun'
  BY <1>4, <1>6 DEF LockInv, Begun
<1>8. Held(p)' = {}
  BY <1>4 DEF Held
<1>9. LocksApart'
  BY <1>6, <1>8 DEF LockInv, LocksApart
<1>10. SeenCurrent'
  <2>1. Current(p)'
    BY <1>4 DEF Current, NoOp, WritesVoucher, WritesWallet, OfVoucher, OfAvail
  <2>. QED
    BY <1>6, <2>1 DEF SeenCurrent
<1>. QED
  BY <1>1, <1>3, <1>5, <1>7, <1>9, <1>10 DEF LockInv

\* So does a step of the tables that touches only rows that nobody has.
LEMMA OutsideKeeps ==
    ASSUME LockInv, NEW L, Touches(L), \A q \in Procs : L \cap Held(q) = {},
           UNCHANGED <<op, step, view, seen>>
    PROVE  LockInv'
<1>1. TableTypes' /\ ProcTypes'
  BY DEF Touches, LockInv, ProcTypes
<1>2. Refer'
  BY DEF LockInv, Refer, Touches
<1>3. \A q \in Procs : /\ Held(q)' = Held(q) /\ Plan(op[q])' = Plan(op[q])
                       /\ (~Lacks(q)' => Current(q)')
  BY PlanStays, StaysCurrent
<1>4. Begun'
  BY <1>3 DEF LockInv, Begun
<1>5. LocksApart'
  BY <1>3 DEF LockInv, LocksApart
<1>6. SeenCurrent'
  BY <1>3 DEF SeenCurrent
<1>. QED
  BY <1>1, <1>2, <1>4, <1>5, <1>6 DEF LockInv

\* What a transaction reads when its lock is granted.
LEMMA ReadsRows ==
    ASSUME TableTypes, Refer, NEW o \in Operation,
           o.kind \in OfVoucher => o.voucher \in Issued,
           o.kind \in OfAvail => o.avail \in Recorded
    PROVE  /\ View(o) \in AnyView /\ Rows(o) \in AnyRows
           /\ o.kind \in {"grant", "upgrade"} => View(o).tiers = TiersHeld
           /\ o.kind = "grant" => View(o).tier \in Tiers
           /\ o.kind \in WritesVoucher => Rows(o).voucher = vouchers[VoucherOf(o)]
           /\ o.kind \in OfAvail => Rows(o).avail = availed[o.avail]
           /\ o.kind \in WritesWallet => Rows(o).wallet = wallet
<1>1. TiersHeld \subseteq Tiers
  BY IssuedRow DEF TiersHeld
<1>2. account.tier \in Tiers /\ account.cd \in BOOLEAN
  BY DEF TableTypes
<1>3. View(o) \in AnyView
  BY <1>1, <1>2 DEF View, AnyView
<1>4. o.kind \in WritesVoucher => vouchers[VoucherOf(o)] \in AnyRow
  <2>1. o.kind \in OfVoucher => VoucherOf(o) \in Issued
    BY DEF VoucherOf
  <2>2. o.kind \in OfAvail => VoucherOf(o) \in Issued
    BY DEF VoucherOf, Refer, OfVoucher, OfAvail
  <2>3. o.kind \in WritesVoucher => VoucherOf(o) \in Vids
    BY <2>1, <2>2 DEF WritesVoucher, OfAvail, Issued
  <2>. QED
    BY <2>3 DEF TableTypes
<1>5. o.kind \in OfAvail => availed[o.avail] \in AnyEntry
  BY DEF TableTypes, Recorded
<1>6. wallet \in Nat /\ NoVoucher \in AnyRow /\ NoAvail \in AnyEntry
  BY DEF TableTypes, AnyRow, AnyEntry
<1>7. Rows(o) \in AnyRows
  BY <1>4, <1>5, <1>6 DEF Rows, AnyRows, WritesVoucher
<1>. QED
  BY <1>2, <1>3, <1>7 DEF View, Rows, WritesVoucher, WritesWallet

\* A lock that is granted keeps the invariant.
LEMMA AcquireKeeps ==
    ASSUME LockInv, NEW p \in Procs, NEW o \in Operation, NEW n \in 1 .. 4,
           op' = [op EXCEPT ![p] = o],
           o.kind \in OfVoucher => o.voucher \in Issued,
           o.kind \in OfAvail => o.avail \in Recorded,
           Held(p) = {Plan(o)[i] : i \in 1 .. (n - 1)}, n <= Len(Plan(o)),
           Acquire(p, o, n)
    PROVE  LockInv'
<1>1. /\ Free(Plan(o)[n], Procs \ {p}) /\ UNCHANGED <<account, vouchers, availed, loose, wallet, credits>>
      /\ op' = [op EXCEPT ![p] = o] /\ step' = [step EXCEPT ![p] = n]
      /\ seen' = [seen EXCEPT ![p] = IF n = Len(Plan(o)) THEN Rows(o) ELSE @]
      /\ view' = [view EXCEPT ![p] = IF n = ViewAt(o.kind) THEN View(o) ELSE @]
  BY DEF Acquire, db
<1>2. /\ op \in [Procs -> Operation \cup {NoOp}] /\ step \in [Procs -> 0 .. 5]
      /\ view \in [Procs -> AnyView] /\ seen \in [Procs -> AnyRows]
  BY DEF LockInv, ProcTypes
<1>3. TableTypes'
  BY <1>1 DEF LockInv, TableTypes
<1>4. /\ View(o) \in AnyView /\ Rows(o) \in AnyRows
  BY ReadsRows DEF LockInv
<1>5. /\ op'[p] = o /\ step'[p] = n
      /\ seen'[p] = IF n = Len(Plan(o)) THEN Rows(o) ELSE seen[p]
      /\ view'[p] = IF n = ViewAt(o.kind) THEN View(o) ELSE view[p]
      /\ \A q \in Procs : q # p => /\ op'[q] = op[q] /\ step'[q] = step[q]
                                   /\ view'[q] = view[q] /\ seen'[q] = seen[q]
  BY <1>1, <1>2
<1>6. ProcTypes'
  BY <1>1, <1>2, <1>4 DEF ProcTypes
<1>7. Refer'
  BY <1>1, <1>5 DEF LockInv, Refer, Recorded, Issued
<1>8. Touches({})
  BY <1>1, <1>3 DEF Touches, LockInv, Refer, Recorded, Issued, TiersHeld, SameRow
<1>9. \A q \in Procs : q # p => /\ Held(q)' = Held(q) /\ Plan(op[q])' = Plan(op[q])
                                /\ (~Lacks(q)' => Current(q)')
  BY <1>5, <1>8, PlanStays, StaysCurrent
<1>10. Plan(op[p])' = Plan(o)
  <2>1. VoucherOf(op[p])' = VoucherOf(o) /\ op'[p] = o
    BY <1>1, <1>5 DEF VoucherOf
  <2>2. o.kind \in {"redeem", "create", "edit", "claim", "cancel", "reopen", "revoke", "grant",
                   "upgrade", "credit"}
    BY Kinds DEF OfVoucher, OfAvail
  <2>. QED
    BY <2>1, <2>2 DEF Plan, CancelLocks, Income, Named, Row, AvailRow, Wallet, Member
<1>11. o # NoOp
  BY Kinds DEF NoOp, OfVoucher, OfAvail
<1>12. Begun'
  BY <1>5, <1>9, <1>10, <1>11 DEF LockInv, Begun
<1>13. Held(p)' = Held(p) \cup {Plan(o)[n]}
  <2>1. Held(p)' = {Plan(o)[i] : i \in 1 .. n}
    BY <1>5, <1>10 DEF Held
  <2>. QED
    BY <2>1
<1>14. LocksApart'
  BY <1>1, <1>9, <1>13 DEF LockInv, LocksApart, Free
<1>15. ~Lacks(p)' => Current(p)'
  <2>1. SUFFICES ASSUME n = Len(Plan(o))
                 PROVE  Current(p)'
    <3>1. Len(Plan(o)) \in 1 .. 4
      BY PlanLength
    <3>. QED
      BY <1>5, <1>10, <3>1 DEF Lacks
  <2>2. seen'[p] = Rows(o)
    BY <1>5, <2>1
  <2>3. o.kind \in {"grant", "upgrade"} => view'[p] = View(o)
    <3>1. o.kind \in {"grant", "upgrade"} => Len(Plan(o)) = 1
      BY Plans
    <3>2. o.kind \in {"grant", "upgrade"} => ViewAt(o.kind) = 1
      BY DEF ViewAt
    <3>. QED
      BY <1>5, <2>1, <3>1, <3>2
  <2>4. o.kind \in WritesVoucher => VoucherOf(op[p])' = VoucherOf(o)
    BY <1>1, <1>5 DEF VoucherOf
  <2>5. /\ o.kind \in {"grant", "upgrade"} => View(o).tiers = TiersHeld
        /\ o.kind = "grant" => View(o).tier \in Tiers
        /\ o.kind \in WritesVoucher => Rows(o).voucher = vouchers[VoucherOf(o)]
        /\ o.kind \in OfAvail => Rows(o).avail = availed[o.avail]
        /\ o.kind \in WritesWallet => Rows(o).wallet = wallet
    BY ReadsRows DEF LockInv
  <2>6. TiersHeld' = TiersHeld
    BY <1>1 DEF TiersHeld, Issued
  <2>. QED
    BY <1>1, <1>5, <2>2, <2>3, <2>4, <2>5, <2>6 DEF Current, SameRow
<1>16. SeenCurrent'
  BY <1>9, <1>15 DEF SeenCurrent
<1>. QED
  BY <1>3, <1>6, <1>7, <1>12, <1>14, <1>16 DEF LockInv

\* Every step keeps the invariant.
LEMMA LockStep == LockInv /\ [Next]_vars => LockInv'
<1>1. SUFFICES ASSUME LockInv, [Next]_vars
               PROVE  LockInv'
  OBVIOUS
<1>2. ASSUME NEW p \in Procs, Start(p)
      PROVE  LockInv'
  <2>1. PICK o \in Operation :
            /\ o.kind \in OfVoucher => o.voucher \in Issued
            /\ o.kind \in OfAvail => o.avail \in Recorded
            /\ op' = [op EXCEPT ![p] = o]
            /\ Acquire(p, o, 1)
    BY <1>2 DEF Start
  <2>2. step[p] = 0
    BY <1>1, <1>2 DEF Start, LockInv, Begun
  <2>3. Held(p) = {Plan(o)[i] : i \in 1 .. (1 - 1)}
    BY <2>2 DEF Held
  <2>4. 1 <= Len(Plan(o)) /\ 1 \in 1 .. 4
    BY PlanLength
  <2>. QED
    BY <1>1, <2>1, <2>3, <2>4, AcquireKeeps
<1>3. ASSUME NEW p \in Procs, Lock(p)
      PROVE  LockInv'
  <2>. DEFINE o == op[p]
              n == step[p] + 1
  <2>1. step[p] < Len(Plan(o)) /\ Acquire(p, o, n) /\ op' = op
    BY <1>3 DEF Lock, Lacks
  <2>2. o \in Operation \cup {NoOp} /\ op \in [Procs -> Operation \cup {NoOp}] /\ step[p] \in Nat
    BY <1>1 DEF LockInv, ProcTypes
  <2>3. o \in Operation
    <3>1. CASE o = NoOp
      <4>1. Plan(o) = <<>>
        BY <3>1, Plans DEF NoOp
      <4>. QED
        BY <2>1, <2>2, <4>1
    <3>. QED
      BY <2>2, <3>1
  <2>4. /\ o.kind \in OfVoucher => o.voucher \in Issued
        /\ o.kind \in OfAvail => o.avail \in Recorded
    BY <1>1 DEF LockInv, Refer
  <2>5. op' = [op EXCEPT ![p] = o]
    BY <2>1, <2>2
  <2>6. Len(Plan(o)) \in 1 .. 4
    BY <2>3, PlanLength
  <2>7. n \in 1 .. 4 /\ n <= Len(Plan(o)) /\ n - 1 = step[p]
    <3>. DEFINE length == Len(Plan(o))
                s == step[p]
    <3>1. s \in Nat /\ length \in 1 .. 4 /\ s < length
      BY <2>1, <2>2, <2>6
    <3>. HIDE DEF length, s
    <3>2. s + 1 \in 1 .. 4 /\ s + 1 <= length /\ (s + 1) - 1 = s
      BY <3>1
    <3>. QED
      BY <3>2 DEF length, s
  <2>8. Held(p) = {Plan(o)[i] : i \in 1 .. (n - 1)}
    BY <2>7 DEF Held
  <2>. HIDE DEF o, n
  <2>. QED
    BY <1>1, <2>1, <2>3, <2>4, <2>5, <2>7, <2>8, AcquireKeeps
<1>4. ASSUME NEW p \in Procs, Abort(p)
      PROVE  LockInv'
  <2>1. op[p] # NoOp /\ End(p) /\ UNCHANGED <<account, vouchers, availed, loose, wallet, credits>>
    BY <1>4 DEF Abort, db
  <2>2. Does(Held(p))
    BY <1>1, <2>1 DEF Does, LockInv, TableTypes
  <2>. QED
    BY <1>1, <2>1, <2>2, DoesTouches, EndKeeps
<1>5. ASSUME NEW p \in Procs, Transaction(p)
      PROVE  LockInv'
  BY <1>1, <1>5, TransactionDoes, DoesTouches, EndKeeps
<1>6. ASSUME NEW v \in Vids, Suspend(v) \/ Unsuspend(v) \/ Sweep(v) \/ Age(v)
      PROVE  LockInv'
  <2>1. /\ UNCHANGED <<account, availed, loose, wallet, credits, op, step, view, seen>>
        /\ v \in Issued /\ \E s \in 1 .. 5 : Turns(v, s)
        /\ Free(Row(v), Procs) \/ SameRow(vouchers'[v], vouchers[v])
    BY <1>1, <1>6, StatementDoes
  <2>2. Does({Row(v)})
    BY <1>1, <2>1 DEF Does, LockInv, TableTypes
  <2>3. Touches({Row(v)})
    BY <1>1, <2>2, DoesTouches
  <2>4. CASE Free(Row(v), Procs)
    <3>1. \A q \in Procs : {Row(v)} \cap Held(q) = {}
      BY <2>4 DEF Free
    <3>. QED
      BY <1>1, <2>1, <2>3, <3>1, OutsideKeeps
  <2>5. CASE SameRow(vouchers'[v], vouchers[v])
    <3>1. Touches({})
      <4>1. /\ \A u \in Issued : Row(u) \in {Row(v)} => u = v
            /\ \A a \in Recorded : AvailRow(a) \notin {Row(v)}
        BY DEF Row, AvailRow
      <4>2. TiersHeld' = TiersHeld
        BY <1>1, <2>1, ChangedTouches DEF Turns, LockInv
      <4>. QED
        BY <2>1, <2>3, <2>5, <4>1, <4>2 DEF Touches
    <3>. QED
      BY <1>1, <2>1, <3>1, OutsideKeeps
  <2>. QED
    BY <2>1, <2>4, <2>5
<1>7. ASSUME UNCHANGED vars
      PROVE  LockInv'
  <2>1. Does({})
    BY <1>1, <1>7 DEF Does, vars, LockInv, TableTypes
  <2>. QED
    BY <1>1, <1>7, <2>1, DoesTouches, OutsideKeeps DEF vars
<1>. QED
  BY <1>1, <1>2, <1>3, <1>4, <1>5, <1>6, <1>7 DEF Next

\* Locks are exclusive, and what a transaction with all its locks has read of
\* a row it writes is what the row still says.
THEOREM SeenStaysCurrent == Spec => []LockInv
<1>1. LockInv /\ [Next]_vars => LockInv'
  BY LockStep
<1>. QED
  BY LockInit, <1>1, PTL DEF Spec

\* One package has one voucher, in every state.
LEMMA OneVoucherStep ==
    ASSUME LockInv, OneVoucherPerTier, [Next]_vars
    PROVE  OneVoucherPerTier'
<1>1. ASSUME NEW L, Does(L)
      PROVE  OneVoucherPerTier'
  <2>0. TableTypes /\ (\A a \in Recorded : availed[a].voucher \in Issued) /\ Issued \subseteq Vids
    BY DEF LockInv, Refer, Issued
  <2>1. ASSUME Issued' = Issued, \A u \in Vids : vouchers'[u].tier = vouchers[u].tier
        PROVE  OneVoucherPerTier'
    BY <2>0, <2>1 DEF OneVoucherPerTier
  <2>2. ASSUME NEW v \in Issued, NEW left, NEW s, Changed(v, left, s)
        PROVE  OneVoucherPerTier'
    BY <2>0, <2>1, <2>2, ChangedTouches
  <2>3. ASSUME NEW t \in Tiers, Issues(t)
        PROVE  OneVoucherPerTier'
    <3>1. PICK v \in Vids \ Issued :
              /\ vouchers'[v] = NewVoucher(t) /\ Issued' = Issued \cup {v}
              /\ \A u \in Vids : u # v => vouchers'[u] = vouchers[u]
      BY <2>0, <2>3, IssuesTouches
    <3>2. vouchers'[v].tier = t /\ \A u \in Issued : vouchers[u].tier # t
      BY <2>3, <3>1, NewRow DEF Issues, TiersHeld
    <3>. QED
      BY <2>0, <3>1, <3>2 DEF OneVoucherPerTier
  <2>4. ASSUME UNCHANGED vouchers
        PROVE  OneVoucherPerTier'
    BY <2>4 DEF OneVoucherPerTier, Issued
  <2>5. ASSUME NEW v \in Issued, NEW n, NEW pay, Takes(v, n, pay)
        PROVE  OneVoucherPerTier'
    BY <2>2, <2>5 DEF Takes, Moved
  <2>6. ASSUME NEW a \in Recorded, NEW n, NEW pay, Changes(a, n, pay)
        PROVE  OneVoucherPerTier'
    BY <2>0, <2>2, <2>6 DEF Changes, Moved
  <2>7. ASSUME NEW a \in Recorded, GivesBack(a)
        PROVE  OneVoucherPerTier'
    BY <2>0, <2>2, <2>7 DEF GivesBack
  <2>8. ASSUME NEW v \in Issued, NEW s, Turns(v, s)
        PROVE  OneVoucherPerTier'
    BY <2>2, <2>8 DEF Turns
  <2>9. ASSUME (\E a \in Recorded : Marks(a)) \/ Earns \/ UNCHANGED vouchers
        PROVE  OneVoucherPerTier'
    BY <2>4, <2>9 DEF Marks, Earns
  <2>. QED
    BY <1>1, <2>3, <2>5, <2>6, <2>7, <2>8, <2>9 DEF Does
<1>. QED
  BY <1>1, StepDoes

\* No package has two vouchers, whatever grants and upgrades run at once.
THEOREM OneVoucherAPackage == Spec => []OneVoucherPerTier
<1>1. Init => OneVoucherPerTier
  BY DEF Init, OneVoucherPerTier, Issued, NoVoucher
<1>2. LockInv /\ OneVoucherPerTier /\ [Next]_vars => OneVoucherPerTier'
  BY OneVoucherStep
<1>. QED
  BY <1>1, <1>2, SeenStaysCurrent, PTL DEF Spec
-----------------------------------------------------------------------------
(***************************************************************************)
(* The sums.                                                               *)
(***************************************************************************)

\* What is summed are natural numbers over finite sets.
LEMMA SummedNat ==
    ASSUME TableTypes
    PROVE  /\ IsFiniteSet(Avails) /\ IsFiniteSet(Vids)
           /\ \A v : \A a \in Avails : Taken(v)[a] \in Nat
           /\ \A a \in Avails : Paid[a] \in Nat
           /\ \A v \in Vids : loose[v] \in Nat
<1>1. \A a \in Recorded : availed[a].total \in Nat
  BY RecordedEntry, VoucherAssumption
<1>. QED
  BY <1>1, VoucherAssumption DEF Taken, Paid, FromWallet, Live, TableTypes

\* When one entry and one voucher's checkouts change, the sums change by that.
LEMMA SumsChange ==
    ASSUME TableTypes, TableTypes', NEW a \in Avails,
           \A b \in Avails : b # a => availed'[b] = availed[b]
    PROVE  /\ \A v : SumFunctionOnSet(Taken(v)', Avails)
                       = SumFunctionOnSet(Taken(v), Avails) + Taken(v)'[a] - Taken(v)[a]
           /\ SumFunctionOnSet(Paid', Avails) = SumFunctionOnSet(Paid, Avails) + Paid'[a] - Paid[a]
<1>1. /\ IsFiniteSet(Avails)
      /\ \A v : \A b \in Avails : Taken(v)[b] \in Nat
      /\ \A b \in Avails : Paid[b] \in Nat
  BY SummedNat
<1>2. /\ \A v : \A b \in Avails : Taken(v)'[b] \in Nat
      /\ \A b \in Avails : Paid'[b] \in Nat
  <2>1. ASSUME NEW b \in Recorded'
        PROVE  availed'[b].total \in Nat
    <3>1. b \in Avails /\ availed'[b] \in AnyEntry /\ availed'[b].claim # "none"
      BY DEF TableTypes, Recorded
    <3>2. availed'[b] \in Availment
      BY <3>1 DEF AnyEntry, NoAvail
    <3>. QED
      BY <3>2, VoucherAssumption DEF Availment
  <2>. QED
    BY <2>1 DEF Taken, Paid, FromWallet, Live
<1>3. \A b \in Avails : b # a => (Live(b) <=> Live(b)')
  BY DEF Live, Recorded
<1>4. /\ \A v : \A b \in Avails : b # a => Taken(v)'[b] = Taken(v)[b]
      /\ \A b \in Avails : b # a => Paid'[b] = Paid[b]
  BY <1>3 DEF Taken, Paid
<1>5. ASSUME NEW v
      PROVE  SumFunctionOnSet(Taken(v)', Avails)
                 = SumFunctionOnSet(Taken(v), Avails) + Taken(v)'[a] - Taken(v)[a]
  <2>. DEFINE f == Taken(v)
              g == Taken(v)'
  <2>1. \A b \in Avails : f[b] \in Int /\ g[b] \in Int /\ (b # a => f[b] = g[b])
    BY <1>1, <1>2, <1>4
  <2>. HIDE DEF f, g
  <2>2. SumFunctionOnSet(g, Avails) = SumFunctionOnSet(f, Avails) + g[a] - f[a]
    BY <1>1, <2>1, SumChange
  <2>. QED
    BY <2>2 DEF f, g
<1>6. SumFunctionOnSet(Paid', Avails) = SumFunctionOnSet(Paid, Avails) + Paid'[a] - Paid[a]
  <2>. DEFINE f == Paid
              g == Paid'
  <2>1. \A b \in Avails : f[b] \in Int /\ g[b] \in Int /\ (b # a => f[b] = g[b])
    BY <1>1, <1>2, <1>4
  <2>. HIDE DEF f, g
  <2>2. SumFunctionOnSet(g, Avails) = SumFunctionOnSet(f, Avails) + g[a] - f[a]
    BY <1>1, <2>1, SumChange
  <2>. QED
    BY <2>2 DEF f, g
<1>. QED
  BY <1>5, <1>6

BalanceInv == BalancesReconcile /\ \A v \in Vids \ Issued : loose[v] = 0

\* An entry takes from, or gives back to, its voucher and the wallet.
Balanced(v, a) ==
    /\ Issued' = Issued /\ vouchers'[v].tier = vouchers[v].tier
    /\ \A u \in Vids : u # v => vouchers'[u] = vouchers[u]
    /\ \A b \in Avails : b # a => availed'[b] = availed[b]
    /\ a \in Recorded => availed[a].voucher = v
    /\ availed'[a].voucher = v
    /\ vouchers'[v].left = vouchers[v].left + Taken(v)[a] - Taken(v)'[a]
    /\ wallet' = wallet + Paid[a] - Paid'[a]
    /\ UNCHANGED <<loose, credits>>

\* Nothing is summed differently while the entries stay.
LEMMA SumsStay ==
    ASSUME UNCHANGED availed
    PROVE  (\A v : Taken(v)' = Taken(v)) /\ Paid' = Paid
<1>1. \A a : Live(a)' <=> Live(a)
  BY DEF Live, Recorded
<1>. QED
  BY <1>1 DEF Taken, Paid

\* The values of which the balances are made.
LEMMA SumTypes ==
    ASSUME TableTypes
    PROVE  /\ \A v \in Vids : loose[v] \in Nat /\ SumFunctionOnSet(Taken(v), Avails) \in Nat
           /\ SumFunctionOnSet(loose, Vids) \in Nat /\ SumFunctionOnSet(Paid, Avails) \in Nat
           /\ \A v \in Vids, a \in Avails : Taken(v)[a] <= SumFunctionOnSet(Taken(v), Avails)
           /\ \A v \in Vids, a \in Avails : Taken(v)[a] \in Nat
           /\ \A a \in Avails : Paid[a] \in Nat
<1>1. /\ IsFiniteSet(Avails) /\ IsFiniteSet(Vids)
      /\ \A v : \A a \in Avails : Taken(v)[a] \in Nat
      /\ \A a \in Avails : Paid[a] \in Nat
      /\ \A v \in Vids : loose[v] \in Nat
  BY SummedNat
<1>2. SumFunctionOnSet(loose, Vids) \in Nat /\ SumFunctionOnSet(Paid, Avails) \in Nat
  BY <1>1, SumNat
<1>3. ASSUME NEW v \in Vids
      PROVE  /\ SumFunctionOnSet(Taken(v), Avails) \in Nat
             /\ \A a \in Avails : Taken(v)[a] <= SumFunctionOnSet(Taken(v), Avails)
  <2>. DEFINE f == Taken(v)
  <2>1. \A a \in Avails : f[a] \in Nat
    BY <1>1
  <2>. HIDE DEF f
  <2>2. /\ SumFunctionOnSet(f, Avails) \in Nat
        /\ \A a \in Avails : f[a] <= SumFunctionOnSet(f, Avails)
    BY <1>1, <2>1, SumNat
  <2>. QED
    BY <2>2 DEF f
<1>. QED
  BY <1>1, <1>2, <1>3

\* Then every balance stays right.
LEMMA BalancedKeeps ==
    ASSUME LockInv, BalanceInv, TableTypes', NEW v \in Issued, NEW a \in Avails, Balanced(v, a)
    PROVE  BalanceInv'
<1>. DEFINE S(u) == SumFunctionOnSet(Taken(u), Avails)
            P == SumFunctionOnSet(Paid, Avails)
            O == SumFunctionOnSet(loose, Vids)
<1>1. TableTypes /\ Issued \subseteq Vids
  BY DEF LockInv, Issued
<1>2. /\ \A u \in Vids : loose[u] \in Nat /\ S(u) \in Nat
      /\ O \in Nat /\ P \in Nat
      /\ Taken(v)[a] \in Nat /\ Paid[a] \in Nat
  BY <1>1, SumTypes
<1>3. /\ \A u : S(u)' = S(u) + Taken(u)'[a] - Taken(u)[a]
      /\ P' = P + Paid'[a] - Paid[a]
  BY <1>1, SumsChange DEF Balanced
<1>4. Taken(v)'[a] \in Nat /\ Paid'[a] \in Nat
  <2>1. a \in Recorded' => availed'[a].total \in Nat
    <3>1. a \in Recorded' => availed'[a] \in Availment
      BY DEF TableTypes, AnyEntry, Recorded, NoAvail
    <3>. QED
      BY <3>1, VoucherAssumption DEF Availment
  <2>. QED
    BY <2>1 DEF Taken, Paid, FromWallet, Live
<1>5. \A u \in Vids : u # v => Taken(u)'[a] = 0 /\ Taken(u)[a] = 0
  BY DEF Balanced, Taken, Live
<1>6. \A u \in Vids : u # v => S(u)' = S(u)
  <2>. HIDE DEF S
  <2>1. ASSUME NEW u \in Vids, u # v
        PROVE  S(u)' = S(u)
    <3>1. S(u)' = S(u) + Taken(u)'[a] - Taken(u)[a] /\ S(u) \in Nat
      BY <1>2, <1>3
    <3>. QED
      BY <1>5, <2>1, <3>1
  <2>. QED
    BY <2>1
<1>7. /\ \A u \in Issued : vouchers[u].left + (loose[u] + S(u)) = Face[vouchers[u].tier]
      /\ wallet + (O + P) = StartWallet + credits
  BY DEF BalanceInv, BalancesReconcile, Spent, PaidByWallet
<1>8. O' = O /\ loose' = loose /\ credits' = credits
  BY DEF Balanced
<1>9. wallet' + (O' + P') = StartWallet + credits'
  <2>1. /\ wallet' = wallet + Paid[a] - Paid'[a] /\ wallet \in Nat /\ credits \in Nat
        /\ StartWallet \in Nat
    BY <1>1, VoucherAssumption DEF Balanced, TableTypes
  <2>. DEFINE x == Paid[a]
              y == Paid'[a]
              w == O
              z == P
  <2>2. /\ x \in Nat /\ y \in Nat /\ w \in Nat /\ z \in Nat
        /\ wallet' = wallet + x - y /\ wallet + (w + z) = StartWallet + credits
        /\ O' = w /\ P' = z + y - x
    BY <1>2, <1>3, <1>4, <1>7, <1>8, <2>1
  <2>. HIDE DEF x, y, w, z
  <2>3. (wallet + x - y) + (w + (z + y - x)) = wallet + (w + z)
    BY <2>1, <2>2
  <2>. QED
    BY <1>8, <2>2, <2>3
<1>10. vouchers'[v].left + (loose'[v] + S(v)') = Face[vouchers'[v].tier]
  <2>. DEFINE x == Taken(v)[a]
              y == Taken(v)'[a]
              z == S(v)
              m == vouchers[v].left
              w == loose[v]
  <2>1. /\ x \in Nat /\ y \in Nat /\ z \in Nat /\ m \in Nat /\ w \in Nat
        /\ vouchers'[v].left = m + x - y /\ S(v)' = z + y - x /\ loose'[v] = w
        /\ m + (w + z) = Face[vouchers[v].tier] /\ vouchers'[v].tier = vouchers[v].tier
    BY <1>1, <1>2, <1>3, <1>4, <1>7, <1>8, IssuedRow DEF Balanced
  <2>. HIDE DEF x, y, z, m, w, S
  <2>2. (m + x - y) + (w + (z + y - x)) = m + (w + z)
    BY <2>1
  <2>. QED
    BY <2>1, <2>2
<1>11. \A u \in Issued' : vouchers'[u].left + (loose'[u] + S(u)') = Face[vouchers'[u].tier]
  <2>. HIDE DEF S
  <2>. QED
    BY <1>1, <1>6, <1>7, <1>8, <1>10 DEF Balanced
<1>12. \A u \in Vids \ Issued' : loose'[u] = 0
  BY <1>8 DEF BalanceInv, Balanced
<1>. QED
  BY <1>9, <1>11, <1>12 DEF BalanceInv, BalancesReconcile, Spent, PaidByWallet

\* What an entry that is written counts for.
LEMMA EnteredSums ==
    ASSUME TableTypes, NEW a \in Avails, NEW v, NEW n, NEW pay, NEW claims,
           Entered(a, v, n, pay, claims)
    PROVE  /\ claims = LiveClaims => Taken(v)'[a] = n /\ Paid'[a] = FromWallet(pay, n)
           /\ claims = {"cancelled"} => Taken(v)'[a] = 0 /\ Paid'[a] = 0
<1>1. /\ a \in Recorded' /\ availed'[a].voucher = v /\ availed'[a].total = n
      /\ availed'[a].pay = pay /\ availed'[a].claim \in claims
  BY EnteredTouches
<1>2. claims = LiveClaims => Live(a)'
  BY <1>1 DEF LiveClaims, Live
<1>3. claims = {"cancelled"} => ~Live(a)'
  BY <1>1 DEF Live
<1>. QED
  BY <1>1, <1>2, <1>3 DEF Taken, Paid, FromWallet

\* What an entry counted for before.
LEMMA EntrySums ==
    ASSUME NEW a \in Avails
    PROVE  /\ a \notin Recorded => \A v : Taken(v)[a] = 0 /\ Paid[a] = 0
           /\ a \in Recorded /\ availed[a].claim # "cancelled" =>
                 /\ Taken(availed[a].voucher)[a] = availed[a].total
                 /\ Paid[a] = FromWallet(availed[a].pay, availed[a].total)
BY DEF Taken, Paid, Live

\* The balances stay right whatever is done.
LEMMA BalanceDoes ==
    ASSUME LockInv, BalanceInv, NEW L, Does(L)
    PROVE  BalanceInv'
<1>1. /\ TableTypes /\ TableTypes' /\ Issued \subseteq Vids /\ Recorded \subseteq Avails
      /\ \A a \in Recorded : availed[a].voucher \in Issued
  BY DoesTouches DEF Touches, LockInv, Refer, Issued, Recorded
<1>2. /\ wallet \in Nat /\ credits \in Nat /\ StartWallet \in Nat /\ Amounts \subseteq Nat
      /\ loose \in [Vids -> Nat]
  BY <1>1, VoucherAssumption DEF TableTypes
<1>3. ASSUME NEW v \in Issued, NEW n \in Amounts, NEW pay \in {"wallet", "cash"}, Takes(v, n, pay)
      PROVE  BalanceInv'
  <2>1. /\ Issued' = Issued /\ vouchers'[v].tier = vouchers[v].tier
        /\ \A u \in Vids : u # v => vouchers'[u] = vouchers[u]
        /\ vouchers'[v].left = vouchers[v].left - n
    BY <1>1, <1>3, ChangedTouches DEF Takes, Moved
  <2>2. wallet' = wallet - FromWallet(pay, n) /\ credits' = credits
    BY <1>3 DEF Takes
  <2>3. vouchers[v].left \in Nat /\ n \in Nat /\ FromWallet(pay, n) \in Nat
    BY <1>1, <1>2, IssuedRow DEF FromWallet
  <2>4. ASSUME NEW a \in Avails \ Recorded, Entered(a, v, n, pay, LiveClaims), UNCHANGED loose
        PROVE  BalanceInv'
    <3>1. /\ availed'[a].voucher = v /\ \A b \in Avails : b # a => availed'[b] = availed[b]
      BY <1>1, <2>4, EnteredTouches
    <3>2. /\ Taken(v)'[a] = n /\ Paid'[a] = FromWallet(pay, n)
          /\ Taken(v)[a] = 0 /\ Paid[a] = 0
      BY <1>1, <2>4, EnteredSums, EntrySums
    <3>3. /\ vouchers'[v].left = vouchers[v].left + Taken(v)[a] - Taken(v)'[a]
          /\ wallet' = wallet + Paid[a] - Paid'[a]
      BY <1>2, <2>1, <2>2, <2>3, <3>2
    <3>4. Balanced(v, a)
      BY <2>1, <2>2, <2>4, <3>1, <3>3 DEF Balanced
    <3>. QED
      BY <1>1, <3>4, BalancedKeeps
  <2>5. ASSUME pay = "wallet", loose' = [loose EXCEPT ![v] = @ + n], UNCHANGED availed
        PROVE  BalanceInv'
    <3>. DEFINE S(u) == SumFunctionOnSet(Taken(u), Avails)
                P == SumFunctionOnSet(Paid, Avails)
                O == SumFunctionOnSet(loose, Vids)
    <3>1. (\A u : S(u)' = S(u)) /\ P' = P
      BY <2>5, SumsStay
    <3>2. /\ loose'[v] = loose[v] + n /\ \A u \in Vids : u # v => loose'[u] = loose[u]
          /\ loose' \in [Vids -> Nat]
      BY <1>1, <1>2, <2>5 DEF TableTypes
    <3>3. O' = O + loose'[v] - loose[v]
      <4>1. \A u \in Vids : loose[u] \in Int /\ loose'[u] \in Int /\ (u # v => loose[u] = loose'[u])
        BY <1>2, <3>2
      <4>2. IsFiniteSet(Vids) /\ v \in Vids
        BY <1>1, VoucherAssumption
      <4>3. SumFunctionOnSet(loose', Vids) = SumFunctionOnSet(loose, Vids) + loose'[v] - loose[v]
        <5>. DEFINE g == loose'
        <5>1. \A u \in Vids : loose[u] \in Int /\ g[u] \in Int /\ (u # v => loose[u] = g[u])
          BY <4>1
        <5>. HIDE DEF g
        <5>2. SumFunctionOnSet(g, Vids) = SumFunctionOnSet(loose, Vids) + g[v] - loose[v]
          BY <4>2, <5>1, SumChange
        <5>. QED
          BY <5>2 DEF g
      <4>. QED
        BY <4>3
    <3>4. /\ \A u \in Vids : loose[u] \in Nat /\ S(u) \in Nat
          /\ O \in Nat /\ P \in Nat
      BY <1>1, SumTypes
    <3>5. /\ \A u \in Issued : vouchers[u].left + (loose[u] + S(u)) = Face[vouchers[u].tier]
          /\ wallet + (O + P) = StartWallet + credits
          /\ \A u \in Vids \ Issued : loose[u] = 0
      BY DEF BalanceInv, BalancesReconcile, Spent, PaidByWallet
    <3>6. wallet' = wallet - n
      BY <2>2, <2>5 DEF FromWallet
    <3>7. wallet' + (O' + P') = StartWallet + credits'
      <4>. DEFINE w == O
                  z == P
                  m == loose[v]
      <4>1. /\ w \in Nat /\ z \in Nat /\ m \in Nat /\ O' = w + (m + n) - m /\ P' = z
            /\ wallet + (w + z) = StartWallet + credits
        BY <1>1, <3>1, <3>2, <3>3, <3>4, <3>5
      <4>. HIDE DEF w, z, m
      <4>2. (wallet - n) + ((w + (m + n) - m) + z) = wallet + (w + z)
        BY <1>2, <2>3, <4>1
      <4>. QED
        BY <2>2, <3>6, <4>1, <4>2
    <3>8. vouchers'[v].left + (loose'[v] + S(v)') = Face[vouchers'[v].tier]
      <4>. DEFINE z == S(v)
                  m == loose[v]
                  k == vouchers[v].left
      <4>1. /\ z \in Nat /\ m \in Nat /\ k \in Nat /\ S(v)' = z /\ loose'[v] = m + n
            /\ vouchers'[v].left = k - n /\ k + (m + z) = Face[vouchers[v].tier]
        BY <1>1, <2>1, <2>3, <3>1, <3>2, <3>4, <3>5
      <4>. HIDE DEF z, m, k, S
      <4>2. (k - n) + ((m + n) + z) = k + (m + z)
        BY <2>3, <4>1
      <4>. QED
        BY <2>1, <4>1, <4>2
    <3>9. \A u \in Issued' : vouchers'[u].left + (loose'[u] + S(u)') = Face[vouchers'[u].tier]
      <4>. HIDE DEF S
      <4>. QED
        BY <1>1, <2>1, <3>1, <3>2, <3>5, <3>8
    <3>10. \A u \in Vids \ Issued' : loose'[u] = 0
      BY <2>1, <3>2, <3>5
    <3>. QED
      BY <3>7, <3>9, <3>10 DEF BalanceInv, BalancesReconcile, Spent, PaidByWallet
  <2>. QED
    BY <1>3, <2>4, <2>5 DEF Takes
<1>4. ASSUME NEW a \in Recorded, NEW n \in Amounts, NEW pay \in {"wallet", "cash"}, Changes(a, n, pay)
      PROVE  BalanceInv'
  <2>. DEFINE v == availed[a].voucher
              k == availed[a].total
              y == FromWallet(availed[a].pay, availed[a].total)
  <2>1. v \in Issued /\ k \in Nat /\ n \in Nat /\ FromWallet(pay, n) \in Nat /\ y \in Nat
    BY <1>1, <1>2, RecordedEntry DEF FromWallet
  <2>2. /\ Issued' = Issued /\ vouchers'[v].tier = vouchers[v].tier
        /\ \A u \in Vids : u # v => vouchers'[u] = vouchers[u]
        /\ vouchers'[v].left = vouchers[v].left + k - n
    BY <1>1, <1>4, <2>1, ChangedTouches DEF Changes, Moved
  <2>3. /\ availed'[a].voucher = v /\ \A b \in Avails : b # a => availed'[b] = availed[b]
        /\ Taken(v)'[a] = n /\ Paid'[a] = FromWallet(pay, n)
    BY <1>1, <1>4, EnteredTouches, EnteredSums DEF Changes
  <2>4. Taken(v)[a] = k /\ Paid[a] = y
    BY <1>1, <1>4, EntrySums DEF Changes
  <2>5. wallet' = wallet + y - FromWallet(pay, n) /\ UNCHANGED <<loose, credits>>
    BY <1>4 DEF Changes
  <2>. HIDE DEF v, k, y
  <2>6. Balanced(v, a)
    BY <2>2, <2>3, <2>4, <2>5 DEF Balanced, v
  <2>. QED
    BY <1>1, <2>1, <2>6, BalancedKeeps
<1>5. ASSUME NEW a \in Recorded, GivesBack(a)
      PROVE  BalanceInv'
  <2>. DEFINE v == availed[a].voucher
              k == availed[a].total
  <2>1. v \in Issued /\ k \in Nat /\ vouchers[v].left \in Nat
    BY <1>1, <1>2, RecordedEntry, IssuedRow
  <2>2. /\ Issued' = Issued /\ vouchers'[v].tier = vouchers[v].tier
        /\ \A u \in Vids : u # v => vouchers'[u] = vouchers[u]
        /\ vouchers'[v].left = vouchers[v].left + k
    BY <1>1, <1>5, <2>1, ChangedTouches DEF GivesBack
  <2>3. /\ availed'[a].voucher = v /\ \A b \in Avails : b # a => availed'[b] = availed[b]
        /\ Taken(v)'[a] = 0 /\ Paid'[a] = 0
    BY <1>1, <1>5, EnteredTouches, EnteredSums DEF GivesBack
  <2>4. Taken(v)[a] = k /\ Paid[a] = k
    BY <1>1, <1>5, EntrySums DEF GivesBack, FromWallet
  <2>5. wallet' = wallet + k /\ UNCHANGED <<loose, credits>>
    BY <1>5 DEF GivesBack
  <2>. HIDE DEF v, k
  <2>6. /\ vouchers'[v].left = vouchers[v].left + Taken(v)[a] - Taken(v)'[a]
        /\ wallet' = wallet + Paid[a] - Paid'[a]
    BY <1>2, <2>1, <2>2, <2>3, <2>4, <2>5
  <2>7. Balanced(v, a)
    BY <2>2, <2>3, <2>5, <2>6 DEF Balanced, v
  <2>. QED
    BY <1>1, <2>1, <2>7, BalancedKeeps
<1>6. ASSUME NEW a \in Recorded, Marks(a)
      PROVE  BalanceInv'
  <2>. DEFINE v == availed[a].voucher
              k == availed[a].total
              y == FromWallet(availed[a].pay, availed[a].total)
  <2>1. v \in Issued /\ k \in Nat /\ y \in Nat /\ vouchers[v].left \in Nat
    BY <1>1, <1>2, RecordedEntry, IssuedRow DEF FromWallet
  <2>2. UNCHANGED <<vouchers, loose, wallet, credits>> /\ Issued' = Issued
    BY <1>6 DEF Marks, Issued
  <2>3. /\ availed'[a].voucher = v /\ \A b \in Avails : b # a => availed'[b] = availed[b]
        /\ Taken(v)'[a] = k /\ Paid'[a] = y
    BY <1>1, <1>6, EnteredTouches, EnteredSums DEF Marks
  <2>4. Taken(v)[a] = k /\ Paid[a] = y
    BY <1>1, <1>6, EntrySums DEF Marks
  <2>. HIDE DEF v, k, y
  <2>6. /\ vouchers'[v].left = vouchers[v].left + Taken(v)[a] - Taken(v)'[a]
        /\ wallet' = wallet + Paid[a] - Paid'[a]
    BY <1>2, <2>1, <2>2, <2>3, <2>4
  <2>7. Balanced(v, a)
    BY <2>2, <2>3, <2>6 DEF Balanced, v
  <2>. QED
    BY <1>1, <2>1, <2>7, BalancedKeeps
<1>7. ASSUME NEW t \in Tiers, Issues(t)
      PROVE  BalanceInv'
  <2>1. PICK v \in Vids \ Issued :
            /\ vouchers'[v] = NewVoucher(t) /\ Issued' = Issued \cup {v}
            /\ \A u \in Vids : u # v => vouchers'[u] = vouchers[u]
    BY <1>1, <1>7, IssuesTouches
  <2>2. /\ \A u : Taken(u)' = Taken(u)
        /\ Paid' = Paid /\ UNCHANGED <<availed, loose, wallet, credits>>
    BY <1>7, SumsStay DEF Issues
  <2>3. \A a \in Avails : Taken(v)[a] = 0
    BY <1>1 DEF Taken, Live
  <2>4. SumFunctionOnSet(Taken(v), Avails) = 0
    <3>. DEFINE f == Taken(v)
    <3>1. \A a \in Avails : f[a] = 0
      BY <2>3
    <3>2. IsFiniteSet(Avails)
      BY VoucherAssumption
    <3>. HIDE DEF f
    <3>3. SumFunctionOnSet(f, Avails) = 0
      BY <3>1, <3>2, SumZero
    <3>. QED
      BY <3>3 DEF f
  <2>5. vouchers'[v].left + Spent(v) = Face[vouchers'[v].tier]
    <3>1. loose[v] = 0 /\ Face[t] \in Nat
      BY VoucherAssumption DEF BalanceInv
    <3>. QED
      BY <2>1, <2>4, <3>1, NewRow DEF Spent
  <2>6. (\A u : Spent(u)' = Spent(u)) /\ PaidByWallet' = PaidByWallet
    BY <2>2 DEF Spent, PaidByWallet
  <2>. QED
    BY <1>1, <2>1, <2>2, <2>5, <2>6 DEF BalanceInv, BalancesReconcile
<1>8. ASSUME NEW v \in Issued, NEW s, Turns(v, s)
      PROVE  BalanceInv'
  <2>1. /\ Issued' = Issued /\ \A u \in Vids : vouchers'[u].tier = vouchers[u].tier
        /\ \A u \in Vids : vouchers'[u].left = vouchers[u].left
    BY <1>1, <1>8, ChangedTouches DEF Turns
  <2>2. /\ \A u : Taken(u)' = Taken(u)
        /\ Paid' = Paid /\ UNCHANGED <<availed, loose, wallet, credits>>
    BY <1>8, SumsStay DEF Turns
  <2>3. (\A u : Spent(u)' = Spent(u)) /\ PaidByWallet' = PaidByWallet
    BY <2>2 DEF Spent, PaidByWallet
  <2>. QED
    BY <1>1, <2>1, <2>2, <2>3 DEF BalanceInv, BalancesReconcile
<1>9. ASSUME \/ Earns
             \/ UNCHANGED <<vouchers, availed, loose, wallet, credits>>
      PROVE  BalanceInv'
  <2>1. /\ UNCHANGED <<vouchers, availed, loose>>
        /\ \/ wallet' = wallet + 1 /\ credits' = credits + 1
           \/ wallet' = wallet /\ credits' = credits
    BY <1>9 DEF Earns
  <2>2. (\A u : Taken(u)' = Taken(u)) /\ Paid' = Paid /\ Issued' = Issued
    BY <2>1, SumsStay DEF Issued
  <2>3. (\A u : Spent(u)' = Spent(u)) /\ PaidByWallet' = PaidByWallet
    BY <2>1, <2>2 DEF Spent, PaidByWallet
  <2>4. PaidByWallet \in Nat /\ wallet + PaidByWallet = StartWallet + credits
    BY <1>1, SumTypes DEF PaidByWallet, BalanceInv, BalancesReconcile
  <2>5. wallet' + PaidByWallet = StartWallet + credits'
    BY <1>2, <2>1, <2>4
  <2>. QED
    BY <2>1, <2>2, <2>3, <2>5 DEF BalanceInv, BalancesReconcile
<1>. QED
  BY <1>3, <1>4, <1>5, <1>6, <1>7, <1>8, <1>9 DEF Does

\* At the start nothing is spent.
LEMMA BalanceInit == Init => BalanceInv
<1>1. SUFFICES ASSUME Init
               PROVE  BalanceInv
  OBVIOUS
<1>2. /\ \A v \in Issued : vouchers[v].left = Face[vouchers[v].tier] /\ vouchers[v].left \in Nat
      /\ availed = [a \in Avails |-> NoAvail] /\ loose = [v \in Vids |-> 0]
      /\ wallet = StartWallet /\ credits = 0
  <2>1. Face[Min(Tiers)] \in Nat
    BY MinTier, VoucherAssumption
  <2>. QED
    BY <1>1, <2>1, MinTier, NewRow DEF Init, Issued, NoVoucher
<1>3. IsFiniteSet(Avails) /\ IsFiniteSet(Vids) /\ StartWallet \in Nat
  BY VoucherAssumption
<1>4. SumFunctionOnSet(loose, Vids) = 0
  BY <1>2, <1>3, SumZero
<1>5. \A a \in Avails : ~Live(a)
  BY <1>2 DEF Live, Recorded, NoAvail
<1>6. SumFunctionOnSet(Paid, Avails) = 0
  <2>. DEFINE f == Paid
  <2>1. \A a \in Avails : f[a] = 0
    BY <1>5 DEF Paid
  <2>. HIDE DEF f
  <2>2. SumFunctionOnSet(f, Avails) = 0
    BY <1>3, <2>1, SumZero
  <2>. QED
    BY <2>2 DEF f
<1>7. ASSUME NEW v
      PROVE  SumFunctionOnSet(Taken(v), Avails) = 0
  <2>. DEFINE f == Taken(v)
  <2>1. \A a \in Avails : f[a] = 0
    BY <1>5 DEF Taken
  <2>. HIDE DEF f
  <2>2. SumFunctionOnSet(f, Avails) = 0
    BY <1>3, <2>1, SumZero
  <2>. QED
    BY <2>2 DEF f
<1>8. (\A v \in Vids : Spent(v) = 0) /\ PaidByWallet = 0
  BY <1>2, <1>4, <1>6, <1>7 DEF Spent, PaidByWallet
<1>. QED
  BY <1>2, <1>3, <1>8 DEF BalanceInv, BalancesReconcile, Issued

\* Every peso is accounted for, on the vouchers and in the wallet.
THEOREM EveryPesoAccounted == Spec => []BalancesReconcile
<1>1. LockInv /\ BalanceInv /\ [Next]_vars => BalanceInv'
  BY StepDoes, BalanceDoes
<1>2. BalanceInv => BalancesReconcile
  BY DEF BalanceInv
<1>. QED
  BY BalanceInit, <1>1, <1>2, SeenStaysCurrent, PTL DEF Spec

\* No voucher has more left than it was worth.
LEMMA LeftBounded ==
    ASSUME LockInv, BalanceInv, NEW v \in Issued
    PROVE  vouchers[v].left + Spent(v) = Face[vouchers[v].tier] /\ Spent(v) \in Nat
<1>1. v \in Vids /\ TableTypes
  BY DEF LockInv, Issued
<1>. QED
  BY <1>1, SumTypes DEF Spent, BalanceInv, BalancesReconcile

\* Types; in particular a voucher never has more left than its package is worth.
THEOREM TypeCorrect == Spec => []TypeOK
<1>1. ASSUME LockInv, BalanceInv
      PROVE  TypeOK
  <2>1. \A v \in Issued : vouchers[v].left <= Face[vouchers[v].tier]
    <3>1. ASSUME NEW v \in Issued
          PROVE  vouchers[v].left <= Face[vouchers[v].tier]
      <4>1. vouchers[v].left + Spent(v) = Face[vouchers[v].tier] /\ Spent(v) \in Nat
        BY <1>1, <3>1, LeftBounded
      <4>2. vouchers[v].left \in Nat
        BY <1>1, <3>1, IssuedRow DEF LockInv
      <4>. QED
        BY <4>1, <4>2
    <3>. QED
      BY <3>1
  <2>2. \A p \in Procs : view[p].tiers \subseteq Tiers
    BY <1>1 DEF LockInv, ProcTypes, AnyView
  <2>. QED
    BY <1>1, <2>1, <2>2 DEF TypeOK, LockInv, TableTypes, ProcTypes, AnyRow, AnyEntry, Refer, Begun
<1>2. LockInv /\ BalanceInv => TypeOK
  BY <1>1
<1>3. LockInv /\ BalanceInv /\ [Next]_vars => BalanceInv'
  BY StepDoes, BalanceDoes
<1>. QED
  BY BalanceInit, <1>2, <1>3, SeenStaysCurrent, PTL DEF Spec
-----------------------------------------------------------------------------
(***************************************************************************)
(* Transactions implement VoucherBook.                                     *)
(***************************************************************************)

\* The states of a voucher that has a row.
LEMMA States ==
    ASSUME NEW r, r.status \in 1 .. 5
    PROVE  /\ State(r) = "open" <=> r.status = Active
           /\ State(r) = "suspended" <=> r.status = Suspended
           /\ State(r) = "shut" <=> r.status \in {Expired, FullyUsed, Revoked}
           /\ State(r) \in {"open", "suspended", "shut"}
BY DEF State, Active, Suspended, Expired, FullyUsed, Revoked

\* The rows before and after a change, in the book.
LEMMA BookRow ==
    ASSUME TableTypes, NEW v \in Issued, NEW left, NEW s \in 1 .. 5, Changed(v, left, s)
    PROVE  /\ v \in Vids /\ TheBook[v].state \in {"open", "suspended", "shut"}
           /\ TheBook[v].left = vouchers[v].left /\ TheBook[v].tier = vouchers[v].tier
           /\ TheBook[v].state = State(vouchers[v])
           /\ TheBook' = [TheBook EXCEPT ![v] = [tier |-> TheBook[v].tier, left |-> left,
                                                 state |-> State([status |-> s])]]
<1>1. v \in Vids /\ vouchers[v].status \in 1 .. 5
  BY IssuedRow
<1>2. /\ vouchers'[v].left = left /\ vouchers'[v].status = s
      /\ vouchers'[v].tier = vouchers[v].tier
      /\ \A u \in Vids : u # v => vouchers'[u] = vouchers[u]
  BY <1>1, ChangedTouches
<1>3. State(vouchers'[v]) = State([status |-> s])
  BY <1>2 DEF State
<1>4. State(vouchers[v]) \in {"open", "suspended", "shut"}
  BY <1>1, States
<1>. QED
  BY <1>1, <1>2, <1>3, <1>4 DEF TheBook

\* The entry of a, live, in the book.
LEMMA LiveEntry ==
    ASSUME TableTypes, NEW a \in Recorded, availed[a].claim # "cancelled"
    PROVE  TheEntries[a] = [state |-> "live", voucher |-> availed[a].voucher,
                            taken |-> availed[a].total,
                            paid |-> FromWallet(availed[a].pay, availed[a].total)]
<1>1. a \in Avails /\ availed[a].claim \in {"requested", "claimed", "cancelled"}
  BY RecordedEntry
<1>. QED
  BY <1>1 DEF TheEntries, Written

\* An entry that is written, live, in the book.
LEMMA EnteredBooked ==
    ASSUME TableTypes, NEW a \in Avails, NEW v, NEW n, NEW pay, Entered(a, v, n, pay, LiveClaims)
    PROVE  TheEntries' = [TheEntries EXCEPT ![a] = Book!Entry(v, n, FromWallet(pay, n))]
<1>1. /\ availed'[a].voucher = v /\ availed'[a].total = n /\ availed'[a].pay = pay
      /\ availed'[a].claim \in LiveClaims
      /\ \A b \in Avails : b # a => availed'[b] = availed[b]
  BY EnteredTouches
<1>2. Written(availed'[a]) = [state |-> "live", voucher |-> v, taken |-> n,
                              paid |-> FromWallet(pay, n)]
  BY <1>1 DEF Written, LiveClaims
<1>. QED
  BY <1>1, <1>2 DEF TheEntries, Book!Entry

\* Money that is taken is taken in one step of the book.
LEMMA TakesBooked ==
    ASSUME LockInv, BalanceInv, NEW v \in Issued, NEW n \in Amounts,
           NEW pay \in {"wallet", "cash"}, Takes(v, n, pay)
    PROVE  \E t \in Tiers : \E m \in 1 .. Face[t] : Book!Take(v, m)
<1>1. TableTypes /\ v \in Vids /\ vouchers[v].left \in Nat /\ vouchers[v].tier \in Tiers
  BY IssuedRow DEF LockInv
<1>2. n \in Nat \ {0} /\ wallet \in Nat
  BY <1>1, VoucherAssumption DEF TableTypes
<1>3. vouchers[v].left <= Face[vouchers[v].tier] /\ Face[vouchers[v].tier] \in Nat
  <2>1. vouchers[v].left + Spent(v) = Face[vouchers[v].tier] /\ Spent(v) \in Nat
    BY LeftBounded
  <2>. QED
    BY <1>1, <2>1, VoucherAssumption
<1>4. n <= vouchers[v].left /\ FromWallet(pay, n) <= wallet /\ wallet' = wallet - FromWallet(pay, n)
  BY DEF Takes
<1>5. n \in 1 .. Face[vouchers[v].tier]
  BY <1>1, <1>2, <1>3, <1>4
<1>6. PICK s \in 1 .. 5 :
          /\ s = IF vouchers[v].left - n = 0 THEN FullyUsed ELSE Active
          /\ Changed(v, vouchers[v].left - n, s)
  BY DEF Takes, Moved, FullyUsed, Active
<1>7. /\ TheBook[v].left = vouchers[v].left /\ TheBook[v].state \in {"open", "suspended", "shut"}
      /\ TheBook[v].state = State(vouchers[v])
      /\ TheBook' = [TheBook EXCEPT ![v] = [tier |-> TheBook[v].tier, left |-> vouchers[v].left - n,
                                            state |-> State([status |-> s])]]
  BY <1>1, <1>6, BookRow
<1>8. TheBook[v].state \in {"open", "shut"}
  <2>1. vouchers[v].status # Suspended /\ vouchers[v].status \in 1 .. 5
    BY <1>1, IssuedRow DEF Takes
  <2>. QED
    BY <1>7, <2>1, States
<1>9. State([status |-> s]) = IF vouchers[v].left - n = 0 THEN "shut" ELSE "open"
  BY <1>6, States DEF FullyUsed, Active
<1>10. TheBook' = Book!Left(v, TheBook[v].left - n)
  BY <1>1, <1>7, <1>9 DEF Book!Left, TheBook
<1>11. FromWallet(pay, n) \in {0, n}
  BY DEF FromWallet
<1>12. CASE pay = "wallet" /\ UNCHANGED availed
  <2>1. FromWallet(pay, n) = n /\ UNCHANGED TheEntries
    BY <1>12 DEF FromWallet, TheEntries
  <2>2. Book!Take(v, n)
    BY <1>4, <1>7, <1>8, <1>10, <1>11, <2>1 DEF Book!Take
  <2>. QED
    BY <1>1, <1>5, <2>2
<1>13. ASSUME NEW a \in Avails \ Recorded, Entered(a, v, n, pay, LiveClaims)
       PROVE  Book!Take(v, n)
  <2>1. TheEntries[a] = [state |-> "none"]
    BY <1>13 DEF TheEntries, Written, Recorded
  <2>2. TheEntries' = [TheEntries EXCEPT ![a] = Book!Entry(v, n, FromWallet(pay, n))]
    BY <1>1, <1>13, EnteredBooked
  <2>. QED
    BY <1>4, <1>7, <1>8, <1>10, <1>11, <2>1, <2>2 DEF Book!Take, Book!NoEntry
<1>. QED
  BY <1>1, <1>5, <1>12, <1>13 DEF Takes

\* So is a correction.
LEMMA ChangesBooked ==
    ASSUME LockInv, BalanceInv, NEW a \in Recorded, NEW n \in Amounts,
           NEW pay \in {"wallet", "cash"}, Changes(a, n, pay)
    PROVE  \E t \in Tiers : \E m \in 1 .. Face[t] : Book!Change(a, m)
<1>. DEFINE e == availed[a]
            v == availed[a].voucher
            left == vouchers[v].left + e.total - n
<1>1. /\ TableTypes /\ a \in Avails /\ v \in Issued /\ e.total \in Nat
      /\ vouchers[v].left \in Nat /\ vouchers[v].tier \in Tiers /\ vouchers[v].status \in 1 .. 5
  BY RecordedEntry, IssuedRow, VoucherAssumption DEF LockInv, Refer
<1>2. n \in Nat \ {0} /\ wallet \in Nat /\ v \in Vids
  BY <1>1, VoucherAssumption DEF TableTypes, Issued
<1>3. /\ e.claim # "cancelled" /\ vouchers[v].status # Suspended
      /\ n <= vouchers[v].left + e.total
      /\ FromWallet(pay, n) <= wallet + FromWallet(e.pay, e.total)
      /\ Moved(v, left)
      /\ wallet' = wallet + FromWallet(e.pay, e.total) - FromWallet(pay, n)
      /\ Entered(a, v, n, pay, LiveClaims)
  BY DEF Changes
<1>4. n \in 1 .. Face[vouchers[v].tier]
  <2>1. vouchers[v].left + Spent(v) = Face[vouchers[v].tier] /\ Spent(v) \in Nat
    BY <1>1, LeftBounded
  <2>2. e.total <= SumFunctionOnSet(Taken(v), Avails)
    <3>1. Taken(v)[a] = e.total
      BY <1>1, <1>3, EntrySums
    <3>2. Taken(v)[a] <= SumFunctionOnSet(Taken(v), Avails)
      BY <1>1, <1>2, SumTypes
    <3>. QED
      BY <3>1, <3>2
  <2>3. e.total <= Spent(v)
    <3>1. loose[v] \in Nat /\ SumFunctionOnSet(Taken(v), Avails) \in Nat
      BY <1>1, <1>2, SumTypes
    <3>. QED
      BY <1>1, <2>2, <3>1 DEF Spent
  <2>4. Face[vouchers[v].tier] \in Nat
    BY <1>1, VoucherAssumption
  <2>. HIDE DEF e, v
  <2>. QED
    BY <1>1, <1>2, <1>3, <2>1, <2>3, <2>4
<1>5. PICK s \in 1 .. 5 : s = (IF left = 0 THEN FullyUsed ELSE Active) /\ Changed(v, left, s)
  BY <1>3 DEF Moved, FullyUsed, Active
<1>6. /\ TheBook[v].left = vouchers[v].left /\ TheBook[v].state = State(vouchers[v])
      /\ TheBook' = [TheBook EXCEPT ![v] = [tier |-> TheBook[v].tier, left |-> left,
                                            state |-> State([status |-> s])]]
  BY <1>1, <1>5, BookRow
<1>7. TheBook[v].state # "suspended"
  BY <1>1, <1>3, <1>6, States
<1>8. State([status |-> s]) = IF left = 0 THEN "shut" ELSE "open"
  BY <1>5, States DEF FullyUsed, Active
<1>9. TheEntries[a] = [state |-> "live", voucher |-> v, taken |-> e.total,
                       paid |-> FromWallet(e.pay, e.total)]
  BY <1>1, <1>3, LiveEntry
<1>10. TheEntries' = [TheEntries EXCEPT ![a] = Book!Entry(v, n, FromWallet(pay, n))]
  BY <1>1, <1>3, EnteredBooked
<1>11. FromWallet(pay, n) \in {0, n}
  BY DEF FromWallet
<1>. DEFINE b == TheEntries[a]
<1>12. /\ b.state = "live" /\ b.voucher = v /\ b.taken = e.total
       /\ b.paid = FromWallet(e.pay, e.total)
  BY <1>9
<1>13. TheBook' = Book!Left(v, left)
  BY <1>2, <1>6, <1>8 DEF Book!Left, TheBook
<1>14. left = TheBook[b.voucher].left + b.taken - n
  BY <1>6, <1>12
<1>. HIDE DEF e, v, left, b
<1>15. Book!Change(a, n)
  BY <1>3, <1>6, <1>7, <1>10, <1>11, <1>12, <1>13, <1>14 DEF Book!Change, Book!Live, b
<1>. QED
  BY <1>1, <1>4, <1>15

\* An entry is given back in one step of the book.
LEMMA GivesBackBooked ==
    ASSUME LockInv, NEW a \in Recorded, GivesBack(a)
    PROVE  Book!GiveBack(a)
<1>. DEFINE e == availed[a]
            v == availed[a].voucher
            left == vouchers[v].left + e.total
            b == TheEntries[a]
<1>1. /\ TableTypes /\ a \in Avails /\ v \in Issued /\ e.total \in Nat
      /\ vouchers[v].left \in Nat /\ vouchers[v].status \in 1 .. 5
  BY RecordedEntry, IssuedRow, VoucherAssumption DEF LockInv, Refer
<1>2. /\ e.claim # "cancelled" /\ e.pay = "wallet" /\ wallet' = wallet + e.total
      /\ Entered(a, v, e.total, e.pay, {"cancelled"})
  BY DEF GivesBack
<1>3. PICK s \in 1 .. 5 :
          /\ Changed(v, left, s)
          /\ s # vouchers[v].status => vouchers[v].status = FullyUsed /\ s \in {Active, Expired}
  BY DEF GivesBack, Active, Revoked
<1>4. /\ TheBook[v].left = vouchers[v].left /\ TheBook[v].state = State(vouchers[v]) /\ v \in Vids
      /\ TheBook' = [TheBook EXCEPT ![v] = [tier |-> TheBook[v].tier, left |-> left,
                                            state |-> State([status |-> s])]]
  BY <1>1, <1>3, BookRow
<1>5. b = [state |-> "live", voucher |-> v, taken |-> e.total, paid |-> e.total]
  <2>1. FromWallet(e.pay, e.total) = e.total
    BY <1>2 DEF FromWallet
  <2>. QED
    BY <1>1, <1>2, <2>1, LiveEntry
<1>6. b.state = "live" /\ b.voucher = v /\ b.taken = e.total /\ b.paid = e.total
  BY <1>5
<1>7. TheEntries' = [TheEntries EXCEPT ![a] = Book!Void]
  <2>1. /\ availed'[a].claim = "cancelled"
        /\ \A c \in Avails : c # a => availed'[c] = availed[c]
    BY <1>1, <1>2, EnteredTouches
  <2>2. Written(availed'[a]) = [state |-> "void"]
    BY <2>1 DEF Written
  <2>. QED
    BY <2>1, <2>2 DEF TheEntries, Book!Void
<1>. DEFINE state == State([status |-> s])
<1>8. /\ state \in {TheBook[v].state, "open"}
      /\ TheBook[v].state = "suspended" => state = "suspended"
  <2>1. CASE s = vouchers[v].status
    BY <1>4, <2>1 DEF State
  <2>2. CASE s # vouchers[v].status
    <3>1. vouchers[v].status = FullyUsed /\ s \in {Active, Expired}
      BY <1>3, <2>2
    <3>. QED
      BY <1>4, <3>1 DEF State, Active, Suspended, Expired, FullyUsed
  <2>. QED
    BY <2>1, <2>2
<1>9. TheBook' = [TheBook EXCEPT ![v].left = @ + b.taken, ![v].state = state]
  <2>. DEFINE f == TheBook
              k == b.taken
              r == f[v]
  <2>1. /\ f = [u \in Vids |-> f[u]] /\ v \in Vids
        /\ r = [tier |-> r.tier, left |-> r.left, state |-> r.state]
        /\ TheBook' = [f EXCEPT ![v] = [tier |-> r.tier, left |-> r.left + k, state |-> state]]
    BY <1>4, <1>6 DEF TheBook
  <2>. HIDE DEF f, k, b, e, left, state
  <2>2. [r EXCEPT !.left = r.left + k] = [tier |-> r.tier, left |-> r.left + k, state |-> r.state]
    BY <2>1
  <2>3. [[r EXCEPT !.left = r.left + k] EXCEPT !.state = state]
            = [tier |-> r.tier, left |-> r.left + k, state |-> state]
    <3>. DEFINE q == [r EXCEPT !.left = r.left + k]
    <3>1. q = [tier |-> r.tier, left |-> r.left + k, state |-> r.state]
      BY <2>2
    <3>. HIDE DEF q, r
    <3>2. [q EXCEPT !.state = state] = [tier |-> r.tier, left |-> r.left + k, state |-> state]
      BY <3>1
    <3>. QED
      BY <3>2 DEF q
  <2>. DEFINE x == [f EXCEPT ![v] = [r EXCEPT !.left = r.left + k]]
  <2>4. x = [f EXCEPT ![v].left = @ + k]
    BY <2>1
  <2>5. x[v] = [r EXCEPT !.left = r.left + k] /\ x = [u \in Vids |-> x[u]]
        /\ \A u \in Vids : u # v => x[u] = f[u]
    BY <2>1
  <2>6. [x EXCEPT ![v].state = state] = TheBook'
    <3>. HIDE DEF x, r
    <3>1. [x EXCEPT ![v].state = state] = [x EXCEPT ![v] = [x[v] EXCEPT !.state = state]]
      OBVIOUS
    <3>2. [x[v] EXCEPT !.state = state] = [tier |-> r.tier, left |-> r.left + k, state |-> state]
      BY <2>3, <2>5
    <3>. QED
      BY <2>1, <2>5, <3>1, <3>2
  <2>. QED
    BY <2>4, <2>6 DEF f, k
<1>. HIDE DEF e, v, left, b, state
<1>. QED
  BY <1>2, <1>6, <1>7, <1>8, <1>9 DEF Book!GiveBack, Book!Live, b

\* A package gets its voucher in one step of the book.
LEMMA IssuesBooked ==
    ASSUME LockInv, NEW t \in Tiers, Issues(t)
    PROVE  \E v \in Vids : Book!Issue(v, t)
<1>1. TableTypes /\ Issued \subseteq Vids
  BY DEF LockInv, Issued
<1>2. PICK v \in Vids \ Issued :
          /\ vouchers'[v] = NewVoucher(t)
          /\ \A u \in Vids : u # v => vouchers'[u] = vouchers[u]
  BY <1>1, IssuesTouches
<1>3. \A u \in Vids \ Issued : vouchers[u] = NoVoucher
  BY <1>1 DEF TableTypes, AnyRow, VoucherRow, Issued, Active, Revoked
<1>4. TheBook[v] = Book!Blank
  <2>0. NoVoucher.status = 0 /\ NoVoucher.tier = 0 /\ NoVoucher.left = 0
    BY DEF NoVoucher
  <2>1. State(NoVoucher) = "unissued"
    BY <2>0 DEF State, Active, Suspended
  <2>. QED
    BY <1>2, <1>3, <2>0, <2>1 DEF TheBook, Book!Blank
<1>5. \A u \in Vids : TheBook[u].tier # t
  <2>1. \A u \in Issued : vouchers[u].tier # t
    BY DEF Issues, TiersHeld
  <2>2. t # 0
    BY VoucherAssumption
  <2>. QED
    BY <1>3, <2>1, <2>2 DEF TheBook, NoVoucher
<1>6. State(NewVoucher(t)) = "open" /\ NewVoucher(t).tier = t /\ NewVoucher(t).left = Face[t]
  BY NewRow, States DEF Active
<1>7. TheBook' = [TheBook EXCEPT ![v] = Book!New(t)]
  BY <1>2, <1>6 DEF TheBook, Book!New
<1>8. UNCHANGED <<TheEntries, wallet>>
  BY DEF Issues, TheEntries
<1>. QED
  BY <1>4, <1>5, <1>7, <1>8 DEF Book!Issue

\* A change of status is one step of the book, or none.
LEMMA TurnsBooked ==
    ASSUME LockInv, NEW v \in Issued, NEW s \in 1 .. 5, Turns(v, s)
    PROVE  Book!Turn(v) \/ UNCHANGED <<TheBook, TheEntries, wallet>>
<1>1. TableTypes /\ v \in Vids /\ vouchers[v].status \in 1 .. 5
  BY IssuedRow DEF LockInv, Issued
<1>2. UNCHANGED <<TheEntries, wallet>>
  BY DEF Turns, TheEntries
<1>. DEFINE old == TheBook[v].state
            new == State([status |-> s])
<1>3. /\ TheBook[v].left = vouchers[v].left /\ old = State(vouchers[v])
      /\ TheBook' = [TheBook EXCEPT ![v] = [tier |-> TheBook[v].tier, left |-> TheBook[v].left,
                                            state |-> new]]
  BY <1>1, BookRow DEF Turns
<1>4. TheBook[v] = [tier |-> TheBook[v].tier, left |-> TheBook[v].left, state |-> old]
  BY <1>1 DEF TheBook
<1>5. /\ old \in {"open", "suspended", "shut"} /\ new \in {"open", "suspended", "shut"}
      /\ old = "shut" => new = "shut"
  <2>1. /\ s = Active => vouchers[v].status \in {Active, Suspended}
        /\ s = Suspended => vouchers[v].status \in {Active, Suspended}
    BY DEF Turns
  <2>. QED
    BY <1>1, <1>3, <2>1, States DEF Active, Suspended, Expired, FullyUsed, Revoked
<1>6. TheBook' = [TheBook EXCEPT ![v].state = new]
  BY <1>1, <1>3, <1>4 DEF TheBook
<1>7. new = old => TheBook' = TheBook
  BY <1>3, <1>4 DEF TheBook
<1>. HIDE DEF old, new
<1>. QED
  BY <1>2, <1>5, <1>6, <1>7 DEF Book!Turn, old

\* The book starts with at most one new voucher and no entries.
LEMMA BookInit == Init => Book!Init
<1>1. SUFFICES ASSUME Init
               PROVE  Book!Init
  OBVIOUS
<1>2. PICK had \in SUBSET {NewId(Vids, {})} :
          /\ vouchers = [v \in Vids |-> IF v \in had THEN NewVoucher(Min(Tiers)) ELSE NoVoucher]
          /\ availed = [a \in Avails |-> NoAvail] /\ wallet = StartWallet
  BY <1>1 DEF Init
<1>. DEFINE t == Min(Tiers)
<1>3. t \in Tiers
  BY MinTier
<1>4. /\ NewVoucher(t).tier = t /\ NewVoucher(t).left = Face[t] /\ State(NewVoucher(t)) = "open"
  BY <1>3, NewRow, States DEF Active
<1>5. State(NoVoucher) = "unissued" /\ NoVoucher.tier = 0 /\ NoVoucher.left = 0
  <2>1. NoVoucher.status = 0 /\ NoVoucher.tier = 0 /\ NoVoucher.left = 0
    BY DEF NoVoucher
  <2>2. State(NoVoucher) = "unissued"
    BY <2>1 DEF State, Active, Suspended
  <2>. QED
    BY <2>1, <2>2
<1>6. \A v \in Vids : TheBook[v] = IF v \in had THEN Book!New(t) ELSE Book!Blank
  BY <1>2, <1>4, <1>5 DEF TheBook, Book!New, Book!Blank
<1>7. TheBook \in [Vids -> {Book!Blank} \cup {Book!New(s) : s \in Tiers}]
  <2>1. TheBook = [v \in Vids |-> TheBook[v]]
    BY DEF TheBook
  <2>. QED
    BY <1>3, <1>6, <2>1
<1>8. \A u, v \in Vids : u # v /\ TheBook[u] = TheBook[v] => TheBook[u] = Book!Blank
  BY <1>2, <1>6
<1>9. TheEntries = [a \in Avails |-> Book!NoEntry]
  BY <1>2 DEF TheEntries, Written, NoAvail, Book!NoEntry
<1>. QED
  BY <1>2, <1>7, <1>8, <1>9, VoucherAssumption DEF Book!Init

\* Every step is a step of the book, or none.
LEMMA BookStep ==
    ASSUME LockInv, BalanceInv, [Next]_vars
    PROVE  [Book!Next]_(Book!vars)
<1>1. PICK L : Does(L)
  BY StepDoes
<1>2. Issued \subseteq Vids /\ Recorded \subseteq Avails
  BY DEF Issued, Recorded
<1>3. ASSUME NEW v \in Issued, NEW n \in Amounts, NEW pay \in {"wallet", "cash"}, Takes(v, n, pay)
      PROVE  Book!Next
  BY <1>2, <1>3, TakesBooked DEF Book!Next
<1>4. ASSUME NEW a \in Recorded, NEW n \in Amounts, NEW pay \in {"wallet", "cash"}, Changes(a, n, pay)
      PROVE  Book!Next
  BY <1>2, <1>4, ChangesBooked DEF Book!Next
<1>5. ASSUME NEW a \in Recorded, GivesBack(a)
      PROVE  Book!Next
  BY <1>2, <1>5, GivesBackBooked DEF Book!Next
<1>6. ASSUME NEW a \in Recorded, Marks(a)
      PROVE  UNCHANGED Book!vars
  <2>1. TableTypes /\ a \in Avails /\ availed[a].claim # "cancelled"
    BY <1>2, <1>6 DEF Marks, LockInv
  <2>. DEFINE e == availed[a]
  <2>2. TheEntries' = [TheEntries EXCEPT ![a] = Book!Entry(e.voucher, e.total, FromWallet(e.pay, e.total))]
    BY <1>6, <2>1, EnteredBooked DEF Marks
  <2>3. TheEntries[a] = Book!Entry(e.voucher, e.total, FromWallet(e.pay, e.total))
    BY <2>1, LiveEntry DEF Book!Entry
  <2>4. TheEntries = [b \in Avails |-> TheEntries[b]]
    BY DEF TheEntries
  <2>5. TheEntries' = TheEntries
    <3>. DEFINE x == Book!Entry(e.voucher, e.total, FromWallet(e.pay, e.total))
    <3>. HIDE DEF x
    <3>. QED
      BY <2>2, <2>3, <2>4
  <2>6. UNCHANGED <<TheBook, wallet>>
    BY <1>6 DEF Marks, TheBook
  <2>. QED
    BY <2>5, <2>6 DEF Book!vars
<1>7. ASSUME NEW t \in Tiers, Issues(t)
      PROVE  Book!Next
  BY <1>7, IssuesBooked DEF Book!Next
<1>8. ASSUME NEW v \in Issued, NEW s \in 1 .. 5, Turns(v, s)
      PROVE  Book!Next \/ UNCHANGED Book!vars
  BY <1>2, <1>8, TurnsBooked DEF Book!Next, Book!vars
<1>9. ASSUME Earns
      PROVE  Book!Next
  <2>1. wallet' = wallet + 1 /\ UNCHANGED <<TheBook, TheEntries>>
    BY <1>9 DEF Earns, TheBook, TheEntries
  <2>. QED
    BY <2>1 DEF Book!Next, Book!Earn
<1>10. ASSUME UNCHANGED <<vouchers, availed, wallet>>
       PROVE  UNCHANGED Book!vars
  BY <1>10 DEF Book!vars, TheBook, TheEntries
<1>. QED
  BY <1>1, <1>3, <1>4, <1>5, <1>6, <1>7, <1>8, <1>9, <1>10 DEF Does

\* The transactions, with their locks, snapshots and rows read earlier, behave
\* as if each were one step of VoucherBook.
THEOREM TransactionsAreAtomic == Spec => ImplementsBook
<1>1. LockInv /\ BalanceInv /\ [Next]_vars => BalanceInv'
  BY StepDoes, BalanceDoes
<1>2. LockInv /\ BalanceInv /\ [Next]_vars => [Book!Next]_(Book!vars)
  BY BookStep
<1>. QED
  BY BookInit, BalanceInit, <1>1, <1>2, SeenStaysCurrent, PTL DEF Spec, ImplementsBook, Book!Spec
-----------------------------------------------------------------------------
(***************************************************************************)
(* Deadlocks.                                                              *)
(***************************************************************************)

\* The order in which every operation takes its locks.
Rank(lock) ==
    CASE lock[1] \in {"nogatu_income_calc", "usertab"} -> 1
      [] lock[1] = "voucher_availmentstab"             -> 2
      [] lock[1] = "nogatu_voucher_availment"          -> 3
      [] lock[1] = "voucherstab"                       -> 4
      [] lock[1] = "payouttotaltab"                    -> 5

\* The ranks of the locks.
LEMMA Ranks ==
    /\ Rank(Income) = 1 /\ Rank(Member) = 1 /\ Rank(Wallet) = 5
    /\ \A x : Rank(AvailRow(x)) = 2 /\ Rank(Named(x)) = 3 /\ Rank(Row(x)) = 4
<1>1. Rank(Income) = 1
  BY DEF Rank, Income
<1>2. Rank(Member) = 1
  BY DEF Rank, Member
<1>3. Rank(Wallet) = 5
  BY DEF Rank, Wallet
<1>4. ASSUME NEW x
      PROVE  Rank(AvailRow(x)) = 2 /\ Rank(Named(x)) = 3 /\ Rank(Row(x)) = 4
  <2>1. AvailRow(x)[1] = "voucher_availmentstab" /\ Named(x)[1] = "nogatu_voucher_availment"
        /\ Row(x)[1] = "voucherstab"
    BY DEF AvailRow, Named, Row
  <2>. QED
    BY <2>1 DEF Rank
<1>. QED
  BY <1>1, <1>2, <1>3, <1>4

\* The locks of a plan rise.
LEMMA PlanRises ==
    ASSUME NEW o \in Operation, NEW i \in 1 .. Len(Plan(o)), NEW j \in 1 .. Len(Plan(o))
    PROVE  /\ Rank(Plan(o)[i]) \in 1 .. 5
           /\ i < j => Rank(Plan(o)[i]) < Rank(Plan(o)[j])
<1>. DEFINE P == Plan(o)
<1>1. o.kind \in {"redeem", "create", "edit", "claim", "cancel", "reopen", "revoke", "grant",
                  "upgrade", "credit"}
  BY Kinds DEF OfVoucher, OfAvail
<1>. HIDE DEF P
<1>. DEFINE length == Len(P)
<1>0. length \in 1 .. 4 /\ i \in 1 .. length /\ j \in 1 .. length
  BY PlanLength DEF P
<1>2. /\ Len(P) = 1 => i = 1 /\ j = 1
      /\ Len(P) = 2 => i \in {1, 2} /\ j \in {1, 2}
      /\ Len(P) = 3 => i \in {1, 2, 3} /\ j \in {1, 2, 3}
      /\ Len(P) = 4 => i \in {1, 2, 3, 4} /\ j \in {1, 2, 3, 4}
  <2>. HIDE DEF length
  <2>1. length = 1 => i = 1 /\ j = 1
    BY <1>0
  <2>2. length = 2 => i \in {1, 2} /\ j \in {1, 2}
    BY <1>0
  <2>3. length = 3 => i \in {1, 2, 3} /\ j \in {1, 2, 3}
    BY <1>0
  <2>4. length = 4 => i \in {1, 2, 3, 4} /\ j \in {1, 2, 3, 4}
    BY <1>0
  <2>. QED
    BY <2>1, <2>2, <2>3, <2>4 DEF length
<1>3. CASE o.kind = "redeem"
  <2>1. P = <<Income, Row(VoucherOf(o)), Wallet>>
    BY <1>3, Plans DEF P
  <2>. QED
    BY <1>2, <2>1, Ranks DEF P
<1>4. CASE o.kind = "create"
  <2>1. P = <<Named(VoucherOf(o)), Row(VoucherOf(o)), Wallet>>
    BY <1>4, Plans DEF P
  <2>. QED
    BY <1>2, <2>1, Ranks DEF P
<1>5. CASE o.kind = "edit"
  <2>1. P = <<AvailRow(o.avail), Named(VoucherOf(o)), Row(VoucherOf(o)), Wallet>>
    BY <1>5, Plans DEF P
  <2>. QED
    BY <1>2, <2>1, Ranks DEF P
<1>6. CASE o.kind = "cancel"
  <2>1. P = <<Income, AvailRow(o.avail), Row(VoucherOf(o)), Wallet>>
    BY <1>6, Plans DEF P
  <2>. QED
    BY <1>2, <2>1, Ranks DEF P
<1>7. CASE o.kind = "reopen"
  <2>1. P = <<Income, AvailRow(o.avail)>>
    BY <1>7, Plans DEF P
  <2>. QED
    BY <1>2, <2>1, Ranks DEF P
<1>8. CASE o.kind = "revoke"
  <2>1. P = <<Member, Row(VoucherOf(o))>>
    BY <1>8, Plans DEF P
  <2>. QED
    BY <1>2, <2>1, Ranks DEF P
<1>9. CASE o.kind = "credit"
  <2>1. P = <<Income, Wallet>>
    BY <1>9, Plans DEF P
  <2>. QED
    BY <1>2, <2>1, Ranks DEF P
<1>10. CASE o.kind \in {"claim", "grant", "upgrade"}
  <2>1. P = <<AvailRow(o.avail)>> \/ P = <<Member>>
    BY <1>10, Plans DEF P
  <2>. QED
    BY <1>2, <2>1, Ranks DEF P
<1>. QED
  BY <1>1, <1>3, <1>4, <1>5, <1>6, <1>7, <1>8, <1>9, <1>10

\* Who is waited for, and waits, waits for a higher lock.
LEMMA WaitsRise ==
    ASSUME ProcTypes, NEW p \in Procs, NEW q \in Procs, WaitsFor(p, q), Lacks(q)
    PROVE  /\ Rank(NextLock(p)) \in 1 .. 5 /\ Rank(NextLock(q)) \in 1 .. 5
           /\ Rank(NextLock(p)) < Rank(NextLock(q))
<1>1. ASSUME NEW r \in Procs, Lacks(r)
      PROVE  /\ op[r] \in Operation /\ step[r] \in Nat
             /\ step[r] + 1 \in 1 .. Len(Plan(op[r])) /\ step[r] < Len(Plan(op[r]))
  <2>1. op[r] \in Operation \cup {NoOp} /\ step[r] \in Nat /\ step[r] < Len(Plan(op[r]))
    BY <1>1 DEF ProcTypes, Lacks
  <2>2. op[r] \in Operation
    <3>1. CASE op[r] = NoOp
      <4>1. Plan(op[r]) = <<>>
        BY <3>1, Plans DEF NoOp
      <4>. QED
        BY <2>1, <4>1
    <3>. QED
      BY <2>1, <3>1
  <2>3. Len(Plan(op[r])) \in 1 .. 4
    BY <2>2, PlanLength
  <2>. DEFINE length == Len(Plan(op[r]))
              s == step[r]
  <2>4. s \in Nat /\ length \in 1 .. 4 /\ s < length
    BY <2>1, <2>3
  <2>. HIDE DEF length, s
  <2>5. s + 1 \in 1 .. length
    BY <2>4
  <2>. QED
    BY <2>1, <2>2, <2>5 DEF length, s
<1>2. Lacks(p) /\ NextLock(p) \in Held(q)
  BY DEF WaitsFor
<1>3. PICK i \in 1 .. step[q] : NextLock(p) = Plan(op[q])[i]
  BY <1>2 DEF Held
<1>4. op[q] \in Operation /\ step[q] + 1 \in 1 .. Len(Plan(op[q])) /\ i \in 1 .. Len(Plan(op[q]))
      /\ i < step[q] + 1
  BY <1>1, <1>3
<1>5. /\ Rank(Plan(op[q])[i]) \in 1 .. 5 /\ Rank(Plan(op[q])[step[q] + 1]) \in 1 .. 5
      /\ Rank(Plan(op[q])[i]) < Rank(Plan(op[q])[step[q] + 1])
  BY <1>4, PlanRises
<1>. QED
  BY <1>3, <1>5 DEF NextLock

\* No set of transactions waits for itself only.
THEOREM NoDeadlock == Spec => []NoWaitCycle
<1>1. ASSUME LockInv
      PROVE  NoWaitCycle
  <2>1. SUFFICES ASSUME NEW S \in SUBSET Procs, S # {},
                        \A p \in S : \E q \in S : WaitsFor(p, q)
                 PROVE  FALSE
    BY DEF NoWaitCycle
  <2>. DEFINE R(p) == Rank(NextLock(p))
  <2>2. \A p \in S : \E q \in S : R(p) \in 1 .. 5 /\ R(q) \in 1 .. 5 /\ R(p) < R(q)
    <3>1. \A p \in S : Lacks(p)
      BY <2>1 DEF WaitsFor
    <3>. QED
      BY <1>1, <2>1, <3>1, WaitsRise DEF LockInv
  <2>. HIDE DEF R
  <2>3. \A p \in S : R(p) \in 1 .. 5 /\ R(p) # 5
    BY <2>2
  <2>4. \A p \in S : R(p) # 4
    BY <2>2, <2>3
  <2>5. \A p \in S : R(p) # 3
    BY <2>2, <2>3, <2>4
  <2>6. \A p \in S : R(p) # 2
    BY <2>2, <2>3, <2>4, <2>5
  <2>. QED
    BY <2>1, <2>2, <2>3, <2>4, <2>5, <2>6
<1>2. LockInv => NoWaitCycle
  BY <1>1
<1>. QED
  BY <1>2, SeenStaysCurrent, PTL DEF Spec
=============================================================================
