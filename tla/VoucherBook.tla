---------------------------- MODULE VoucherBook ----------------------------
(***************************************************************************)
(* What the vouchers of a member promise, whatever runs at once: money     *)
(* moves between a voucher, the wallet and an entry in one step, which     *)
(* balance, suspension and packages as they are at that step must allow.   *)
(* There are no connections, locks or snapshots here; Voucher has them and *)
(* implements this module.                                                 *)
(***************************************************************************)
EXTENDS Naturals

CONSTANTS
    Vids, Avails,  \* rows of voucherstab and of voucher_availmentstab
    Tiers, Face    \* packages, and what the voucher of each is worth

VARIABLES
    book,     \* book[v]: package, what is left, and whether it can be spent
    entries,  \* entries[a]: what it took of which voucher and of the wallet
    wallet

vars == <<book, entries, wallet>>

Blank   == [tier |-> 0, left |-> 0, state |-> "unissued"]
NoEntry == [state |-> "none"]
Void    == [state |-> "void"]
Live(a) == entries[a].state = "live"

Entry(v, n, paid) == [state |-> "live", voucher |-> v, taken |-> n, paid |-> paid]
New(t) == [tier |-> t, left |-> Face[t], state |-> "open"]

\* A voucher with nothing left is shut.
Left(v, n) ==
    [book EXCEPT ![v] = [@ EXCEPT !.left = n, !.state = IF n = 0 THEN "shut" ELSE "open"]]

Init ==
    /\ book \in [Vids -> {Blank} \cup {New(t) : t \in Tiers}]
    /\ \A u, v \in Vids : u # v /\ book[u] = book[v] => book[u] = Blank
    /\ entries = [a \in Avails |-> NoEntry]
    /\ wallet \in Nat

\* n is taken, of the wallet the same or nothing: for an entry, or for good.
Take(v, n) ==
    /\ book[v].state \in {"open", "shut"} /\ n <= book[v].left
    /\ \E paid \in {0, n} :
          /\ wallet' = wallet - paid /\ paid <= wallet
          /\ \/ paid = n /\ UNCHANGED entries
             \/ \E a \in Avails :
                   /\ entries[a] = NoEntry
                   /\ entries' = [entries EXCEPT ![a] = Entry(v, n, paid)]
    /\ book' = Left(v, book[v].left - n)

\* An entry that took e.taken takes n instead.
Change(a, n) ==
    /\ Live(a)
    /\ LET e == entries[a]
           v == e.voucher
       IN /\ book[v].state # "suspended" /\ n <= book[v].left + e.taken
          /\ \E paid \in {0, n} :
                /\ paid <= wallet + e.paid /\ wallet' = wallet + e.paid - paid
                /\ entries' = [entries EXCEPT ![a] = Entry(v, n, paid)]
          /\ book' = Left(v, book[v].left + e.taken - n)

\* An entry is given back, once: a suspended voucher stays suspended.
GiveBack(a) ==
    /\ Live(a)
    /\ LET e == entries[a]
       IN /\ wallet' = wallet + e.paid
          /\ \E state \in {book[e.voucher].state, "open"} :
                /\ book[e.voucher].state = "suspended" => state = "suspended"
                /\ book' = [book EXCEPT ![e.voucher].left = @ + e.taken, ![e.voucher].state = state]
    /\ entries' = [entries EXCEPT ![a] = Void]

\* A package that has no voucher in any state gets one.
Issue(v, t) ==
    /\ book[v] = Blank /\ \A u \in Vids : book[u].tier # t
    /\ book' = [book EXCEPT ![v] = New(t)]
    /\ UNCHANGED <<entries, wallet>>

\* Suspension and its end, expiry and revocation.
Turn(v) ==
    /\ \/ book[v].state = "open" /\ book' = [book EXCEPT ![v].state = "suspended"]
       \/ book[v].state = "suspended" /\ book' = [book EXCEPT ![v].state = "open"]
       \/ book[v].state \in {"open", "suspended"} /\ book' = [book EXCEPT ![v].state = "shut"]
    /\ UNCHANGED <<entries, wallet>>

Earn == wallet' = wallet + 1 /\ UNCHANGED <<book, entries>>

Next ==
    \/ \E v \in Vids, t \in Tiers : Issue(v, t) \/ \E n \in 1 .. Face[t] : Take(v, n)
    \/ \E a \in Avails, t \in Tiers : \E n \in 1 .. Face[t] : Change(a, n)
    \/ \E a \in Avails : GiveBack(a)
    \/ \E v \in Vids : Turn(v)
    \/ Earn

Spec == Init /\ [][Next]_vars
=============================================================================
