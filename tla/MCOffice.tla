------------------------------ MODULE MCOffice ------------------------------
(***************************************************************************)
(* Model checking of the modules around the income core: Support,          *)
(* Encashment, Startup, Access and Enrolment.  No statement of one writes  *)
(* a row that a property of another one reads, so the five are put side by *)
(* side: part says which one a behaviour is about, and the others rest.    *)
(***************************************************************************)
EXTENDS Naturals, FiniteSets, Sequences, TLC

CONSTANTS
    Procs,                          \* Desks of Support and Runners of Startup as well
    Replies, MaxFaults,                                                     \* Support
    Amounts, Incomes, Charges, Debts, RequestIds, LegacyUpgrade,            \* Encashment
    MaxRows, MaxUpgrades, MaxDay,
    Script, Imports, Features, Needs, Cached, MaxMembers,                   \* Startup
    Sids, Names, Passwords, MaxId,                                          \* Access
    People, Tokens, Slugs, MaxSlots, Chosen                                 \* Enrolment

VARIABLES
    part,
    ticket, replies,                                                        \* Support
    account, upgrade, paper, mirror, vouchered, migrated, today, upgraded,  \* Encashment
    schema, imported, duplicates, closure, recorded, covered, runner, server, served,  \* Startup
    member, store, accounts, overlapped,                                    \* Access
    invites, slug, answered,                                                \* Enrolment
    desk, members, faults                                                   \* of two or three

Tickets   == INSTANCE Support WITH Desks <- Procs
Payouts   == INSTANCE Encashment
Migration == INSTANCE Startup WITH Runners <- Procs
Sessions  == INSTANCE Access
Invites   == INSTANCE Enrolment

\* A statement that adds several columns or none (V011 adds four) shares them
\* only with statements that add all of them (V019 and V021), and the sessions
\* table, which the server creates, is no column.
Pieces(f, s)  == Script[f][s].pieces
Defines(f, s) == Script[f][s].kind \in {"create", "add", "unique"}

ASSUME ScriptAssumption ==
    /\ Script \in Seq(Seq([kind : {"create", "add", "unique", "selves", "links", "backfill"},
                           pieces : SUBSET STRING]))
    /\ \A f, g \in DOMAIN Script : \A s \in DOMAIN Script[f], t \in DOMAIN Script[g] :
          Script[f][s].kind = "add" /\ Defines(g, t) =>
              Pieces(f, s) \cap Pieces(g, t) = {} \/ Pieces(f, s) \subseteq Pieces(g, t)
    /\ \A f \in DOMAIN Script : \A s \in DOMAIN Script[f] :
          Script[f][s].kind = "add" => Migration!Sessions \notin Pieces(f, s)

\* What members ask for and earn are centavos, and a CD package costs something.
ASSUME MoneyAssumption ==
    /\ Amounts \subseteq Nat /\ Incomes \subseteq Nat /\ Charges \subseteq Nat
    /\ Debts \subseteq Nat \ {0}
    /\ MaxDay \in Nat \ {0}

\* Few apply at once, and who chooses a position chooses one that exists.
ASSUME EnrolmentAssumption ==
    IsFiniteSet(Procs) /\ IsFiniteSet(People) /\ Chosen \subseteq 1 .. MaxSlots

\* The migrations that the model tells apart: the closure table and its direct
\* links, the backfill, columns with IF NOT EXISTS or without, and an index.
Stmt(k, pieces) == [kind |-> k, pieces |-> pieces]
Files ==
    << <<Stmt("create", {"binary_tree_closuretab"}), Stmt("selves", {}), Stmt("links", {})>>,
       <<Stmt("backfill", {})>>,
       <<Stmt("add", {"account_status", "account_status_reason"})>>,
       <<Stmt("add", {"public_id"}), Stmt("unique", {"uq_public_id"}),
         Stmt("create", {"support", "password varchar(255)"})>> >>
Dumps ==
    {{}, {"account_status"}, {"binary_tree_closuretab", "path_side, path_text"},
     {"password varchar(255)"}}
FeatureNeeds == [f \in Features |-> IF f = "profile" THEN {"public_id"} ELSE {"support"}]

\* An applicant with a TIN and one without.
Applicants ==
    {[name |-> "ana", tin |-> "t1", dob |-> "blank"], [name |-> "ben", tin |-> "zero", dob |-> "d1"]}

Rest == "at rest"
ticketVars  == <<ticket, replies>>
payoutVars  == <<account, upgrade, paper, mirror, vouchered, migrated, today, upgraded>>
startVars   == <<schema, imported, duplicates, closure, recorded, covered, runner, server, served>>
accessVars  == <<member, store, accounts, overlapped>>
inviteVars  == <<invites, slug, answered>>

TicketsRest   == ticket = Rest /\ replies = Rest
PayoutsRest   == /\ account = Rest /\ upgrade = Rest /\ paper = Rest /\ mirror = Rest
                 /\ vouchered = Rest /\ migrated = Rest /\ today = Rest /\ upgraded = Rest
MigrationRest == /\ schema = Rest /\ imported = Rest /\ duplicates = Rest /\ closure = Rest
                 /\ recorded = Rest /\ covered = Rest /\ runner = Rest /\ server = Rest /\ served = Rest
SessionsRest  == member = Rest /\ store = Rest /\ accounts = Rest /\ overlapped = Rest
InvitesRest   == invites = Rest /\ slug = Rest /\ answered = Rest

Init ==
    \/ /\ part = "support" /\ Tickets!Init /\ members = Rest
       /\ PayoutsRest /\ MigrationRest /\ SessionsRest /\ InvitesRest
    \/ /\ part = "encashment" /\ Payouts!Init /\ desk = Rest /\ members = Rest /\ faults = Rest
       /\ TicketsRest /\ MigrationRest /\ SessionsRest /\ InvitesRest
    \/ /\ part = "startup" /\ Migration!Init /\ desk = Rest
       /\ TicketsRest /\ PayoutsRest /\ SessionsRest /\ InvitesRest
    \/ /\ part = "access" /\ Sessions!Init /\ members = Rest /\ faults = Rest
       /\ TicketsRest /\ PayoutsRest /\ MigrationRest /\ InvitesRest
    \/ /\ part = "enrolment" /\ Invites!Init
       /\ TicketsRest /\ PayoutsRest /\ MigrationRest /\ SessionsRest

NextTickets ==
    /\ part = "support" /\ Tickets!Next
    /\ UNCHANGED <<part, payoutVars, startVars, accessVars, inviteVars, members>>
NextPayouts ==
    /\ part = "encashment" /\ Payouts!Next
    /\ UNCHANGED <<part, ticketVars, startVars, accessVars, inviteVars, desk, members, faults>>
NextMigration ==
    /\ part = "startup" /\ Migration!Next
    /\ UNCHANGED <<part, ticketVars, payoutVars, accessVars, inviteVars, desk>>
NextSessions ==
    /\ part = "access" /\ Sessions!Next
    /\ UNCHANGED <<part, ticketVars, payoutVars, startVars, inviteVars, members, faults>>
NextInvites ==
    /\ part = "enrolment" /\ Invites!Next
    /\ UNCHANGED <<part, ticketVars, payoutVars, startVars, accessVars>>

vars == <<part, ticketVars, payoutVars, startVars, accessVars, inviteVars, desk, members, faults>>

Next == NextTickets \/ NextPayouts \/ NextMigration \/ NextSessions \/ NextInvites

Spec == Init /\ [][Next]_vars

-----------------------------------------------------------------------------
\* The properties of the parts, which their modules state.
ThreadTells     == part = "support"    => Tickets!ThreadTells
ReportsAgree    == part = "encashment" => Payouts!ReportsAgree
CdSettled       == part = "encashment" => Payouts!CdSettled
ClaimsHold      == part = "startup"    => Migration!ClaimsHold
SessionsSound   == part = "access"     => Sessions!SessionsSound
AccountsSound   == part = "access"     => Sessions!AccountsSound
InviteClosed    == part = "enrolment"  => Invites!InviteClosed
CopiesBounded   == part = "enrolment"  => Invites!CopiesBounded

\* These do not hold (see the README).
MigrationsFinish == part = "startup"    => Migration!MigrationsFinish
DebtNotExceeded  == part = "encashment" => Payouts!DebtNotExceeded

Symmetry == Permutations(Procs) \cup Permutations(Sids) \cup Permutations(Passwords)
=============================================================================
