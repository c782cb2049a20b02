----------------------------- MODULE Enrolment -----------------------------
(***************************************************************************)
(* The ways into registration: the member's own form, the reusable         *)
(* referral link, and the referral invite, which carries a token and a     *)
(* reserved position; and the check whether the applicant is a member      *)
(* already.  registerMember is the identity check, which reads the         *)
(* snapshot of its transaction, and the rest in one step (module           *)
(* Registration interleaves that).  There is one sponsor; its free         *)
(* positions are filled in the order of the recommendation.                *)
(***************************************************************************)
EXTENDS Naturals, FiniteSets, FiniteSetsExt

CONSTANTS
    Procs,          \* requests that may be in flight at once
    People,         \* the identities that apply, each with a name and a date of birth
    Tokens, Slugs,  \* random tokens of invites and links
    MaxSlots,       \* the positions
    Chosen,         \* those that somebody may choose instead of the recommended one
    MaxFaults       \* bound

\* A blank field, and 000-000-000-000 for those who have no TIN.
Blank   == "blank"
ZeroTin == "zero"

VARIABLES
    members,    \* memberstab, with the position each member got
    invites,    \* referral_invitestab
    slug,       \* usertab.referral_slug of the sponsor
    answered,   \* history: the tokens whose registration was answered with success
    desk,       \* the requests in flight
    faults

vars == <<members, invites, slug, answered, desk, faults>>

Idle == [step |-> "idle"]
NoInvite == [active |-> FALSE, slot |-> 0]
Positions == 1 .. MaxSlots

\* A PHP-era member has a name and nothing else, and every applicant a namesake
\* there; the sponsor may have no slug.
Init ==
    /\ members = {[slot |-> 0, who |-> [name |-> who.name, tin |-> Blank, dob |-> Blank],
                    late |-> FALSE] : who \in People}
    /\ invites = [t \in Tokens |-> NoInvite]
    /\ slug \in Slugs \cup {Blank}
    /\ answered = {}
    /\ desk = [p \in Procs |-> Idle]
    /\ faults = 0

Free(slot) == \A m \in members : m.slot # slot
Recommended == {slot \in Positions : Free(slot) /\ \A k \in 1 .. slot - 1 : ~Free(k)}

-----------------------------------------------------------------------------
(* Invites and links *)

\* POST /referral-invite: the chosen or the recommended position must be free,
\* every invite of the sponsor is deactivated ...
DeactivateInvites(p, slot) ==
    /\ desk[p] = Idle /\ Free(slot)
    /\ invites' = [t \in Tokens |-> [invites[t] EXCEPT !.active = FALSE]]
    /\ desk' = [desk EXCEPT ![p] = [step |-> "issue", slot |-> slot]]
    /\ UNCHANGED <<members, slug, answered, faults>>

\* ... and a new one is stored.
IssueInvite(p, t) ==
    /\ desk[p].step = "issue" /\ invites[t] = NoInvite
    /\ invites' = [invites EXCEPT ![t] = [active |-> TRUE, slot |-> desk[p].slot]]
    /\ desk' = [desk EXCEPT ![p] = Idle]
    /\ UNCHANGED <<members, slug, answered, faults>>

\* ensureReferralSlug: the slug is read, one is made if there is none ...
ReadSlug(p, fresh) ==
    /\ desk[p] = Idle
    /\ desk' = [desk EXCEPT ![p] = [step |-> "slug", slug |-> IF slug = Blank THEN fresh ELSE slug]]
    /\ UNCHANGED <<members, invites, slug, answered, faults>>

\* ... and it is written in any case, then shown to the sponsor.
WriteSlug(p) ==
    /\ desk[p].step = "slug"
    /\ slug' = desk[p].slug
    /\ desk' = [desk EXCEPT ![p] = Idle]
    /\ UNCHANGED <<members, invites, answered, faults>>

-----------------------------------------------------------------------------
(* Registering *)

\* An applicant: the token or slug it came by, the position it is bound to or
\* 0 (autoPlacement).  `late' is history: the token had been used up before.
Applicant(who, token, slot) ==
    [step |-> "check", who |-> who, token |-> token, slot |-> slot,
     late |-> token \in answered]

\* The variant whose lookup forgets `active = 1'.
BugOpen(t) == invites[t] # NoInvite

Open(t) == invites[t].active

\* POST /public-register with a token.  The reserved position binds only if
\* the client sends a position of its own (routes/registration.js:463).
ByToken(p, who, t, pinned) ==
    /\ desk[p] = Idle /\ Open(t)
    /\ desk' = [desk EXCEPT ![p] = Applicant(who, t, IF pinned THEN invites[t].slot ELSE 0)]
    /\ UNCHANGED <<members, invites, slug, answered, faults>>

\* ... with the sponsor's slug, and POST /register by the sponsor.
ByLink(p, who, slot) ==
    /\ desk[p] = Idle
    /\ desk' = [desk EXCEPT ![p] = Applicant(who, Blank, slot)]
    /\ UNCHANGED <<members, invites, slug, answered, faults>>

\* The variant that never compares the TIN.
BugSignals(a, b) == {f \in {"dob"} : a.dob # Blank /\ a.dob = b.dob}

\* matchedSignalsForCandidate without the address, which corroborates nothing;
\* the date of birth stands for e-mail and phone as well.
Signals(a, b) ==
    {f \in {"tin", "dob"} :
        IF f = "tin" THEN a.tin \notin {Blank, ZeroTin} /\ a.tin = b.tin
                     ELSE a.dob # Blank /\ a.dob = b.dob}

\* evaluateDuplicateIdentity of one row: a TIN stands alone, a name needs more.
Matches(a, b) == "tin" \in Signals(a, b) \/ (a.name = b.name /\ Signals(a, b) # {})

\* Refused if any row matches.
CheckIdentity(p) ==
    /\ desk[p].step = "check"
    /\ desk' = [desk EXCEPT ![p] =
          IF \E m \in members : Matches(@.who, m.who) THEN Idle ELSE [@ EXCEPT !.step = "commit"]]
    /\ UNCHANGED <<members, invites, slug, answered, faults>>

\* The rest of registerMember; a position that is taken is a 400.  Who came by
\* no token is answered with it, as far as these tables go.
Commit(p) ==
    /\ desk[p].step = "commit"
    /\ LET d == desk[p]
           at == IF d.slot = 0 THEN Recommended ELSE {d.slot} \ {m.slot : m \in members}
       IN IF at = {}
          THEN /\ desk' = [desk EXCEPT ![p] = Idle]
               /\ UNCHANGED members
          ELSE /\ members' = members \cup
                    {[slot |-> slot, who |-> d.who, late |-> d.late] : slot \in at}
               /\ desk' = [desk EXCEPT ![p] = IF d.token = Blank THEN Idle
                                              ELSE [step |-> "spend", token |-> d.token]]
    /\ UNCHANGED <<invites, slug, answered, faults>>

\* The token is deactivated, whoever did so before.
SpendInvite(p) ==
    /\ desk[p].step = "spend"
    /\ invites' = [invites EXCEPT ![desk[p].token].active = FALSE]
    /\ desk' = [desk EXCEPT ![p].step = "answer"]
    /\ UNCHANGED <<members, slug, answered, faults>>

\* The new member's slug, the audit rows and the sponsor's income, whose
\* failures are logged only (module Engines has the income), then 200.
Respond(p) ==
    /\ desk[p].step = "answer"
    /\ answered' = answered \cup {desk[p].token}
    /\ desk' = [desk EXCEPT ![p] = Idle]
    /\ UNCHANGED <<members, invites, slug, faults>>

\* A statement fails: 400, also after the commit.
Fail(p) ==
    /\ desk[p] # Idle /\ faults < MaxFaults
    /\ desk' = [desk EXCEPT ![p] = Idle]
    /\ faults' = faults + 1
    /\ UNCHANGED <<members, invites, slug, answered>>

Next ==
    \E p \in Procs :
        \/ \E slot \in Recommended \cup Chosen : DeactivateInvites(p, slot)
        \/ \E t \in Tokens : IssueInvite(p, t)
        \/ \E s \in Slugs : ReadSlug(p, s)
        \/ WriteSlug(p)
        \/ \E who \in People, t \in Tokens, pinned \in BOOLEAN : ByToken(p, who, t, pinned)
        \/ \E who \in People, slot \in Chosen \cup {0} : ByLink(p, who, slot)
        \/ CheckIdentity(p) \/ Commit(p) \/ SpendInvite(p) \/ Respond(p) \/ Fail(p)

Spec == Init /\ [][Next]_vars

-----------------------------------------------------------------------------
(* Once a registration by invite was answered with success, nobody who     *)
(* comes later registers by the same token, in spite of failures and       *)
(* regenerations; two that overlap may (routes/registration.js:471).       *)
InviteClosed ==
    /\ \A m \in members : ~m.late
    /\ \A t \in answered : ~invites[t].active

\* The members who gave one TIN, and those who gave one name and date of birth.
Holders(tin) == {m \in members : m.who.tin = tin}
Namesakes(name, dob) == {m \in members : m.who.name = name /\ m.who.dob = dob}

(* Registrations that overlap do not see each other, and that is the only  *)
(* way to be a member twice: of those who gave the same TIN, or the same   *)
(* name and date of birth, there are never more than requests in flight at *)
(* once, however many came by whatever way, one after another              *)
(* (services/registration.js:492, services/identityIntegrity.js:211).      *)
CopiesBounded ==
    /\ \A m \in members : m.who.tin \notin {Blank, ZeroTin} =>
          Cardinality(Holders(m.who.tin)) <= Cardinality(Procs)
    /\ \A m \in members : m.who.dob # Blank =>
          Cardinality(Namesakes(m.who.name, m.who.dob)) <= Cardinality(Procs)

=============================================================================
