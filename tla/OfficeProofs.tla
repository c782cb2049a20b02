---------------------------- MODULE OfficeProofs ----------------------------
(***************************************************************************)
(* Proofs about the five parts of MCOffice, for any number of requests,    *)
(* replies, accounts, sessions, members, tokens and migrations.            *)
(***************************************************************************)
EXTENDS MCOffice, Sums

\* A step of the whole is a step of the part it is about.
LEMMA PartSteps ==
    ASSUME [Next]_vars
    PROVE  /\ part' = part
           /\ part = "support"    => [Tickets!Next]_(Tickets!vars)
           /\ part = "encashment" => [Payouts!Next]_(Payouts!vars)
           /\ part = "startup"    => [Migration!Next]_(Migration!vars)
           /\ part = "access"     => [Sessions!Next]_(Sessions!vars)
           /\ part = "enrolment"  => [Invites!Next]_(Invites!vars)
<1>1. CASE UNCHANGED vars
  BY <1>1 DEF vars, ticketVars, payoutVars, startVars, accessVars, inviteVars, Tickets!vars,
              Payouts!vars, Migration!vars, Migration!database, Sessions!vars, Invites!vars
<1>2. CASE NextTickets
  BY <1>2 DEF NextTickets
<1>3. CASE NextPayouts
  BY <1>3 DEF NextPayouts
<1>4. CASE NextMigration
  BY <1>4 DEF NextMigration
<1>5. CASE NextSessions
  BY <1>5 DEF NextSessions
<1>6. CASE NextInvites
  BY <1>6 DEF NextInvites
<1>. QED
  BY <1>1, <1>2, <1>3, <1>4, <1>5, <1>6 DEF Next

\* It begins as that part does.
LEMMA PartInits ==
    ASSUME Init
    PROVE  /\ part = "support"    => Tickets!Init
           /\ part = "encashment" => Payouts!Init
           /\ part = "startup"    => Migration!Init
           /\ part = "access"     => Sessions!Init
           /\ part = "enrolment"  => Invites!Init
BY DEF Init
-----------------------------------------------------------------------------
(***************************************************************************)
(* Support.                                                                *)
(***************************************************************************)
TicketRow ==
    [status : Tickets!Statuses \cup {"none"},
     unread : [Tickets!Sides -> BOOLEAN],
     last   : Tickets!Sides \cup {"none"}]
ReplyRow ==
    [author : Tickets!Sides \cup {"none"}, files : BOOLEAN, url : BOOLEAN, rows : BOOLEAN,
     delivered : BOOLEAN, read : BOOLEAN]
Writing ==
    [step : {"insert", "attach", "touch", "push", "stamp"}, side : Tickets!Sides,
     reply : Replies, files : BOOLEAN, status : Tickets!Statuses \cup {"none"}]
Reading == [step : {"mark", "clear"}, side : Tickets!Sides, reply : {"none"}]

TicketTypes ==
    /\ ticket \in TicketRow
    /\ replies \in [Replies -> ReplyRow]
    /\ desk \in [Procs -> {Tickets!Idle} \cup Writing \cup Reading]

TicketInv == TicketTypes /\ Tickets!ThreadTells

\* A message shows a file when it has a URL or rows.
LEMMA Shown ==
    ASSUME NEW row
    PROVE  Tickets!FilesShown(row) # "none" <=> row.rows \/ row.url
BY DEF Tickets!FilesShown

\* The handlers keep the types, the badges and the files.
LEMMA TicketStep ==
    ASSUME TicketInv, Tickets!Next
    PROVE  TicketInv'
<1>. USE DEF TicketRow, ReplyRow, Writing, Reading, Tickets!Statuses, Tickets!Sides
<1>. DEFINE Bell  == \A s \in Tickets!Sides : ticket.unread[s] => ticket.last = Tickets!Other(s)
            Sent  == \A r \in Replies : replies[r].files => replies[r].rows \/ replies[r].url
<1>1. TicketInv <=> TicketTypes /\ Bell /\ Sent
  BY Shown DEF TicketInv, Tickets!ThreadTells
<1>2. TicketInv' <=> TicketTypes' /\ Bell' /\ Sent'
  BY Shown DEF TicketInv, Tickets!ThreadTells
<1>3. ASSUME NEW r \in Replies, NEW f \in BOOLEAN, Tickets!Create(r, f)
      PROVE  TicketTypes' /\ Bell' /\ Sent'
  BY <1>1, <1>3 DEF TicketTypes, Tickets!Create, Tickets!NoReply, Tickets!Other
<1>4. ASSUME NEW d \in Procs, NEW s \in Tickets!Sides, NEW r \in Replies, NEW f \in BOOLEAN,
             Tickets!StartReply(d, s, r, f)
      PROVE  TicketTypes' /\ Bell' /\ Sent'
  BY <1>1, <1>4 DEF TicketTypes, Tickets!StartReply
<1>5. ASSUME NEW d \in Procs, Tickets!InsertReply(d)
      PROVE  TicketTypes' /\ Bell' /\ Sent'
  <2>. DEFINE q   == desk[d]
              row == [Tickets!NoReply EXCEPT !.author = q.side, !.files = q.files, !.url = q.files]
  <2>1. q \in Writing /\ q.step = "insert"
    BY <1>1, <1>5 DEF TicketTypes, Tickets!InsertReply, Tickets!Idle
  <2>2. row \in ReplyRow /\ row.files = row.url
    BY <2>1 DEF Tickets!NoReply
  <2>3. replies' = [replies EXCEPT ![q.reply] = row] /\ ticket' = ticket
    BY <1>5 DEF Tickets!InsertReply
  <2>4. \E s \in {"attach", "touch"} : desk' = [desk EXCEPT ![d].step = s]
    BY <1>5 DEF Tickets!InsertReply
  <2>5. \A s \in {"attach", "touch"} : [q EXCEPT !.step = s] \in Writing
    BY <2>1
  <2>6. desk' \in [Procs -> {Tickets!Idle} \cup Writing \cup Reading]
    BY <1>1, <2>4, <2>5 DEF TicketTypes
  <2>. HIDE DEF row
  <2>. QED
    BY <1>1, <2>1, <2>2, <2>3, <2>6 DEF TicketTypes
<1>6. ASSUME NEW d \in Procs, Tickets!InsertAttachments(d)
      PROVE  TicketTypes' /\ Bell' /\ Sent'
  <2>. DEFINE q   == desk[d]
              row == [replies[q.reply] EXCEPT !.rows = TRUE]
  <2>1. q \in Writing
    BY <1>1, <1>6 DEF TicketTypes, Tickets!InsertAttachments, Tickets!Idle
  <2>2. row \in ReplyRow /\ (row.files = replies[q.reply].files) /\ row.url = replies[q.reply].url
        /\ (replies[q.reply].rows => row.rows)
    <3>1. replies[q.reply] \in ReplyRow
      BY <1>1, <2>1 DEF TicketTypes
    <3>2. \A x \in ReplyRow : LET y == [x EXCEPT !.rows = TRUE]
                             IN  /\ y \in ReplyRow /\ y.files = x.files /\ y.url = x.url
                                 /\ x.rows => y.rows
      OBVIOUS
    <3>. QED
      BY <3>1, <3>2
  <2>3. replies' = [replies EXCEPT ![q.reply] = row] /\ ticket' = ticket
    BY <1>1, <1>6, <2>1 DEF TicketTypes, Tickets!InsertAttachments
  <2>4. desk' = [desk EXCEPT ![d] = [q EXCEPT !.step = "touch"]]
    BY <1>6 DEF Tickets!InsertAttachments
  <2>5. desk' \in [Procs -> {Tickets!Idle} \cup Writing \cup Reading]
    BY <1>1, <2>1, <2>4 DEF TicketTypes
  <2>. HIDE DEF row
  <2>. QED
    BY <1>1, <2>1, <2>2, <2>3, <2>5 DEF TicketTypes
<1>7. ASSUME NEW d \in Procs, Tickets!TouchTicket(d)
      PROVE  TicketTypes' /\ Bell' /\ Sent'
  BY <1>1, <1>7 DEF TicketTypes, Tickets!TouchTicket, Tickets!Touched, Tickets!NextStatus,
                    Tickets!Other, Tickets!Idle
<1>8. ASSUME NEW d \in Procs, NEW delivered \in BOOLEAN, Tickets!Push(d, delivered)
      PROVE  TicketTypes' /\ Bell' /\ Sent'
  BY <1>1, <1>8 DEF TicketTypes, Tickets!Push, Tickets!Idle
<1>9. ASSUME NEW d \in Procs, Tickets!StampDelivered(d)
      PROVE  TicketTypes' /\ Bell' /\ Sent'
  <2>. DEFINE q   == desk[d]
              row == [replies[q.reply] EXCEPT !.delivered = TRUE]
  <2>1. q \in Writing
    BY <1>1, <1>9 DEF TicketTypes, Tickets!StampDelivered, Tickets!Idle
  <2>2. row \in ReplyRow /\ (row.files = replies[q.reply].files) /\ row.url = replies[q.reply].url
        /\ (replies[q.reply].rows => row.rows)
    <3>1. replies[q.reply] \in ReplyRow
      BY <1>1, <2>1 DEF TicketTypes
    <3>2. \A x \in ReplyRow : LET y == [x EXCEPT !.delivered = TRUE]
                             IN  /\ y \in ReplyRow /\ y.files = x.files /\ y.url = x.url
                                 /\ x.rows => y.rows
      OBVIOUS
    <3>. QED
      BY <3>1, <3>2
  <2>3. replies' = [replies EXCEPT ![q.reply] = row] /\ ticket' = ticket
    BY <1>1, <1>9, <2>1 DEF TicketTypes, Tickets!StampDelivered
  <2>4. desk' = [desk EXCEPT ![d] = Tickets!Idle]
    BY <1>9 DEF Tickets!StampDelivered
  <2>5. desk' \in [Procs -> {Tickets!Idle} \cup Writing \cup Reading]
    BY <1>1, <2>1, <2>4 DEF TicketTypes
  <2>. HIDE DEF row
  <2>. QED
    BY <1>1, <2>1, <2>2, <2>3, <2>5 DEF TicketTypes
<1>10. ASSUME NEW d \in Procs, Tickets!MarkRead(d)
       PROVE  TicketTypes' /\ Bell' /\ Sent'
  <2>. DEFINE row(r) == [replies[r] EXCEPT !.read = @ \/ replies[r].author = Tickets!Other(desk[d].side)]
  <2>1. desk[d] \in Reading
    BY <1>1, <1>10 DEF TicketTypes, Tickets!MarkRead, Tickets!Idle
  <2>2. ASSUME NEW r \in Replies
        PROVE  /\ row(r) \in ReplyRow
               /\ row(r).files = replies[r].files /\ row(r).url = replies[r].url
               /\ row(r).rows = replies[r].rows
    <3>1. replies[r] \in ReplyRow
      BY <1>1 DEF TicketTypes
    <3>2. \A b \in BOOLEAN : [replies[r] EXCEPT !.read = b] \in ReplyRow
      BY <3>1
    <3>3. (replies[r].read \/ replies[r].author = Tickets!Other(desk[d].side)) \in BOOLEAN
      OBVIOUS
    <3>. QED
      BY <3>1, <3>2, <3>3
  <2>3. replies' = [r \in Replies |-> row(r)] /\ ticket' = ticket
    BY <1>10 DEF Tickets!MarkRead
  <2>4. desk' \in [Procs -> {Tickets!Idle} \cup Writing \cup Reading]
    BY <1>1, <1>10, <2>1 DEF TicketTypes, Tickets!MarkRead
  <2>. HIDE DEF row
  <2>. QED
    BY <1>1, <2>2, <2>3, <2>4 DEF TicketTypes
<1>11. ASSUME NEW d \in Procs, Tickets!ClearUnread(d)
       PROVE  TicketTypes' /\ Bell' /\ Sent'
  BY <1>1, <1>11 DEF TicketTypes, Tickets!ClearUnread, Tickets!Idle
<1>12. ASSUME NEW d \in Procs, Tickets!Fail(d)
       PROVE  TicketTypes' /\ Bell' /\ Sent'
  BY <1>1, <1>12 DEF TicketTypes, Tickets!Fail
<1>13. ASSUME NEW d \in Procs, NEW s \in Tickets!Sides, Tickets!OpenThread(d, s)
       PROVE  TicketTypes' /\ Bell' /\ Sent'
  BY <1>1, <1>13 DEF TicketTypes, Tickets!OpenThread
<1>14. ASSUME NEW st \in Tickets!Statuses, Tickets!SetStatus(st)
       PROVE  TicketTypes' /\ Bell' /\ Sent'
  BY <1>1, <1>14 DEF TicketTypes, Tickets!SetStatus
<1>15. ASSUME Tickets!Restart
       PROVE  TicketTypes' /\ Bell' /\ Sent'
  BY <1>1, <1>15 DEF TicketTypes, Tickets!Restart
<1>. QED
  BY <1>2, <1>3, <1>4, <1>5, <1>6, <1>7, <1>8, <1>9, <1>10, <1>11, <1>12, <1>13, <1>14, <1>15
     DEF Tickets!Next

\* A badge is only up on the side that did not write last, and a message sent
\* with attachments shows one, whatever handlers overlap or die.
THEOREM ThreadsTell == Spec => []ThreadTells
<1>. DEFINE Inv == part = "support" => TicketInv
<1>1. Init => Inv
  <2>1. Tickets!Init => TicketInv
    BY DEF Tickets!Init, TicketInv, TicketTypes, Tickets!ThreadTells, Tickets!NoTicket,
           Tickets!NoReply, TicketRow, ReplyRow, Tickets!Sides, Tickets!Idle
  <2>. QED
    BY <2>1, PartInits
<1>2. Inv /\ [Next]_vars => Inv'
  <2>. SUFFICES ASSUME Inv, [Next]_vars, part' = "support"
                PROVE  TicketInv'
    OBVIOUS
  <2>1. part = "support"
    BY PartSteps
  <2>2. TicketInv
    BY <2>1
  <2>3. CASE UNCHANGED Tickets!vars
    BY <2>2, <2>3 DEF Tickets!vars, TicketInv, TicketTypes, Tickets!ThreadTells
  <2>4. CASE Tickets!Next
    BY <2>2, <2>4, TicketStep
  <2>. QED
    BY <2>1, <2>3, <2>4, PartSteps
<1>3. Inv => ThreadTells
  BY DEF ThreadTells, TicketInv
<1>. QED
  BY <1>1, <1>2, <1>3, PTL DEF Spec
-----------------------------------------------------------------------------
(***************************************************************************)
(* Enrolment.                                                              *)
(***************************************************************************)
Slots    == {0} \cup Invites!Positions
AnyToken == Tokens \cup {Invites!Blank}

Issuing  == [step : {"issue"}, slot : Invites!Positions]
Linking  == [step : {"slug"}, slug : Slugs \cup {Invites!Blank}]
Applying == [step : {"check"}, who : People, token : AnyToken, slot : Slots, late : {FALSE}]
Joining  == [step : {"commit"}, who : People, token : AnyToken, slot : Slots, late : {FALSE}]
Ending   == [step : {"spend", "answer"}, token : Tokens \ {Invites!Blank}]
Enrolling == Applying \cup Joining \cup Ending

InviteTypes ==
    /\ invites \in [Tokens -> [active : BOOLEAN, slot : Slots]]
    /\ answered \subseteq Tokens \ {Invites!Blank}
    /\ slug \in Slugs \cup {Invites!Blank}
    /\ desk \in [Procs -> {Invites!Idle} \cup Issuing \cup Linking \cup Enrolling]

\* A token that was given out, and one that was given out and is closed: it
\* is never opened again, because only unused tokens are issued.
Issued(t) == invites[t].slot # 0
Closed(t) == Issued(t) /\ ~invites[t].active

Tokened(p) == desk[p] \in Enrolling /\ desk[p].token # Invites!Blank

TokenInv ==
    /\ \A t \in answered : Closed(t)
    /\ \A p \in Procs : Tokened(p) =>
          /\ Issued(desk[p].token)
          /\ desk[p].step = "answer" => Closed(desk[p].token)

Records == \A m \in members : ~m.late

OpenIssued == \A t \in Tokens : invites[t].active => Issued(t)

InviteInv == InviteTypes /\ OpenIssued /\ TokenInv /\ Records

\* The requests that work on a token, and the table of invites.
LEMMA InviteFacts ==
    ASSUME InviteTypes
    PROVE  /\ Invites!NoInvite.slot = 0 /\ 0 \notin Invites!Positions
           /\ \A t \in Tokens : invites[t].slot \in Slots /\ invites[t].active \in BOOLEAN
           /\ \A t \in Tokens : invites[t] = Invites!NoInvite => ~Issued(t)
           /\ \A p \in Procs : Tokened(p) => desk[p].token \in Tokens
           /\ Invites!Idle \notin Enrolling
           /\ \A d \in Issuing \cup Linking : d \notin Enrolling
<1>1. Invites!NoInvite.slot = 0 /\ 0 \notin Invites!Positions
  BY DEF Invites!NoInvite, Invites!Positions
<1>2. \A t \in Tokens : invites[t].slot \in Slots /\ invites[t].active \in BOOLEAN
  BY DEF InviteTypes
<1>3. \A p \in Procs : Tokened(p) => desk[p].token \in Tokens
  BY DEF Tokened, Enrolling, Applying, Joining, Ending, AnyToken
<1>4. /\ Invites!Idle \notin Enrolling
      /\ \A d \in Issuing \cup Linking : d \notin Enrolling
  BY DEF Invites!Idle, Enrolling, Issuing, Linking, Applying, Joining, Ending
<1>. QED
  BY <1>1, <1>2, <1>3, <1>4 DEF Issued

\* What a request is doing, by its step.
LEMMA InviteDesk ==
    ASSUME InviteTypes, NEW p \in Procs
    PROVE  /\ desk[p].step = "issue"  => desk[p] \in Issuing
           /\ desk[p].step = "slug"   => desk[p] \in Linking
           /\ desk[p].step = "check"  => desk[p] \in Applying
           /\ desk[p].step = "commit" => desk[p] \in Joining
           /\ desk[p].step \in {"spend", "answer"} => desk[p] \in Ending
<1>1. Invites!Idle.step = "idle"
  BY DEF Invites!Idle
<1>2. \A d \in Issuing  : d.step = "issue"
  BY DEF Issuing
<1>3. \A d \in Linking  : d.step = "slug"
  BY DEF Linking
<1>4. \A d \in Applying : d.step = "check"
  BY DEF Applying
<1>5. \A d \in Joining  : d.step = "commit"
  BY DEF Joining
<1>6. \A d \in Ending   : d.step \in {"spend", "answer"}
  BY DEF Ending
<1>7. desk[p] \in {Invites!Idle} \cup Issuing \cup Linking \cup Applying \cup Joining \cup Ending
  BY DEF InviteTypes, Enrolling
<1>. QED
  BY <1>1, <1>2, <1>3, <1>4, <1>5, <1>6, <1>7

\* A step of p after which closed tokens are closed, issued ones are issued,
\* and p's own token is what it should be.
LEMMA TokensKept ==
    ASSUME InviteTypes, TokenInv, NEW p \in Procs, NEW r,
           desk' = [desk EXCEPT ![p] = r],
           \A t \in Tokens : (Issued(t) => Issued(t)') /\ (Closed(t) => Closed(t)'),
           \A t \in answered' : Closed(t)',
           r \in Enrolling /\ r.token # Invites!Blank =>
               /\ invites'[r.token].slot # 0
               /\ r.step = "answer" => ~invites'[r.token].active
    PROVE  TokenInv'
<1>1. desk \in [Procs -> {Invites!Idle} \cup Issuing \cup Linking \cup Enrolling]
  BY DEF InviteTypes
<1>2. ASSUME NEW q \in Procs, Tokened(q)'
      PROVE  Issued(desk[q].token)' /\ (desk'[q].step = "answer" => Closed(desk[q].token)')
  <2>1. CASE q = p
    <3>1. desk'[q] = r
      BY <1>1, <2>1
    <3>. QED
      BY <1>2, <3>1 DEF Tokened, Issued, Closed
  <2>2. CASE q # p
    <3>1. desk'[q] = desk[q]
      BY <1>1, <2>2
    <3>2. Tokened(q)
      BY <1>2, <3>1 DEF Tokened
    <3>3. Issued(desk[q].token) /\ (desk[q].step = "answer" => Closed(desk[q].token))
      BY <3>2 DEF TokenInv
    <3>4. desk[q].token \in Tokens
      BY <3>2, InviteFacts
    <3>. QED
      BY <3>1, <3>3, <3>4 DEF Issued, Closed
  <2>. QED
    BY <2>1, <2>2
<1>. QED
  BY <1>2 DEF TokenInv

\* Issuing an invite: the earlier ones are closed, an unused token is opened.
LEMMA InviteIssued ==
    ASSUME InviteInv, NEW p \in Procs,
           \/ \E slot \in Invites!Recommended \cup Chosen : Invites!DeactivateInvites(p, slot)
           \/ \E t \in Tokens : Invites!IssueInvite(p, t)
    PROVE  InviteInv'
<1>. USE DEF InviteInv
<1>1. InviteTypes /\ OpenIssued /\ TokenInv /\ Records
  OBVIOUS
<1>2. ASSUME NEW slot \in Invites!Recommended \cup Chosen, Invites!DeactivateInvites(p, slot)
      PROVE  InviteInv'
  <2>. DEFINE r == [step |-> "issue", slot |-> slot]
  <2>1. desk' = [desk EXCEPT ![p] = r] /\ r \in Issuing
    <3>1. slot \in Invites!Positions
      BY EnrolmentAssumption DEF Invites!Recommended, Invites!Positions
    <3>. QED
      BY <1>2, <3>1 DEF Invites!DeactivateInvites, Issuing
  <2>2. \A t \in Tokens : invites'[t].slot = invites[t].slot /\ invites'[t].active = FALSE
    BY <1>1, <1>2 DEF Invites!DeactivateInvites, InviteTypes
  <2>3. InviteTypes'
    BY <1>1, <1>2, <2>1 DEF InviteTypes, Invites!DeactivateInvites
  <2>4. answered' = answered /\ answered \subseteq Tokens
    BY <1>1, <1>2 DEF InviteTypes, Invites!DeactivateInvites
  <2>5. r \notin Enrolling
    BY <2>1, InviteFacts
  <2>. HIDE DEF r
  <2>6. TokenInv'
    <3>1. \A t \in Tokens : (Issued(t) => Issued(t)') /\ (Closed(t) => Closed(t)')
      BY <2>2 DEF Issued, Closed
    <3>2. \A t \in answered' : Closed(t)'
      BY <1>1, <2>4, <3>1 DEF TokenInv
    <3>. QED
      BY <1>1, <2>1, <2>5, <3>1, <3>2, TokensKept
  <2>7. OpenIssued'
    BY <2>2 DEF OpenIssued
  <2>. QED
    BY <1>1, <1>2, <2>3, <2>6, <2>7 DEF Records, Invites!DeactivateInvites
<1>3. ASSUME NEW t \in Tokens, Invites!IssueInvite(p, t)
      PROVE  InviteInv'
  <2>1. desk[p] \in Issuing
    BY <1>1, <1>3, InviteDesk DEF Invites!IssueInvite
  <2>2. desk[p].slot \in Slots \ {0}
    BY <2>1, <1>1, InviteFacts DEF Issuing, Slots
  <2>3. /\ invites' = [invites EXCEPT ![t] = [active |-> TRUE, slot |-> desk[p].slot]]
        /\ desk' = [desk EXCEPT ![p] = Invites!Idle]
        /\ UNCHANGED <<members, slug, answered>>
        /\ ~Issued(t)
    BY <1>1, <1>3, InviteFacts DEF Invites!IssueInvite
  <2>4. InviteTypes'
    BY <1>1, <2>2, <2>3 DEF InviteTypes
  <2>5. \A u \in Tokens : (Issued(u) => Issued(u)') /\ (Closed(u) => Closed(u)')
    BY <1>1, <2>3 DEF Issued, Closed, InviteTypes
  <2>6. TokenInv'
    BY <1>1, <2>3, <2>5, InviteFacts, TokensKept DEF TokenInv, InviteTypes
  <2>7. OpenIssued'
    BY <1>1, <2>2, <2>3 DEF OpenIssued, Issued, InviteTypes
  <2>. QED
    BY <1>1, <2>3, <2>4, <2>6, <2>7 DEF Records
<1>. QED
  BY <1>2, <1>3

\* The links: nothing of an invite changes.
LEMMA LinkShown ==
    ASSUME InviteInv, NEW p \in Procs,
           (\E s \in Slugs : Invites!ReadSlug(p, s)) \/ Invites!WriteSlug(p)
    PROVE  InviteInv'
<1>. USE DEF InviteInv
<1>1. InviteTypes /\ OpenIssued /\ TokenInv /\ Records
  OBVIOUS
<1>2. PICK r \in {Invites!Idle} \cup Linking : desk' = [desk EXCEPT ![p] = r]
  BY <1>1 DEF Invites!ReadSlug, Invites!WriteSlug, InviteTypes, Linking
<1>3. UNCHANGED <<members, invites, answered>>
  BY DEF Invites!ReadSlug, Invites!WriteSlug
<1>4. slug' \in Slugs \cup {Invites!Blank}
  <2>1. desk[p] \in Linking => desk[p].slug \in Slugs \cup {Invites!Blank}
    BY DEF Linking
  <2>. QED
    BY <1>1, <2>1, InviteDesk DEF Invites!ReadSlug, Invites!WriteSlug, InviteTypes
<1>5. InviteTypes'
  BY <1>1, <1>2, <1>3, <1>4 DEF InviteTypes
<1>6. TokenInv'
  BY <1>1, <1>2, <1>3, InviteFacts, TokensKept DEF TokenInv, Issued, Closed
<1>. QED
  BY <1>1, <1>3, <1>5, <1>6 DEF Records, OpenIssued, Issued

\* Coming in: by a token that is open, thus not used up, or by none.
LEMMA CameIn ==
    ASSUME InviteInv, NEW p \in Procs,
           \/ \E who \in People, t \in Tokens, pinned \in BOOLEAN : Invites!ByToken(p, who, t, pinned)
           \/ \E who \in People, slot \in Chosen \cup {0} : Invites!ByLink(p, who, slot)
    PROVE  InviteInv'
<1>. USE DEF InviteInv
<1>1. InviteTypes /\ OpenIssued /\ TokenInv /\ Records
  OBVIOUS
<1>2. UNCHANGED <<members, invites, answered, slug>>
  BY DEF Invites!ByToken, Invites!ByLink
<1>3. PICK r \in Applying : /\ desk' = [desk EXCEPT ![p] = r]
                            /\ r.token # Invites!Blank => Issued(r.token)
  <2>1. ASSUME NEW who \in People, NEW t \in Tokens, NEW pinned \in BOOLEAN,
               Invites!ByToken(p, who, t, pinned)
        PROVE  \E r \in Applying : /\ desk' = [desk EXCEPT ![p] = r]
                                   /\ r.token # Invites!Blank => Issued(r.token)
    <3>. DEFINE r == Invites!Applicant(who, t, IF pinned THEN invites[t].slot ELSE 0)
    <3>1. (t \in answered) = FALSE
      BY <1>1, <2>1 DEF TokenInv, Closed, Invites!ByToken, Invites!Open
    <3>2. (IF pinned THEN invites[t].slot ELSE 0) \in Slots
      BY <1>1, InviteFacts DEF Slots
    <3>3. r \in Applying /\ r.token = t
      BY <3>1, <3>2 DEF Invites!Applicant, Applying, AnyToken
    <3>4. Issued(t)
      BY <1>1, <2>1 DEF OpenIssued, Invites!ByToken, Invites!Open
    <3>. QED
      BY <2>1, <3>3, <3>4 DEF Invites!ByToken
  <2>2. ASSUME NEW who \in People, NEW slot \in Chosen \cup {0}, Invites!ByLink(p, who, slot)
        PROVE  \E r \in Applying : /\ desk' = [desk EXCEPT ![p] = r]
                                   /\ r.token # Invites!Blank => Issued(r.token)
    <3>. DEFINE r == Invites!Applicant(who, Invites!Blank, slot)
    <3>1. slot \in Slots
      BY EnrolmentAssumption DEF Slots, Invites!Positions
    <3>2. (Invites!Blank \in answered) = FALSE
      BY <1>1 DEF InviteTypes
    <3>3. r \in Applying /\ r.token = Invites!Blank
      BY <3>1, <3>2 DEF Invites!Applicant, Applying, AnyToken
    <3>. QED
      BY <2>2, <3>3 DEF Invites!ByLink
  <2>. QED
    BY <2>1, <2>2
<1>4. r \in Enrolling /\ r.step # "answer" /\ r.token \in AnyToken
  BY DEF Applying, Enrolling
<1>5. InviteTypes'
  BY <1>1, <1>2, <1>3, <1>4 DEF InviteTypes
<1>6. TokenInv'
  BY <1>1, <1>2, <1>3, <1>4, TokensKept DEF TokenInv, Issued, Closed
<1>. QED
  BY <1>1, <1>2, <1>5, <1>6 DEF Records, OpenIssued, Issued

\* Checking: who matches a member is turned away, the others go on.
LEMMA IdentityStep ==
    ASSUME InviteInv, NEW p \in Procs, Invites!CheckIdentity(p)
    PROVE  InviteInv'
<1>. USE DEF InviteInv
<1>1. InviteTypes /\ OpenIssued /\ TokenInv /\ Records
  OBVIOUS
<1>2. UNCHANGED <<members, invites, slug, answered>>
  BY DEF Invites!CheckIdentity
<1>3. desk[p] \in Applying
  BY <1>1, InviteDesk DEF Invites!CheckIdentity
<1>4. PICK r : r = [desk[p] EXCEPT !.step = "commit"]
  OBVIOUS
<1>5. r \in Joining /\ r.token = desk[p].token
  BY <1>3, <1>4 DEF Applying, Joining
<1>6. desk' = [desk EXCEPT ![p] = Invites!Idle] \/ desk' = [desk EXCEPT ![p] = r]
  BY <1>4 DEF Invites!CheckIdentity
<1>7. PICK d \in {Invites!Idle} \cup Joining :
          /\ desk' = [desk EXCEPT ![p] = d]
          /\ d \in Joining => d.token = desk[p].token
  <2>1. Invites!Idle \notin Joining
    BY <1>1, InviteFacts DEF Enrolling
  <2>. QED
    BY <1>5, <1>6, <2>1
<1>8. InviteTypes'
  BY <1>1, <1>2, <1>7 DEF InviteTypes, Enrolling
<1>9. d \in Enrolling => /\ d.step # "answer"
                         /\ d.token # Invites!Blank => Tokened(p) /\ d.token = desk[p].token
  <2>1. d \in Enrolling => d \in Joining
    BY <1>1, <1>7, InviteFacts
  <2>. QED
    BY <1>3, <1>7, <2>1 DEF Tokened, Enrolling, Joining
<1>10. TokenInv'
  <2>1. \A t \in Tokens : (Issued(t) => Issued(t)') /\ (Closed(t) => Closed(t)')
    BY <1>2 DEF Issued, Closed
  <2>2. \A t \in answered' : Closed(t)'
    BY <1>1, <1>2 DEF TokenInv, Closed, Issued
  <2>3. d \in Enrolling /\ d.token # Invites!Blank => invites'[d.token].slot # 0
    BY <1>1, <1>2, <1>9 DEF TokenInv, Issued
  <2>. QED
    BY <1>1, <1>7, <1>9, <2>1, <2>2, <2>3, TokensKept
<1>. QED
  BY <1>1, <1>2, <1>8, <1>10 DEF Records, OpenIssued, Issued

\* The end of a registration: who joins came by a token that was not used up.
LEMMA JoinStep ==
    ASSUME InviteInv, NEW p \in Procs, Invites!Commit(p)
    PROVE  InviteInv'
<1>. USE DEF InviteInv
<1>1. InviteTypes /\ OpenIssued /\ TokenInv /\ Records
  OBVIOUS
<1>2. UNCHANGED <<invites, slug, answered>>
  BY DEF Invites!Commit
<1>3. desk[p] \in Joining
  BY <1>1, InviteDesk DEF Invites!Commit
<1>4. desk[p].late = FALSE /\ desk[p].token \in AnyToken
  BY <1>3 DEF Joining
<1>5. PICK r : r = IF desk[p].token = Invites!Blank THEN Invites!Idle
                   ELSE [step |-> "spend", token |-> desk[p].token]
  OBVIOUS
<1>6. /\ desk' = [desk EXCEPT ![p] = Invites!Idle] \/ desk' = [desk EXCEPT ![p] = r]
      /\ \A m \in members' : m \in members \/ ~m.late
  BY <1>4, <1>5 DEF Invites!Commit
<1>10. \/ r = Invites!Idle
       \/ /\ r \in Ending /\ r.step = "spend" /\ r.token = desk[p].token
          /\ desk[p].token # Invites!Blank
  BY <1>4, <1>5 DEF Ending, AnyToken
<1>7. InviteTypes'
  BY <1>1, <1>2, <1>6, <1>10 DEF InviteTypes, Enrolling
<1>8. Records'
  BY <1>1, <1>2, <1>6 DEF Records
<1>9. TokenInv'
  <2>1. \A t \in Tokens : (Issued(t) => Issued(t)') /\ (Closed(t) => Closed(t)')
    BY <1>2 DEF Issued, Closed
  <2>2. \A t \in answered' : Closed(t)'
    BY <1>1, <1>2 DEF TokenInv, Closed, Issued
  <2>3. r # Invites!Idle => r.step # "answer" /\ invites'[r.token].slot # 0
    BY <1>1, <1>2, <1>3, <1>10 DEF TokenInv, Issued, Tokened, Enrolling
  <2>. QED
    BY <1>1, <1>6, <2>1, <2>2, <2>3, InviteFacts, TokensKept
<1>. QED
  BY <1>1, <1>2, <1>7, <1>8, <1>9 DEF OpenIssued, Issued

\* The token is closed before the answer, and the answer is remembered.
LEMMA EndStep ==
    ASSUME InviteInv, NEW p \in Procs, Invites!SpendInvite(p) \/ Invites!Respond(p) \/ Invites!Fail(p)
    PROVE  InviteInv'
<1>. USE DEF InviteInv
<1>1. InviteTypes /\ OpenIssued /\ TokenInv /\ Records
  OBVIOUS
<1>2. ASSUME Invites!SpendInvite(p)
      PROVE  InviteInv'
  <2>. DEFINE t == desk[p].token
              r == [desk[p] EXCEPT !.step = "answer"]
  <2>1. /\ invites' = [invites EXCEPT ![t].active = FALSE]
        /\ desk' = [desk EXCEPT ![p] = r]
        /\ UNCHANGED <<members, slug, answered>>
    BY <1>1, <1>2 DEF Invites!SpendInvite, InviteTypes
  <2>2. desk[p] \in Ending /\ t \in Tokens \ {Invites!Blank}
    BY <1>1, <1>2, InviteDesk DEF Invites!SpendInvite, Ending
  <2>3. r \in Ending /\ r.token = t
    BY <2>2 DEF Ending
  <2>4. t \in Tokens /\ Issued(t)
    BY <1>1, <2>2 DEF TokenInv, Tokened, Enrolling
  <2>. HIDE DEF r, t
  <2>5. \A u \in Tokens : /\ invites'[u].slot = invites[u].slot
                          /\ invites'[u].active = IF u = t THEN FALSE ELSE invites[u].active
    BY <1>1, <2>1 DEF InviteTypes
  <2>6. InviteTypes'
    <3>1. invites' \in [Tokens -> [active : BOOLEAN, slot : Slots]]
      BY <1>1, <2>1 DEF InviteTypes
    <3>. QED
      BY <1>1, <2>1, <2>3, <3>1 DEF InviteTypes, Enrolling
  <2>7. TokenInv'
    <3>1. \A u \in Tokens : (Issued(u) => Issued(u)') /\ (Closed(u) => Closed(u)')
      BY <2>5 DEF Issued, Closed
    <3>2. \A u \in answered' : Closed(u)'
      BY <1>1, <2>1, <3>1 DEF TokenInv, InviteTypes
    <3>3. r.token # Invites!Blank => invites'[r.token].slot # 0 /\ ~invites'[r.token].active
      BY <2>3, <2>4, <2>5 DEF Issued
    <3>. QED
      BY <1>1, <2>1, <3>1, <3>2, <3>3, TokensKept
  <2>. QED
    BY <1>1, <2>1, <2>5, <2>6, <2>7 DEF OpenIssued, Issued, Records
<1>3. ASSUME Invites!Respond(p) \/ Invites!Fail(p)
      PROVE  InviteInv'
  <2>1. /\ UNCHANGED <<members, invites, slug>>
        /\ desk' = [desk EXCEPT ![p] = Invites!Idle]
    BY <1>3 DEF Invites!Respond, Invites!Fail
  <2>2. answered' = answered \/ (desk[p].step = "answer" /\
                                 answered' = answered \cup {desk[p].token})
    BY <1>3 DEF Invites!Respond, Invites!Fail
  <2>3. desk[p].step = "answer" => /\ desk[p] \in Enrolling
                                   /\ desk[p].token \in Tokens \ {Invites!Blank}
    BY <1>1, InviteDesk DEF Ending, Enrolling
  <2>4. \A t \in answered' : t \in Tokens \ {Invites!Blank} /\ Closed(t)
    BY <1>1, <2>2, <2>3 DEF InviteTypes, TokenInv, Tokened
  <2>5. InviteTypes'
    BY <1>1, <2>1, <2>4 DEF InviteTypes
  <2>6. TokenInv'
    <3>1. \A t \in Tokens : (Issued(t) => Issued(t)') /\ (Closed(t) => Closed(t)')
      BY <2>1 DEF Issued, Closed
    <3>2. \A t \in answered' : Closed(t)'
      BY <2>4, <3>1
    <3>. QED
      BY <1>1, <2>1, <3>1, <3>2, InviteFacts, TokensKept
  <2>. QED
    BY <1>1, <2>1, <2>5, <2>6 DEF OpenIssued, Issued, Records
<1>. QED
  BY <1>2, <1>3

\* The steps of enrolment together.
LEMMA InviteStep ==
    ASSUME InviteInv, [Invites!Next]_(Invites!vars)
    PROVE  InviteInv'
<1>1. CASE UNCHANGED Invites!vars
  BY <1>1 DEF Invites!vars, InviteInv, InviteTypes, OpenIssued, TokenInv, Records, Issued,
              Closed, Tokened
<1>2. CASE Invites!Next
  BY <1>2, InviteIssued, LinkShown, CameIn, IdentityStep, JoinStep, EndStep DEF Invites!Next
<1>. QED
  BY <1>1, <1>2

\* It begins with no token issued.
LEMMA InviteStarts ==
    ASSUME Invites!Init
    PROVE  InviteInv
<1>1. InviteTypes /\ answered = {} /\ desk = [p \in Procs |-> Invites!Idle]
  BY DEF Invites!Init, InviteTypes, Invites!NoInvite, Slots
<1>2. TokenInv
  BY <1>1, InviteFacts DEF TokenInv, Tokened
<1>3. OpenIssued /\ Records
  BY DEF Invites!Init, OpenIssued, Records, Invites!NoInvite
<1>. QED
  BY <1>1, <1>2, <1>3 DEF InviteInv

\* Once a registration by invite was answered with success, nobody registers
\* by the same token who comes later.
THEOREM InvitesClose == Spec => []InviteClosed
<1>1. Init => (part = "enrolment" => InviteInv)
  BY PartInits, InviteStarts
<1>2. (part = "enrolment" => InviteInv) /\ [Next]_vars => (part = "enrolment" => InviteInv)'
  BY PartSteps, InviteStep
<1>3. (part = "enrolment" => InviteInv) => InviteClosed
  BY DEF InviteClosed, Invites!InviteClosed, InviteInv, Records, TokenInv, Closed
<1>. QED
  BY <1>1, <1>2, <1>3, PTL DEF Spec

\* Any two of them are the same person to the check.  The members among them,
\* and those who passed the check and are not members yet.
Clique(W) == \A a, b \in W : Invites!Matches(a, b)
Among(W)  == {m \in members : m.who \in W}
Passed(W) == {p \in Procs : desk[p].step = "commit" /\ desk[p].who \in W}
Crowd(W)  == Cardinality(Among(W)) + Cardinality(Passed(W))

\* Who passes the check finds nobody of the clique among the members, so that
\* all of it are requests in flight; from then on one of them becomes one of
\* the others, or gives up.
CopyInv ==
    /\ IsFiniteSet(members)
    /\ \A W : Clique(W) => Crowd(W) <= Cardinality(Procs)

\* Both parts of a crowd are finite.
LEMMA CrowdFacts ==
    ASSUME IsFiniteSet(members), NEW W
    PROVE  /\ IsFiniteSet(Among(W)) /\ Cardinality(Among(W)) \in Nat
           /\ IsFiniteSet(Passed(W)) /\ Cardinality(Passed(W)) \in Nat
           /\ Cardinality(Passed(W)) <= Cardinality(Procs) /\ Cardinality(Procs) \in Nat
<1>1. Among(W) \in SUBSET members /\ Passed(W) \in SUBSET Procs
  BY DEF Among, Passed
<1>2. IsFiniteSet(Procs)
  BY EnrolmentAssumption
<1>. QED
  BY <1>1, <1>2, FS_Subset, FS_CardinalityType

\* A step of p that adds no member and after which p is at no commit.
LEMMA CrowdKept ==
    ASSUME CopyInv, InviteTypes, NEW p \in Procs, members' = members, NEW r,
           desk' = [desk EXCEPT ![p] = r], r.step # "commit"
    PROVE  CopyInv'
<1>1. ASSUME NEW W, Clique(W)
      PROVE  Crowd(W)' <= Cardinality(Procs)
  <2>1. Crowd(W) <= Cardinality(Procs) /\ IsFiniteSet(members)
    BY <1>1 DEF CopyInv
  <2>2. Among(W)' = Among(W)
    BY DEF Among
  <2>3. Passed(W)' \in SUBSET Passed(W)
    BY DEF Passed, InviteTypes
  <2>4. Cardinality(Passed(W)') <= Cardinality(Passed(W)) /\ Cardinality(Passed(W)') \in Nat
    BY <2>1, <2>3, CrowdFacts, FS_Subset, FS_CardinalityType
  <2>. QED
    BY <2>1, <2>2, <2>4, CrowdFacts DEF Crowd
<1>. QED
  BY <1>1 DEF CopyInv, Clique

\* The check: nobody of the clique is a member, or p is turned away.
LEMMA CrowdChecked ==
    ASSUME CopyInv, InviteInv, NEW p \in Procs, Invites!CheckIdentity(p)
    PROVE  CopyInv'
<1>1. InviteTypes /\ members' = members /\ IsFiniteSet(members) /\ desk[p] \in Applying
  BY InviteDesk DEF Invites!CheckIdentity, InviteInv, CopyInv
<1>2. PICK r : r = [desk[p] EXCEPT !.step = "commit"]
  OBVIOUS
<1>3. r.step = "commit" /\ r.who = desk[p].who
  BY <1>1, <1>2 DEF Applying
<1>4. CASE \E m \in members : Invites!Matches(desk[p].who, m.who)
  <2>1. desk' = [desk EXCEPT ![p] = Invites!Idle]
    BY <1>4 DEF Invites!CheckIdentity
  <2>2. Invites!Idle.step # "commit"
    BY DEF Invites!Idle
  <2>. QED
    BY <1>1, <2>1, <2>2, CrowdKept
<1>5. CASE ~ \E m \in members : Invites!Matches(desk[p].who, m.who)
  <2>1. desk' = [desk EXCEPT ![p] = r]
    BY <1>2, <1>5 DEF Invites!CheckIdentity
  <2>2. ASSUME NEW W, Clique(W)
        PROVE  Crowd(W)' <= Cardinality(Procs)
    <3>1. Crowd(W) <= Cardinality(Procs)
      BY <2>2 DEF CopyInv
    <3>2. Among(W)' = Among(W)
      BY <1>1 DEF Among
    <3>3. CASE desk[p].who \in W
      <4>1. Among(W) = {}
        BY <1>5, <2>2, <3>3 DEF Among, Clique
      <4>2. Passed(W)' \in SUBSET Procs
        BY DEF Passed
      <4>3. Cardinality(Passed(W)') <= Cardinality(Procs) /\ Cardinality(Passed(W)') \in Nat
        BY <4>2, EnrolmentAssumption, FS_Subset, FS_CardinalityType
      <4>4. Cardinality(Among(W)') = 0
        BY <3>2, <4>1, FS_EmptySet
      <4>. QED
        BY <4>3, <4>4 DEF Crowd
    <3>4. CASE desk[p].who \notin W
      <4>1. Passed(W)' \in SUBSET Passed(W)
        BY <1>1, <1>3, <2>1, <3>4 DEF Passed, InviteTypes
      <4>2. Cardinality(Passed(W)') <= Cardinality(Passed(W)) /\ Cardinality(Passed(W)') \in Nat
        BY <1>1, <4>1, CrowdFacts, FS_Subset, FS_CardinalityType
      <4>. QED
        BY <1>1, <3>1, <3>2, <4>2, CrowdFacts DEF Crowd
    <3>. QED
      BY <3>3, <3>4
  <2>. QED
    BY <1>1, <2>2 DEF CopyInv, Clique
<1>. QED
  BY <1>4, <1>5

\* At most one position is recommended.
LEMMA OneRecommended ==
    ASSUME NEW a \in Invites!Recommended, NEW b \in Invites!Recommended
    PROVE  a = b
<1>1. /\ a \in Nat /\ b \in Nat /\ a >= 1 /\ b >= 1 /\ Invites!Free(a) /\ Invites!Free(b)
      /\ \A k \in 1 .. a - 1 : ~Invites!Free(k)
      /\ \A k \in 1 .. b - 1 : ~Invites!Free(k)
  BY DEF Invites!Recommended, Invites!Positions
<1>2. CASE a < b
  <2>1. a \in 1 .. b - 1
    BY <1>1, <1>2
  <2>. QED
    BY <1>1, <2>1
<1>3. CASE b < a
  <2>1. b \in 1 .. a - 1
    BY <1>1, <1>3
  <2>. QED
    BY <1>1, <2>1
<1>. QED
  BY <1>1, <1>2, <1>3

\* The commit: who passed the check is a member, and no longer on the way.
LEMMA CrowdJoined ==
    ASSUME CopyInv, InviteInv, NEW p \in Procs, Invites!Commit(p)
    PROVE  CopyInv'
<1>1. InviteTypes /\ IsFiniteSet(members) /\ desk[p] \in Joining /\ desk[p].step = "commit"
  BY InviteDesk DEF Invites!Commit, InviteInv, CopyInv
<1>2. PICK r : r = IF desk[p].token = Invites!Blank THEN Invites!Idle
                   ELSE [step |-> "spend", token |-> desk[p].token]
  OBVIOUS
<1>3. r.step # "commit" /\ Invites!Idle.step # "commit"
  BY <1>2 DEF Invites!Idle
<1>4. PICK at : at = IF desk[p].slot = 0 THEN Invites!Recommended
                     ELSE {desk[p].slot} \ {m.slot : m \in members}
  OBVIOUS
<1>5. \A a, b \in at : a = b
  BY <1>4, OneRecommended
<1>6. CASE at = {}
  <2>1. members' = members /\ desk' = [desk EXCEPT ![p] = Invites!Idle]
    BY <1>4, <1>6 DEF Invites!Commit
  <2>. QED
    BY <1>1, <1>3, <2>1, CrowdKept
<1>7. ASSUME NEW slot \in at
      PROVE  CopyInv'
  <2>1. PICK new : new = [slot |-> slot, who |-> desk[p].who, late |-> desk[p].late]
    OBVIOUS
  <2>2. at = {slot}
    BY <1>5, <1>7
  <2>3. /\ members' = members \cup {[slot |-> k, who |-> desk[p].who, late |-> desk[p].late] : k \in at}
        /\ desk' = [desk EXCEPT ![p] = r]
    BY <1>2, <1>4, <1>7 DEF Invites!Commit
  <2>4. members' = members \cup {new} /\ new.who = desk[p].who
    BY <2>1, <2>2, <2>3
  <2>5. IsFiniteSet(members')
    BY <1>1, <2>4, FS_AddElement
  <2>6. ASSUME NEW W, Clique(W)
        PROVE  Crowd(W)' <= Cardinality(Procs)
    <3>1. Crowd(W) <= Cardinality(Procs)
      BY <2>6 DEF CopyInv
    <3>2. PICK before : before = Passed(W)
      OBVIOUS
    <3>3. PICK after : after = Passed(W)'
      OBVIOUS
    <3>4. PICK in : in = Among(W)
      OBVIOUS
    <3>5. after \in SUBSET before /\ p \notin after
      BY <1>1, <1>3, <2>3, <3>2, <3>3 DEF Passed, InviteTypes
    <3>6. /\ IsFiniteSet(in) /\ Cardinality(in) \in Nat
          /\ IsFiniteSet(before) /\ Cardinality(before) \in Nat
          /\ Cardinality(in) + Cardinality(before) <= Cardinality(Procs)
      BY <1>1, <3>1, <3>2, <3>4, CrowdFacts DEF Crowd
    <3>7. IsFiniteSet(after) /\ Cardinality(after) \in Nat /\ Cardinality(after) <= Cardinality(before)
      BY <3>5, <3>6, FS_Subset, FS_CardinalityType
    <3>8. CASE desk[p].who \in W
      <4>1. Among(W)' = in \cup {new}
        BY <2>4, <3>4, <3>8 DEF Among
      <4>2. Cardinality(in \cup {new}) <= Cardinality(in) + 1 /\ Cardinality(in \cup {new}) \in Nat
        <5>1. PICK more : more = in \cup {new}
          OBVIOUS
        <5>2. IsFiniteSet(more) /\ Cardinality(more) = IF new \in in THEN Cardinality(in)
                                                       ELSE Cardinality(in) + 1
          <6>1. IsFiniteSet(in)
            BY <3>6
          <6>2. /\ IsFiniteSet(in \cup {new})
                /\ Cardinality(in \cup {new}) = IF new \in in THEN Cardinality(in)
                                                ELSE Cardinality(in) + 1
            BY <6>1, FS_AddElement
          <6>. QED
            BY <5>1, <6>2
        <5>3. Cardinality(in) \in Nat
          BY <3>6
        <5>4. Cardinality(more) <= Cardinality(in) + 1 /\ Cardinality(more) \in Nat
          BY <5>2, <5>3
        <5>. QED
          BY <5>1, <5>4
      <4>3. p \in before
        BY <1>1, <3>2, <3>8 DEF Passed
      <4>4. after \in SUBSET (before \ {p})
        BY <3>5
      <4>5. Cardinality(before \ {p}) = Cardinality(before) - 1 /\ IsFiniteSet(before \ {p})
        BY <3>6, <4>3, FS_RemoveElement
      <4>6. Cardinality(after) <= Cardinality(before) - 1
        BY <4>4, <4>5, FS_Subset
      <4>7. Cardinality(in \cup {new}) + Cardinality(after) <= Cardinality(Procs)
        <5>1. Cardinality(Procs) \in Nat
          BY EnrolmentAssumption, FS_CardinalityType
        <5>. QED
          BY <3>6, <3>7, <4>2, <4>6, <5>1
      <4>. QED
        BY <3>3, <4>1, <4>7 DEF Crowd
    <3>9. CASE desk[p].who \notin W
      <4>1. Among(W)' = in
        BY <2>4, <3>4, <3>9 DEF Among
      <4>2. Cardinality(in) + Cardinality(after) <= Cardinality(Procs)
        <5>1. Cardinality(Procs) \in Nat
          BY EnrolmentAssumption, FS_CardinalityType
        <5>. QED
          BY <3>6, <3>7, <5>1
      <4>. QED
        BY <3>3, <4>1, <4>2 DEF Crowd
    <3>. QED
      BY <3>8, <3>9
  <2>. QED
    BY <2>5, <2>6 DEF CopyInv, Clique
<1>. QED
  BY <1>6, <1>7

\* The other steps add no member and pass no check.
LEMMA CrowdStep ==
    ASSUME CopyInv, InviteInv, [Invites!Next]_(Invites!vars)
    PROVE  CopyInv'
<1>1. InviteTypes
  BY DEF InviteInv
<1>2. CASE UNCHANGED Invites!vars
  BY <1>2 DEF Invites!vars, CopyInv, Crowd, Among, Passed, Clique
<1>3. PICK idle : idle = Invites!Idle
  OBVIOUS
<1>4. idle.step # "commit"
  BY <1>3 DEF Invites!Idle
<1>5. ASSUME NEW p \in Procs, NEW slot, Invites!DeactivateInvites(p, slot)
      PROVE  CopyInv'
  <2>1. PICK r : r = [step |-> "issue", slot |-> slot]
    OBVIOUS
  <2>2. desk' = [desk EXCEPT ![p] = r] /\ members' = members /\ r.step # "commit"
    BY <1>5, <2>1 DEF Invites!DeactivateInvites
  <2>. QED
    BY <1>1, <2>2, CrowdKept
<1>6. ASSUME NEW p \in Procs,
             \/ \E t \in Tokens : Invites!IssueInvite(p, t)
             \/ Invites!WriteSlug(p) \/ Invites!Respond(p) \/ Invites!Fail(p)
      PROVE  CopyInv'
  <2>1. desk' = [desk EXCEPT ![p] = idle] /\ members' = members
    BY <1>3, <1>6 DEF Invites!IssueInvite, Invites!WriteSlug, Invites!Respond, Invites!Fail
  <2>. QED
    BY <1>1, <1>4, <2>1, CrowdKept
<1>7. ASSUME NEW p \in Procs, NEW s, Invites!ReadSlug(p, s)
      PROVE  CopyInv'
  <2>1. PICK r : r = [step |-> "slug", slug |-> IF slug = Invites!Blank THEN s ELSE slug]
    OBVIOUS
  <2>2. desk' = [desk EXCEPT ![p] = r] /\ members' = members /\ r.step # "commit"
    BY <1>7, <2>1 DEF Invites!ReadSlug
  <2>. QED
    BY <1>1, <2>2, CrowdKept
<1>8. ASSUME NEW p \in Procs, NEW who, NEW t, NEW slot, members' = members,
             desk' = [desk EXCEPT ![p] = Invites!Applicant(who, t, slot)]
      PROVE  CopyInv'
  <2>1. Invites!Applicant(who, t, slot).step # "commit"
    BY DEF Invites!Applicant
  <2>. QED
    BY <1>1, <1>8, <2>1, CrowdKept
<1>9. ASSUME NEW p \in Procs, NEW who, NEW t, NEW pinned, Invites!ByToken(p, who, t, pinned)
      PROVE  CopyInv'
  BY <1>8, <1>9 DEF Invites!ByToken
<1>10. ASSUME NEW p \in Procs, NEW who, NEW slot, Invites!ByLink(p, who, slot)
       PROVE  CopyInv'
  BY <1>8, <1>10 DEF Invites!ByLink
<1>11. ASSUME NEW p \in Procs, Invites!SpendInvite(p)
       PROVE  CopyInv'
  <2>1. PICK r : r = [desk[p] EXCEPT !.step = "answer"]
    OBVIOUS
  <2>2. desk[p] \in Ending
    BY <1>1, <1>11, InviteDesk DEF Invites!SpendInvite
  <2>3. r.step # "commit"
    BY <2>1, <2>2 DEF Ending
  <2>4. desk' = [desk EXCEPT ![p] = r] /\ members' = members
    BY <1>11, <2>1 DEF Invites!SpendInvite
  <2>. QED
    BY <1>1, <2>3, <2>4, CrowdKept
<1>. QED
  BY <1>2, <1>5, <1>6, <1>7, <1>9, <1>10, <1>11, CrowdChecked, CrowdJoined DEF Invites!Next

\* At the start the fields of every member are blank, which match nothing.
LEMMA CrowdStarts ==
    ASSUME Invites!Init
    PROVE  CopyInv
<1>1. PICK S : S = {[slot |-> 0, who |-> [name |-> who.name, tin |-> Invites!Blank,
                                           dob |-> Invites!Blank], late |-> FALSE] : who \in People}
  OBVIOUS
<1>2. members = S /\ desk = [p \in Procs |-> Invites!Idle]
  BY <1>1 DEF Invites!Init
<1>3. IsFiniteSet(members)
  <2>. DEFINE Old(who) == [slot |-> 0, who |-> [name |-> who.name, tin |-> Invites!Blank,
                                               dob |-> Invites!Blank], late |-> FALSE]
  <2>1. PICK f : f = [who \in People |-> Old(who)]
    OBVIOUS
  <2>2. S = {Old(who) : who \in People}
    BY <1>1
  <2>. HIDE DEF Old
  <2>3. f \in Surjection(People, S)
    BY <2>1, <2>2 DEF Surjection
  <2>4. IsFiniteSet(S)
    BY <2>3, EnrolmentAssumption, FS_Surjection
  <2>. QED
    BY <1>2, <2>4
<1>4. ASSUME NEW W, Clique(W)
      PROVE  Crowd(W) <= Cardinality(Procs)
  <2>1. ASSUME NEW m \in members, m.who \in W
        PROVE  FALSE
    <3>1. m.who.tin = Invites!Blank /\ m.who.dob = Invites!Blank
      BY <1>1, <1>2
    <3>2. Invites!Signals(m.who, m.who) = {}
      BY <3>1 DEF Invites!Signals
    <3>3. ~Invites!Matches(m.who, m.who)
      BY <3>2 DEF Invites!Matches
    <3>. QED
      BY <1>4, <2>1, <3>3 DEF Clique
  <2>2. Among(W) = {}
    BY <2>1 DEF Among
  <2>3. Cardinality(Among(W)) = 0
    BY <2>2, FS_EmptySet
  <2>. QED
    BY <1>3, <2>3, CrowdFacts DEF Crowd
<1>. QED
  BY <1>3, <1>4 DEF CopyInv

\* The count of the module is a cardinality.
LEMMA InviteCount ==
    ASSUME NEW S
    PROVE  Invites!Cardinality(S) = Cardinality(S)
BY DEF Invites!Cardinality, Invites!IsFiniteSet, Cardinality, IsFiniteSet

\* A clique that holds what some members gave.
LEMMA CrowdBounds ==
    ASSUME CopyInv, NEW H, H \subseteq members,
           \A a, b \in H : Invites!Matches(a.who, b.who)
    PROVE  Cardinality(H) <= Cardinality(Procs)
<1>1. PICK W : W = {m.who : m \in H}
  OBVIOUS
<1>2. Clique(W)
  BY <1>1 DEF Clique
<1>3. IsFiniteSet(members) /\ Crowd(W) <= Cardinality(Procs)
  BY <1>2 DEF CopyInv
<1>4. H \in SUBSET Among(W)
  BY <1>1 DEF Among
<1>5. Cardinality(H) <= Cardinality(Among(W)) /\ Cardinality(H) \in Nat
  BY <1>3, <1>4, CrowdFacts, FS_Subset, FS_CardinalityType
<1>. QED
  BY <1>3, <1>5, CrowdFacts DEF Crowd

\* Who gave the same TIN, or the same name and date of birth, is a member at
\* most as often as requests are in flight at once.
THEOREM CopiesStayBounded == Spec => []CopiesBounded
<1>. DEFINE Inv == part = "enrolment" => InviteInv /\ CopyInv
<1>1. Init => Inv
  BY PartInits, InviteStarts, CrowdStarts
<1>2. Inv /\ [Next]_vars => Inv'
  BY PartSteps, InviteStep, CrowdStep
<1>3. Inv => CopiesBounded
  <2>. SUFFICES ASSUME CopyInv
                PROVE  Invites!CopiesBounded
    BY DEF CopiesBounded
  <2>1. ASSUME NEW tin, tin \notin {Invites!Blank, Invites!ZeroTin}
        PROVE  Cardinality(Invites!Holders(tin)) <= Cardinality(Procs)
    <3>1. PICK H : H = Invites!Holders(tin)
      OBVIOUS
    <3>2. H \subseteq members /\ \A a \in H : a.who.tin = tin
      BY <3>1 DEF Invites!Holders
    <3>3. \A a, b \in H : Invites!Matches(a.who, b.who)
      BY <2>1, <3>2 DEF Invites!Matches, Invites!Signals
    <3>. QED
      BY <3>1, <3>2, <3>3, CrowdBounds
  <2>2. ASSUME NEW name, NEW dob, dob # Invites!Blank
        PROVE  Cardinality(Invites!Namesakes(name, dob)) <= Cardinality(Procs)
    <3>1. PICK H : H = Invites!Namesakes(name, dob)
      OBVIOUS
    <3>2. H \subseteq members /\ \A a \in H : a.who.name = name /\ a.who.dob = dob
      BY <3>1 DEF Invites!Namesakes
    <3>3. \A a, b \in H : "dob" \in Invites!Signals(a.who, b.who)
      BY <2>2, <3>2 DEF Invites!Signals
    <3>4. \A a, b \in H : Invites!Matches(a.who, b.who)
      BY <3>2, <3>3 DEF Invites!Matches
    <3>. QED
      BY <3>1, <3>2, <3>4, CrowdBounds
  <2>. QED
    BY <2>1, <2>2, InviteCount DEF Invites!CopiesBounded
<1>. QED
  BY <1>1, <1>2, <1>3, PTL DEF Spec
-----------------------------------------------------------------------------
(***************************************************************************)
(* Access.                                                                 *)
(***************************************************************************)
MemberRow == [status : Sessions!Statuses, password : Passwords, legacy : BOOLEAN]
Session   == [uid : {Sessions!None, "member"}, admin : Nat,
              role : Sessions!Roles \cup {Sessions!None}, status : {Sessions!None, "active"}]
Account   == [id : Nat, name : Names, role : Sessions!Roles]

Entering == [step : {"rehash", "status"}, typed : Passwords, status : Sessions!Statuses]
Acting   == [step : {"member", "handler"}, sid : Sids, session : Session, barred : BOOLEAN]
Viewing  == [step : {"viewing"}, sid : Sids, loaded : Session, session : Session]
Creating == [step : {"create"}, account : Account]
Changing == [step : {"change"}, account : Account, to : Sessions!Roles \cup {Sessions!None},
             removes : BOOLEAN]
AnyDesk  == {Sessions!Idle} \cup Entering \cup Acting \cup Viewing \cup Creating \cup Changing

AccessTypes ==
    /\ member \in MemberRow
    /\ store \in [Sids -> Session]
    /\ accounts \subseteq Account /\ IsFiniteSet(accounts)
    /\ desk \in [Procs -> AnyDesk]
    /\ overlapped \in BOOLEAN

\* A session that is not a member's and an administrator's at once.
Sound(session) == session.uid = Sessions!None \/ session.admin = 0

\* What a request of a member has copied is sound, and since it came in the
\* member has been active, or is not now, or the check is still to come.
SessionInv ==
    /\ \A s \in Sids : Sound(store[s])
    /\ \A p \in Procs : desk[p] \in Acting =>
          /\ Sound(desk[p].session)
          /\ desk[p].barred => member.status # "active"
          /\ desk[p].step = "handler" => ~desk[p].barred

\* One creation at a time, and its account is new; changes are of different
\* accounts, which are as they were.
Creations ==
    /\ \A p, q \in Procs : desk[p] \in Creating /\ desk[q] \in Creating => p = q
    /\ \A p \in Procs : desk[p] \in Creating =>
          \A a \in accounts : a.id # desk[p].account.id /\ a.name # desk[p].account.name

Changes ==
    /\ \A p, q \in Procs :
          desk[p] \in Changing /\ desk[q] \in Changing
            /\ desk[p].account.id = desk[q].account.id => p = q
    /\ \A p \in Procs : desk[p] \in Changing =>
          /\ desk[p].account \in accounts
          /\ desk[p].removes <=> /\ desk[p].account.role = "administrator"
                                 /\ desk[p].to # "administrator"

Unique == \A a, b \in accounts : (a.id = b.id \/ a.name = b.name) => a = b

\* Does the request take full access away?  As long as no two do at once,
\* there is another account that keeps it.
Takes(p) == desk[p] \in Changing /\ desk[p].removes

FullKept ==
    ~overlapped =>
        /\ Sessions!Full(accounts) # {}
        /\ \A p \in Procs : Takes(p) => Sessions!Remaining(desk[p].account.id) # {}
        /\ \A p, q \in Procs : Takes(p) /\ Takes(q) => p = q

AccountInv == Creations /\ Changes /\ Unique /\ FullKept

AccessInv == AccessTypes /\ SessionInv /\ AccountInv

\* What a request is doing, by its step.
LEMMA AccessDesk ==
    ASSUME AccessTypes, NEW p \in Procs
    PROVE  /\ desk[p].step \in {"rehash", "status"} <=> desk[p] \in Entering
           /\ desk[p].step \in {"member", "handler"} <=> desk[p] \in Acting
           /\ desk[p].step = "viewing" <=> desk[p] \in Viewing
           /\ desk[p].step = "create" <=> desk[p] \in Creating
           /\ desk[p].step = "change" <=> desk[p] \in Changing
           /\ desk[p].step = "idle" <=> desk[p] = Sessions!Idle
<1>1. Sessions!Idle.step = "idle"
  BY DEF Sessions!Idle
<1>2. \A d \in Entering : d.step \in {"rehash", "status"}
  BY DEF Entering
<1>3. \A d \in Acting : d.step \in {"member", "handler"}
  BY DEF Acting
<1>4. \A d \in Viewing : d.step = "viewing"
  BY DEF Viewing
<1>5. \A d \in Creating : d.step = "create"
  BY DEF Creating
<1>6. \A d \in Changing : d.step = "change"
  BY DEF Changing
<1>7. desk[p] \in AnyDesk
  BY DEF AccessTypes
<1>. QED
  BY <1>1, <1>2, <1>3, <1>4, <1>5, <1>6, <1>7 DEF AnyDesk

\* The kinds of requests are apart.
LEMMA KindsApart ==
    /\ Sessions!Idle \notin Entering \cup Acting \cup Viewing \cup Creating \cup Changing
    /\ \A d \in Entering \cup Viewing : d \notin Acting \cup Creating \cup Changing
    /\ \A d \in Acting : d \notin Creating \cup Changing
    /\ \A d \in Creating \cup Changing : d \notin Acting
    /\ \A d \in Creating : d \notin Changing
<1>1. Sessions!Idle.step = "idle"
  BY DEF Sessions!Idle
<1>2. \A d \in Entering : d.step \in {"rehash", "status"}
  BY DEF Entering
<1>3. \A d \in Acting : d.step \in {"member", "handler"}
  BY DEF Acting
<1>4. \A d \in Viewing : d.step = "viewing"
  BY DEF Viewing
<1>5. \A d \in Creating : d.step = "create"
  BY DEF Creating
<1>6. \A d \in Changing : d.step = "change"
  BY DEF Changing
<1>. QED
  BY <1>1, <1>2, <1>3, <1>4, <1>5, <1>6

\* A step of one request that keeps sessions sound.
LEMMA SoundKept ==
    ASSUME AccessTypes, SessionInv, NEW p \in Procs, NEW r,
           desk' = [desk EXCEPT ![p] = r], member'.status = member.status,
           \A s \in Sids : Sound(store'[s]),
           r \in Acting => /\ Sound(r.session)
                           /\ r.barred => member.status # "active"
                           /\ r.step = "handler" => ~r.barred
    PROVE  SessionInv'
<1>1. ASSUME NEW q \in Procs, desk'[q] \in Acting
      PROVE  /\ Sound(desk'[q].session)
             /\ desk'[q].barred => member'.status # "active"
             /\ desk'[q].step = "handler" => ~desk'[q].barred
  <2>1. desk'[q] = IF q = p THEN r ELSE desk[q]
    BY DEF AccessTypes
  <2>2. CASE q = p
    BY <1>1, <2>1, <2>2
  <2>3. CASE q # p
    BY <1>1, <2>1, <2>3 DEF SessionInv
  <2>. QED
    BY <2>2, <2>3
<1>. QED
  BY <1>1 DEF SessionInv, Sound

\* A step of one request that has to do with no account, at least afterwards.
LEMMA AccountsKept ==
    ASSUME AccessTypes, AccountInv, NEW p \in Procs, NEW r,
           desk' = [desk EXCEPT ![p] = r], UNCHANGED <<accounts, overlapped>>,
           r \notin Creating \cup Changing
    PROVE  AccountInv'
<1>1. \A q \in Procs : desk'[q] = IF q = p THEN r ELSE desk[q]
  BY DEF AccessTypes
<1>2. \A q \in Procs : desk'[q] \in Creating \cup Changing => q # p /\ desk'[q] = desk[q]
  BY <1>1
<1>3. Creations'
  BY <1>2 DEF AccountInv, Creations
<1>4. Changes'
  <2>1. \A q \in Procs : desk'[q] \in Changing => desk[q] \in Changing /\ desk'[q] = desk[q]
    BY <1>2
  <2>2. ASSUME NEW q \in Procs, NEW c \in Procs, desk'[q] \in Changing, desk'[c] \in Changing,
               desk'[q].account.id = desk'[c].account.id
        PROVE  q = c
    BY <2>1, <2>2 DEF AccountInv, Changes
  <2>3. ASSUME NEW q \in Procs, desk'[q] \in Changing
        PROVE  /\ desk'[q].account \in accounts'
               /\ desk'[q].removes <=> /\ desk'[q].account.role = "administrator"
                                       /\ desk'[q].to # "administrator"
    BY <2>1, <2>3 DEF AccountInv, Changes
  <2>. QED
    BY <2>2, <2>3 DEF Changes
<1>5. \A q \in Procs : Takes(q)' => Takes(q) /\ desk'[q] = desk[q]
  BY <1>2 DEF Takes
<1>6. FullKept'
  BY <1>5 DEF AccountInv, FullKept, Sessions!Remaining, Sessions!Full
<1>. QED
  BY <1>3, <1>4, <1>6 DEF AccountInv, Unique

\* The store after a sound session was inserted.
LEMMA InsertSound ==
    ASSUME AccessInv, NEW s \in Sids, NEW x \in Session, Sound(x), Sessions!Insert(s, x)
    PROVE  store' \in [Sids -> Session] /\ \A t \in Sids : Sound(store'[t])
BY DEF AccessInv, AccessTypes, SessionInv, Sessions!Insert

\* The store as it was, and the member.
LEMMA AccessFacts ==
    ASSUME AccessInv
    PROVE  /\ store \in [Sids -> Session] /\ \A t \in Sids : Sound(store[t])
           /\ \A t \in Sids : store[t] \in Session
           /\ member \in MemberRow /\ member.status \in Sessions!Statuses
           /\ AccessTypes /\ SessionInv /\ AccountInv
           /\ Sessions!NoSession \in Session /\ Sound(Sessions!NoSession)
<1>1. Sessions!NoSession \in Session /\ Sound(Sessions!NoSession)
  BY DEF Session, Sessions!NoSession, Sound, Sessions!None
<1>. QED
  BY <1>1 DEF AccessInv, AccessTypes, SessionInv, MemberRow

\* A step of one request, after which it has to do with no account.
LEMMA DeskStep ==
    ASSUME AccessInv, NEW p \in Procs, NEW r \in AnyDesk,
           desk' = [desk EXCEPT ![p] = r], r \notin Creating \cup Changing,
           r \in Acting => /\ Sound(r.session)
                           /\ r.barred => member.status # "active"
                           /\ r.step = "handler" => ~r.barred,
           member' \in MemberRow, member'.status = member.status,
           store' \in [Sids -> Session], \A s \in Sids : Sound(store'[s]),
           UNCHANGED <<accounts, overlapped>>
    PROVE  AccessInv'
<1>1. AccessTypes'
  BY DEF AccessInv, AccessTypes
<1>2. SessionInv'
  BY SoundKept DEF AccessInv
<1>3. AccountInv'
  BY AccountsKept DEF AccessInv
<1>. QED
  BY <1>1, <1>2, <1>3 DEF AccessInv

\* Signing in: what the row said is what decides.
LEMMA LoginStep ==
    ASSUME AccessInv, NEW p \in Procs,
           \/ \E pw \in Passwords : Sessions!LoginRead(p, pw)
           \/ Sessions!LoginRehash(p)
           \/ \E s \in Sids : Sessions!SignIn(p, s)
    PROVE  AccessInv'
<1>1. AccessTypes
  BY AccessFacts
<1>2. \A r \in Entering : r \in AnyDesk /\ r \notin Acting \cup Creating \cup Changing
  BY KindsApart DEF AnyDesk
<1>3. ASSUME NEW pw \in Passwords, Sessions!LoginRead(p, pw)
      PROVE  AccessInv'
  <2>. DEFINE r == [step   |-> IF member.legacy THEN "rehash" ELSE "status",
                    typed  |-> pw, status |-> member.status]
  <2>1. r \in Entering
    BY AccessFacts DEF Entering
  <2>2. desk' = [desk EXCEPT ![p] = r] /\ UNCHANGED <<member, store, accounts, overlapped>>
    BY <1>3 DEF Sessions!LoginRead
  <2>. HIDE DEF r
  <2>. QED
    BY <1>2, <2>1, <2>2, AccessFacts, DeskStep
<1>4. ASSUME Sessions!LoginRehash(p)
      PROVE  AccessInv'
  <2>. DEFINE r == [desk[p] EXCEPT !.step = "status"]
  <2>1. desk[p] \in Entering
    BY <1>1, <1>4, AccessDesk DEF Sessions!LoginRehash
  <2>2. r \in Entering
    BY <2>1 DEF Entering
  <2>3. desk' = [desk EXCEPT ![p] = r] /\ UNCHANGED <<store, accounts, overlapped>>
    BY <1>4 DEF Sessions!LoginRehash
  <2>4. member' \in MemberRow /\ member'.status = member.status
    BY <1>4, <2>1, AccessFacts DEF Sessions!LoginRehash, MemberRow, Entering
  <2>. HIDE DEF r
  <2>. QED
    BY <1>2, <2>2, <2>3, <2>4, AccessFacts, DeskStep
<1>5. ASSUME NEW s \in Sids, Sessions!SignIn(p, s)
      PROVE  AccessInv'
  <2>. DEFINE x == [Sessions!NoSession EXCEPT !.uid = "member", !.status = "active"]
  <2>1. x \in Session /\ Sound(x)
    BY DEF Session, Sound, Sessions!NoSession, Sessions!None
  <2>2. /\ desk' = [desk EXCEPT ![p] = Sessions!Idle] /\ UNCHANGED <<member, accounts, overlapped>>
        /\ store' = store \/ Sessions!Insert(s, x)
    BY <1>5 DEF Sessions!SignIn, Sessions!Answer
  <2>. HIDE DEF x
  <2>3. store' \in [Sids -> Session] /\ \A t \in Sids : Sound(store'[t])
    BY <2>1, <2>2, AccessFacts, InsertSound
  <2>4. Sessions!Idle \in AnyDesk
    BY DEF AnyDesk
  <2>. QED
    BY <2>2, <2>3, <2>4, AccessFacts, DeskStep, KindsApart
<1>. QED
  BY <1>3, <1>4, <1>5

\* A member's request: a barred session gets no handler.
LEMMA RequestStep ==
    ASSUME AccessInv, NEW p \in Procs,
           (\E s \in Sids : Sessions!MemberRequest(p, s)) \/ Sessions!CheckStatus(p)
    PROVE  AccessInv'
<1>1. AccessTypes /\ SessionInv
  BY AccessFacts
<1>2. \A r \in Acting : r \in AnyDesk /\ r \notin Creating \cup Changing
  BY KindsApart DEF AnyDesk
<1>3. ASSUME NEW s \in Sids, Sessions!MemberRequest(p, s)
      PROVE  AccessInv'
  <2>. DEFINE b == member.status # "active"
              r == [step |-> "member", sid |-> s, session |-> store[s], barred |-> b]
  <2>1. b \in BOOLEAN /\ (b => member.status # "active")
    OBVIOUS
  <2>2. desk' = [desk EXCEPT ![p] = r] /\ UNCHANGED <<member, store, accounts, overlapped>>
    BY <1>3 DEF Sessions!MemberRequest
  <2>. HIDE DEF b
  <2>3. r \in Acting /\ Sound(r.session) /\ r.barred = b /\ r.step = "member"
    BY <2>1, AccessFacts DEF Acting
  <2>. HIDE DEF r
  <2>. QED
    BY <1>2, <2>1, <2>2, <2>3, AccessFacts, DeskStep
<1>4. ASSUME Sessions!CheckStatus(p)
      PROVE  AccessInv'
  <2>1. desk[p] \in Acting /\ desk[p].step = "member"
    BY <1>1, <1>4, AccessDesk DEF Sessions!CheckStatus
  <2>2. desk[p].barred => member.status # "active"
    BY <1>1, <2>1 DEF SessionInv
  <2>3. UNCHANGED <<member, accounts, overlapped>>
    BY <1>4 DEF Sessions!CheckStatus
  <2>4. CASE member.status = "active"
    <3>. DEFINE r == [desk[p] EXCEPT !.step = "handler"]
    <3>1. desk' = [desk EXCEPT ![p] = r] /\ store' = store
      BY <1>4, <2>4 DEF Sessions!CheckStatus, Sessions!StatusOf
    <3>2. /\ r \in Acting /\ r.session = desk[p].session
          /\ r.barred = desk[p].barred /\ r.step = "handler"
      BY <2>1 DEF Acting
    <3>3. Sound(r.session)
      BY <1>1, <2>1, <3>2 DEF SessionInv
    <3>. HIDE DEF r
    <3>. QED
      BY <1>2, <2>2, <2>3, <2>4, <3>1, <3>2, <3>3, AccessFacts, DeskStep
  <2>5. CASE member.status # "active"
    <3>1. desk' = [desk EXCEPT ![p] = Sessions!Idle] /\ Sessions!Insert(desk[p].sid, Sessions!NoSession)
      BY <1>4, <2>5 DEF Sessions!CheckStatus, Sessions!StatusOf, Sessions!Answer
    <3>2. desk[p].sid \in Sids
      BY <2>1 DEF Acting
    <3>3. store' \in [Sids -> Session] /\ \A t \in Sids : Sound(store'[t])
      BY <3>1, <3>2, AccessFacts, InsertSound
    <3>4. Sessions!Idle \in AnyDesk
      BY DEF AnyDesk
    <3>. QED
      BY <2>3, <3>1, <3>3, <3>4, AccessFacts, DeskStep, KindsApart
  <2>. QED
    BY <2>4, <2>5
<1>. QED
  BY <1>3, <1>4

\* The handlers: a session that is written back is as sound as the copy.
LEMMA HandlerStep ==
    ASSUME AccessInv, NEW p \in Procs,
           \/ Sessions!HandlePlain(p) \/ Sessions!HandleUpgrade(p)
           \/ \E pw \in Passwords : Sessions!HandlePassword(p, pw)
    PROVE  AccessInv'
<1>1. AccessTypes /\ SessionInv
  BY AccessFacts
<1>2. desk[p] \in Acting
  BY <1>1, AccessDesk DEF Sessions!HandlePlain, Sessions!HandleUpgrade, Sessions!HandlePassword
<1>3. desk[p].sid \in Sids /\ desk[p].session \in Session /\ Sound(desk[p].session)
  BY <1>1, <1>2 DEF SessionInv, Acting
<1>4. desk' = [desk EXCEPT ![p] = Sessions!Idle] /\ UNCHANGED <<accounts, overlapped>>
  BY DEF Sessions!HandlePlain, Sessions!HandleUpgrade, Sessions!HandlePassword, Sessions!Answer
<1>5. store' = store \/ Sessions!Insert(desk[p].sid, desk[p].session)
  BY DEF Sessions!HandlePlain, Sessions!HandleUpgrade, Sessions!HandlePassword
<1>6. store' \in [Sids -> Session] /\ \A t \in Sids : Sound(store'[t])
  BY <1>3, <1>5, AccessFacts, InsertSound
<1>7. member' \in MemberRow /\ member'.status = member.status
  BY AccessFacts DEF Sessions!HandlePlain, Sessions!HandleUpgrade, Sessions!HandlePassword, MemberRow
<1>8. Sessions!Idle \in AnyDesk
  BY DEF AnyDesk
<1>. QED
  BY <1>4, <1>6, <1>7, <1>8, DeskStep, KindsApart

\* Viewing as a member: the override is taken back before the session is saved.
LEMMA ViewStep ==
    ASSUME AccessInv, NEW p \in Procs,
           (\E s \in Sids : Sessions!ViewAs(p, s)) \/ Sessions!EndView(p)
    PROVE  AccessInv'
<1>1. AccessTypes
  BY AccessFacts
<1>2. ASSUME NEW s \in Sids, Sessions!ViewAs(p, s)
      PROVE  AccessInv'
  <2>. DEFINE r == [step |-> "viewing", sid |-> s, loaded |-> store[s],
                    session |-> [store[s] EXCEPT !.uid = "member"]]
  <2>1. [store[s] EXCEPT !.uid = "member"] \in Session
    BY AccessFacts DEF Session
  <2>2. r \in Viewing
    BY <2>1, AccessFacts DEF Viewing
  <2>3. desk' = [desk EXCEPT ![p] = r] /\ UNCHANGED <<member, store, accounts, overlapped>>
    BY <1>2 DEF Sessions!ViewAs
  <2>. HIDE DEF r
  <2>4. r \in AnyDesk /\ r \notin Acting \cup Creating \cup Changing
    BY <2>2, KindsApart DEF AnyDesk
  <2>. QED
    BY <2>3, <2>4, AccessFacts, DeskStep
<1>3. ASSUME Sessions!EndView(p)
      PROVE  AccessInv'
  <2>. DEFINE x == Sessions!Restored(desk[p].session)
  <2>1. desk[p] \in Viewing
    BY <1>1, <1>3, AccessDesk DEF Sessions!EndView
  <2>2. desk[p].sid \in Sids /\ x \in Session /\ Sound(x)
    BY <2>1 DEF Viewing, Session, Sessions!Restored, Sound
  <2>3. /\ store' = store \/ Sessions!Insert(desk[p].sid, x)
        /\ desk' = [desk EXCEPT ![p] = Sessions!Idle]
        /\ UNCHANGED <<member, accounts, overlapped>>
    BY <1>3 DEF Sessions!EndView, Sessions!Answer
  <2>. HIDE DEF x
  <2>4. store' \in [Sids -> Session] /\ \A t \in Sids : Sound(store'[t])
    BY <2>2, <2>3, AccessFacts, InsertSound
  <2>5. Sessions!Idle \in AnyDesk
    BY DEF AnyDesk
  <2>. QED
    BY <2>3, <2>4, <2>5, AccessFacts, DeskStep, KindsApart
<1>. QED
  BY <1>2, <1>3

\* Steps that leave the requests, the member's status and the accounts alone.
LEMMA TableStep ==
    ASSUME AccessInv, UNCHANGED <<accounts, desk, overlapped>>,
           member' \in MemberRow, member'.status = member.status,
           store' \in [Sids -> Session], \A s \in Sids : Sound(store'[s])
    PROVE  AccessInv'
<1>1. AccessTypes'
  BY DEF AccessInv, AccessTypes
<1>2. SessionInv'
  BY DEF AccessInv, SessionInv, Sound
<1>3. AccountInv'
  BY DEF AccessInv, AccountInv, Creations, Changes, Unique, FullKept, Takes, Sessions!Remaining,
         Sessions!Full
<1>. QED
  BY <1>1, <1>2, <1>3 DEF AccessInv

\* Logging out and in, and a new password.
LEMMA StoreStep ==
    ASSUME AccessInv,
           \/ \E s \in Sids : Sessions!Logout(s) \/ Sessions!AdminLogin(s)
           \/ \E pw \in Passwords, works \in BOOLEAN : Sessions!ResetPassword(pw, works)
    PROVE  AccessInv'
<1>1. ASSUME NEW s \in Sids, Sessions!Logout(s)
      PROVE  AccessInv'
  <2>1. store' \in [Sids -> Session] /\ \A t \in Sids : Sound(store'[t])
    BY <1>1, AccessFacts, InsertSound DEF Sessions!Logout
  <2>. QED
    BY <1>1, <2>1, AccessFacts, TableStep DEF Sessions!Logout
<1>2. ASSUME NEW s \in Sids, Sessions!AdminLogin(s)
      PROVE  AccessInv'
  <2>1. PICK a \in accounts :
            Sessions!Insert(s, [Sessions!NoSession EXCEPT !.admin = a.id, !.role = a.role])
    BY <1>2 DEF Sessions!AdminLogin
  <2>. DEFINE x == [Sessions!NoSession EXCEPT !.admin = a.id, !.role = a.role]
  <2>2. a.id \in Nat /\ a.role \in Sessions!Roles
    BY AccessFacts DEF AccessTypes, Account
  <2>3. x \in Session /\ Sound(x)
    BY <2>2 DEF Session, Sessions!NoSession, Sound
  <2>. HIDE DEF x
  <2>4. store' \in [Sids -> Session] /\ \A t \in Sids : Sound(store'[t])
    BY <2>1, <2>3, InsertSound DEF x
  <2>. QED
    BY <1>2, <2>4, AccessFacts, TableStep DEF Sessions!AdminLogin
<1>3. ASSUME NEW pw \in Passwords, NEW works \in BOOLEAN, Sessions!ResetPassword(pw, works)
      PROVE  AccessInv'
  <2>1. store' \in [Sids -> Session] /\ \A t \in Sids : Sound(store'[t])
    BY <1>3, AccessFacts DEF Sessions!ResetPassword, Sessions!SessionsDeleted
  <2>2. member' \in MemberRow /\ member'.status = member.status
    BY <1>3, AccessFacts DEF Sessions!ResetPassword, MemberRow
  <2>. QED
    BY <1>3, <2>1, <2>2, TableStep DEF Sessions!ResetPassword
<1>. QED
  BY <1>1, <1>2, <1>3

\* A suspension or its end: nobody is barred once the member is active.
LEMMA StatusStep ==
    ASSUME AccessInv, NEW status \in Sessions!Statuses, NEW works \in BOOLEAN,
           Sessions!SetStatus(status, works)
    PROVE  AccessInv'
<1>. DEFINE r(q) == IF status = "active" /\ "barred" \in DOMAIN desk[q]
                    THEN [desk[q] EXCEPT !.barred = FALSE] ELSE desk[q]
<1>1. desk' = [q \in Procs |-> r(q)] /\ UNCHANGED <<accounts, overlapped>>
  BY DEF Sessions!SetStatus
<1>2. member' \in MemberRow /\ member'.status = status
  BY AccessFacts DEF Sessions!SetStatus, MemberRow
<1>3. store' \in [Sids -> Session] /\ \A t \in Sids : Sound(store'[t])
  BY AccessFacts DEF Sessions!SetStatus, Sessions!SessionsDeleted
<1>4. ASSUME NEW q \in Procs, desk[q] \notin Acting
      PROVE  r(q) = desk[q]
  <2>1. \A d \in Entering : "barred" \notin DOMAIN d
    BY DEF Entering
  <2>2. \A d \in Viewing : "barred" \notin DOMAIN d
    BY DEF Viewing
  <2>3. \A d \in Creating : "barred" \notin DOMAIN d
    BY DEF Creating
  <2>4. \A d \in Changing : "barred" \notin DOMAIN d
    BY DEF Changing
  <2>5. "barred" \notin DOMAIN Sessions!Idle
    BY DEF Sessions!Idle
  <2>6. desk[q] \in AnyDesk
    BY AccessFacts DEF AccessTypes
  <2>7. "barred" \notin DOMAIN desk[q]
    BY <1>4, <2>1, <2>2, <2>3, <2>4, <2>5, <2>6 DEF AnyDesk
  <2>. QED
    BY <2>7
<1>5. ASSUME NEW q \in Procs, desk[q] \in Acting
      PROVE  /\ r(q) \in Acting /\ r(q).session = desk[q].session /\ r(q).step = desk[q].step
             /\ r(q).barred => desk[q].barred /\ status # "active"
  <2>1. "barred" \in DOMAIN desk[q]
    BY <1>5 DEF Acting
  <2>. QED
    BY <1>5, <2>1 DEF Acting
<1>. HIDE DEF r
<1>6. \A q \in Procs : desk'[q] = r(q)
  BY <1>1
<1>7. desk' \in [Procs -> AnyDesk]
  <2>1. \A q \in Procs : r(q) \in AnyDesk
    BY <1>4, <1>5, AccessFacts DEF AccessTypes, AnyDesk
  <2>. QED
    BY <1>1, <2>1
<1>8. AccessTypes'
  BY <1>1, <1>2, <1>3, <1>7, AccessFacts DEF AccessTypes
<1>9. SessionInv'
  <2>1. ASSUME NEW q \in Procs, desk'[q] \in Acting
        PROVE  /\ Sound(desk'[q].session)
               /\ desk'[q].barred => member'.status # "active"
               /\ desk'[q].step = "handler" => ~desk'[q].barred
    <3>1. desk[q] \in Acting
      BY <1>4, <1>6, <2>1
    <3>2. /\ desk'[q].session = desk[q].session /\ desk'[q].step = desk[q].step
          /\ desk'[q].barred => desk[q].barred /\ status # "active"
      BY <1>5, <1>6, <3>1
    <3>3. Sound(desk[q].session) /\ (desk[q].step = "handler" => ~desk[q].barred)
      BY <3>1, AccessFacts DEF SessionInv
    <3>. QED
      BY <1>2, <3>2, <3>3
  <2>. QED
    BY <1>3, <2>1 DEF SessionInv, Sound
<1>10. AccountInv'
  <2>1. \A q \in Procs : desk'[q] \in Creating \cup Changing => desk'[q] = desk[q]
    BY <1>4, <1>5, <1>6, KindsApart
  <2>2. Creations'
    BY <1>1, <2>1, AccessFacts DEF AccountInv, Creations
  <2>3. Changes'
    <3>1. \A q \in Procs : desk'[q] \in Changing => desk[q] \in Changing /\ desk'[q] = desk[q]
      BY <2>1
    <3>2. ASSUME NEW q \in Procs, NEW c \in Procs, desk'[q] \in Changing, desk'[c] \in Changing,
                 desk'[q].account.id = desk'[c].account.id
          PROVE  q = c
      BY <3>1, <3>2, AccessFacts DEF AccountInv, Changes
    <3>3. ASSUME NEW q \in Procs, desk'[q] \in Changing
          PROVE  /\ desk'[q].account \in accounts'
                 /\ desk'[q].removes <=> /\ desk'[q].account.role = "administrator"
                                         /\ desk'[q].to # "administrator"
      BY <1>1, <3>1, <3>3, AccessFacts DEF AccountInv, Changes
    <3>. QED
      BY <3>2, <3>3 DEF Changes
  <2>4. \A q \in Procs : Takes(q)' => Takes(q) /\ desk'[q] = desk[q]
    BY <2>1 DEF Takes
  <2>5. FullKept'
    BY <1>1, <2>4, AccessFacts DEF AccountInv, FullKept, Sessions!Remaining, Sessions!Full
  <2>. QED
    BY <1>1, <2>2, <2>3, <2>5, AccessFacts DEF AccountInv, Unique
<1>. QED
  BY <1>8, <1>9, <1>10 DEF AccessInv

\* A step of one request that works on an account.
LEMMA OfficeStep ==
    ASSUME AccessInv, NEW p \in Procs, NEW r \in AnyDesk, r \notin Acting,
           desk' = [desk EXCEPT ![p] = r], UNCHANGED <<member, store>>,
           accounts' \subseteq Account, IsFiniteSet(accounts'), overlapped' \in BOOLEAN,
           AccountInv'
    PROVE  AccessInv'
<1>1. AccessTypes'
  BY DEF AccessInv, AccessTypes
<1>2. SessionInv'
  BY AccessFacts, SoundKept
<1>. QED
  BY <1>1, <1>2 DEF AccessInv

\* The next id is greater than all ids.
LEMMA NextId ==
    ASSUME AccessInv, NEW n,
           n = IF accounts = {} THEN 1 ELSE Sessions!Max({a.id : a \in accounts}) + 1
    PROVE  n \in Nat /\ \A a \in accounts : a.id # n
<1>1. CASE accounts = {}
  BY <1>1
<1>2. CASE accounts # {}
  <2>. DEFINE S == {a.id : a \in accounts}
  <2>1. IsFiniteSet(S)
    <3>. DEFINE f == [a \in accounts |-> a.id]
    <3>1. f \in Surjection(accounts, S)
      BY DEF Surjection
    <3>. HIDE DEF f, S
    <3>. QED
      BY <3>1, AccessFacts, FS_Surjection DEF AccessTypes
  <2>2. S \subseteq Nat /\ S # {}
    BY <1>2, AccessFacts DEF AccessTypes, Account
  <2>. HIDE DEF S
  <2>3. \E m \in S : \A k \in S : k <= m
    BY <2>1, <2>2, Largest
  <2>4. \E m \in S : \A k \in S : m >= k
    BY <2>2, <2>3
  <2>5. Sessions!Max(S) \in S /\ \A k \in S : Sessions!Max(S) >= k
    BY <2>4 DEF Sessions!Max
  <2>6. n = Sessions!Max(S) + 1
    BY <1>2 DEF S
  <2>. DEFINE m == Sessions!Max(S)
  <2>7. m \in Nat /\ n = m + 1 /\ \A k \in S : k \in Nat /\ m >= k
    BY <2>2, <2>5, <2>6
  <2>. HIDE DEF m
  <2>8. n \in Nat /\ \A k \in S : k # n
    BY <2>7
  <2>. QED
    BY <2>8 DEF S
<1>. QED
  BY <1>1, <1>2

\* Creating an account: the lock keeps other creations away, so that the name
\* and the id are still new when the row is inserted.
LEMMA CreateStep ==
    ASSUME AccessInv, NEW p \in Procs,
           \/ \E n \in Names, role \in Sessions!Roles : Sessions!StartCreate(p, n, role)
           \/ Sessions!EndCreate(p)
    PROVE  AccessInv'
<1>1. AccessTypes /\ AccountInv
  BY AccessFacts
<1>2. ASSUME NEW n \in Names, NEW role \in Sessions!Roles, Sessions!StartCreate(p, n, role)
      PROVE  AccessInv'
  <2>. DEFINE id == IF accounts = {} THEN 1 ELSE Sessions!Max({a.id : a \in accounts}) + 1
              x  == [id |-> id, name |-> n, role |-> role]
              r  == [step |-> "create", account |-> x]
  <2>1. id \in Nat /\ \A a \in accounts : a.id # id
    BY NextId
  <2>2. /\ desk' = [desk EXCEPT ![p] = r] /\ UNCHANGED <<member, store, accounts, overlapped>>
        /\ \A a \in accounts : a.name # n
        /\ \A q \in Procs \ {p} : desk[q].step # "create"
    BY <1>2 DEF Sessions!StartCreate, Sessions!LockFree
  <2>. HIDE DEF id
  <2>3. x \in Account /\ x.id = id /\ x.name = n
    BY <2>1 DEF Account
  <2>. HIDE DEF x
  <2>4. r \in Creating /\ r.account = x
    BY <2>3 DEF Creating
  <2>. HIDE DEF r
  <2>5. r \in AnyDesk /\ r \notin Acting /\ r \notin Changing
    BY <2>4, KindsApart DEF AnyDesk
  <2>6. \A q \in Procs : desk'[q] = IF q = p THEN r ELSE desk[q]
    BY <1>1, <2>2 DEF AccessTypes
  <2>7. \A q \in Procs \ {p} : desk[q] \notin Creating
    BY <1>1, <2>2, AccessDesk
  <2>8. Creations'
    <3>1. \A q \in Procs : desk'[q] \in Creating => q = p /\ desk'[q].account = x
      BY <2>4, <2>6, <2>7
    <3>2. \A a \in accounts' : a.id # x.id /\ a.name # x.name
      BY <2>1, <2>2, <2>3
    <3>. QED
      BY <3>1, <3>2 DEF Creations
  <2>9. \A q \in Procs : desk'[q] \in Changing => desk[q] \in Changing /\ desk'[q] = desk[q]
    BY <2>5, <2>6
  <2>10. Changes'
    <3>1. ASSUME NEW q \in Procs, NEW c \in Procs, desk'[q] \in Changing, desk'[c] \in Changing,
                 desk'[q].account.id = desk'[c].account.id
          PROVE  q = c
      BY <1>1, <2>9, <3>1 DEF AccountInv, Changes
    <3>2. ASSUME NEW q \in Procs, desk'[q] \in Changing
          PROVE  /\ desk'[q].account \in accounts'
                 /\ desk'[q].removes <=> /\ desk'[q].account.role = "administrator"
                                         /\ desk'[q].to # "administrator"
      BY <1>1, <2>2, <2>9, <3>2 DEF AccountInv, Changes
    <3>. QED
      BY <3>1, <3>2 DEF Changes
  <2>11. FullKept'
    <3>1. \A q \in Procs : Takes(q)' => Takes(q) /\ desk'[q] = desk[q]
      BY <2>9 DEF Takes
    <3>. QED
      BY <1>1, <2>2, <3>1 DEF AccountInv, FullKept, Sessions!Remaining, Sessions!Full
  <2>12. AccountInv'
    BY <1>1, <2>2, <2>8, <2>10, <2>11 DEF AccountInv, Unique
  <2>. QED
    BY <1>1, <2>2, <2>5, <2>12, OfficeStep DEF AccessTypes
<1>3. ASSUME Sessions!EndCreate(p)
      PROVE  AccessInv'
  <2>. DEFINE x == desk[p].account
  <2>1. desk[p] \in Creating
    BY <1>1, <1>3, AccessDesk DEF Sessions!EndCreate
  <2>2. x \in Account
    BY <2>1 DEF Creating
  <2>3. /\ accounts' = accounts \cup {x} /\ desk' = [desk EXCEPT ![p] = Sessions!Idle]
        /\ UNCHANGED <<member, store, overlapped>>
    BY <1>3 DEF Sessions!EndCreate, Sessions!Answer
  <2>4. \A a \in accounts : a.id # x.id /\ a.name # x.name
    BY <1>1, <2>1 DEF AccountInv, Creations
  <2>. HIDE DEF x
  <2>5. \A q \in Procs : desk'[q] = IF q = p THEN Sessions!Idle ELSE desk[q]
    BY <1>1, <2>3 DEF AccessTypes
  <2>6. Sessions!Idle \in AnyDesk /\ Sessions!Idle \notin Acting \cup Creating \cup Changing
    BY KindsApart DEF AnyDesk
  <2>7. Creations'
    <3>1. \A q \in Procs : desk'[q] \notin Creating
      BY <1>1, <2>1, <2>5, <2>6 DEF AccountInv, Creations
    <3>. QED
      BY <3>1 DEF Creations
  <2>8. \A q \in Procs : desk'[q] \in Changing => desk[q] \in Changing /\ desk'[q] = desk[q]
    BY <2>5, <2>6
  <2>9. Changes'
    <3>1. ASSUME NEW q \in Procs, NEW c \in Procs, desk'[q] \in Changing, desk'[c] \in Changing,
                 desk'[q].account.id = desk'[c].account.id
          PROVE  q = c
      BY <1>1, <2>8, <3>1 DEF AccountInv, Changes
    <3>2. ASSUME NEW q \in Procs, desk'[q] \in Changing
          PROVE  /\ desk'[q].account \in accounts'
                 /\ desk'[q].removes <=> /\ desk'[q].account.role = "administrator"
                                         /\ desk'[q].to # "administrator"
      BY <1>1, <2>3, <2>8, <3>2 DEF AccountInv, Changes
    <3>. QED
      BY <3>1, <3>2 DEF Changes
  <2>10. FullKept'
    <3>1. \A q \in Procs : Takes(q)' => Takes(q) /\ desk'[q] = desk[q]
      BY <2>8 DEF Takes
    <3>. QED
      BY <1>1, <2>3, <3>1 DEF AccountInv, FullKept, Sessions!Remaining, Sessions!Full
  <2>11. Unique'
    BY <1>1, <2>3, <2>4 DEF AccountInv, Unique
  <2>12. IsFiniteSet(accounts') /\ accounts' \subseteq Account
    BY <1>1, <2>2, <2>3, FS_AddElement DEF AccessTypes
  <2>. QED
    BY <1>1, <2>3, <2>6, <2>7, <2>9, <2>10, <2>11, <2>12, OfficeStep DEF AccessTypes, AccountInv
<1>. QED
  BY <1>2, <1>3

\* Changing or deleting an account begins: it is locked, and if it takes full
\* access away somebody else has it.
LEMMA StartChangeStep ==
    ASSUME AccessInv, NEW p \in Procs, NEW s \in Sids, NEW a \in accounts,
           NEW to \in Sessions!Roles \cup {Sessions!None}, Sessions!StartChange(p, s, a, to)
    PROVE  AccessInv'
<1>. DEFINE removes == a.role = "administrator" /\ to # "administrator"
            r == [step |-> "change", account |-> a, to |-> to, removes |-> removes]
<1>1. AccessTypes /\ AccountInv
  BY AccessFacts
<1>2. /\ desk' = [desk EXCEPT ![p] = r] /\ UNCHANGED <<member, store, accounts>>
      /\ \A q \in Procs : desk[q].step = "change" => desk[q].account.id # a.id
      /\ removes => Sessions!Remaining(a.id) # {}
      /\ overlapped' = (overlapped \/ (removes /\ \E q \in Procs : Sessions!Removing(q)))
  BY DEF Sessions!StartChange
<1>3. removes \in BOOLEAN /\ a \in Account
  BY <1>1 DEF AccessTypes
<1>4. removes <=> a.role = "administrator" /\ to # "administrator"
  OBVIOUS
<1>. HIDE DEF removes
<1>5. r \in Changing /\ r.account = a /\ r.removes = removes /\ r.to = to
  BY <1>3 DEF Changing
<1>. HIDE DEF r
<1>6. r \in AnyDesk /\ r \notin Acting /\ r \notin Creating
  BY <1>5, KindsApart DEF AnyDesk
<1>7. \A q \in Procs : desk'[q] = IF q = p THEN r ELSE desk[q]
  BY <1>1, <1>2 DEF AccessTypes
<1>8. \A q \in Procs : desk[q] \in Changing => desk[q].account.id # a.id
  BY <1>1, <1>2, AccessDesk
<1>9. Creations'
  <2>1. \A q \in Procs : desk'[q] \in Creating => desk'[q] = desk[q]
    BY <1>6, <1>7
  <2>. QED
    BY <1>1, <1>2, <2>1 DEF AccountInv, Creations
<1>10. Changes'
  <2>1. ASSUME NEW q \in Procs, NEW c \in Procs, desk'[q] \in Changing, desk'[c] \in Changing,
               desk'[q].account.id = desk'[c].account.id
        PROVE  q = c
    BY <1>1, <1>5, <1>7, <1>8, <2>1 DEF AccountInv, Changes
  <2>2. ASSUME NEW q \in Procs, desk'[q] \in Changing
        PROVE  /\ desk'[q].account \in accounts'
               /\ desk'[q].removes <=> /\ desk'[q].account.role = "administrator"
                                       /\ desk'[q].to # "administrator"
    <3>1. CASE q = p
      BY <1>2, <1>4, <1>5, <1>7, <3>1
    <3>2. CASE q # p
      BY <1>1, <1>2, <1>7, <2>2, <3>2 DEF AccountInv, Changes
    <3>. QED
      BY <3>1, <3>2
  <2>. QED
    BY <2>1, <2>2 DEF Changes
<1>11. FullKept'
  <2>. SUFFICES ASSUME ~overlapped'
                PROVE  /\ Sessions!Full(accounts') # {}
                       /\ \A q \in Procs : Takes(q)' => Sessions!Remaining(desk[q].account.id)' # {}
                       /\ \A q, c \in Procs : Takes(q)' /\ Takes(c)' => q = c
    BY DEF FullKept
  <2>1. ~overlapped /\ ~(removes /\ \E q \in Procs : Sessions!Removing(q))
    BY <1>2
  <2>2. \A q \in Procs : Takes(q) <=> Sessions!Removing(q)
    BY <1>1, AccessDesk DEF Takes, Sessions!Removing
  <2>3. \A q \in Procs : Takes(q)' => (q = p /\ removes) \/ (q # p /\ Takes(q) /\ desk'[q] = desk[q])
    BY <1>5, <1>7 DEF Takes
  <2>4. desk'[p].account = a
    BY <1>5, <1>7
  <2>5. /\ Sessions!Full(accounts) # {}
        /\ \A q \in Procs : Takes(q) => Sessions!Remaining(desk[q].account.id) # {}
        /\ \A q, c \in Procs : Takes(q) /\ Takes(c) => q = c
    BY <1>1, <2>1 DEF AccountInv, FullKept
  <2>6. \A i : Sessions!Remaining(i)' = Sessions!Remaining(i)
    BY <1>2 DEF Sessions!Remaining, Sessions!Full
  <2>7. ASSUME NEW q \in Procs, Takes(q)'
        PROVE  Sessions!Remaining(desk[q].account.id)' # {}
    <3>1. desk'[q].account.id = desk[q].account.id \/ (q = p /\ removes /\ desk'[q].account = a)
      BY <2>3, <2>4, <2>7
    <3>. QED
      BY <1>2, <2>3, <2>4, <2>5, <2>6, <2>7, <3>1 DEF Sessions!Remaining, Sessions!Full
  <2>8. ASSUME NEW q \in Procs, NEW c \in Procs, Takes(q)', Takes(c)'
        PROVE  q = c
    BY <2>1, <2>2, <2>3, <2>5, <2>8
  <2>. QED
    BY <1>2, <2>5, <2>7, <2>8
<1>12. AccountInv'
  BY <1>1, <1>2, <1>9, <1>10, <1>11 DEF AccountInv, Unique
<1>13. overlapped' \in BOOLEAN
  BY <1>2
<1>. QED
  BY <1>1, <1>2, <1>6, <1>12, <1>13, OfficeStep DEF AccessTypes

\* ... and ends: the account is replaced or gone.  No other request works on
\* it, and if it took full access away, nobody else does.
LEMMA EndChangeStep ==
    ASSUME AccessInv, NEW p \in Procs, Sessions!EndChange(p)
    PROVE  AccessInv'
<1>. DEFINE a   == desk[p].account
            to  == desk[p].to
            b   == [a EXCEPT !.role = to]
            new == IF to = Sessions!None THEN {} ELSE {b}
<1>1. AccessTypes /\ AccountInv
  BY AccessFacts
<1>2. desk[p] \in Changing
  BY <1>1, AccessDesk DEF Sessions!EndChange
<1>3. /\ accounts' = (accounts \ {a}) \cup new
      /\ desk' = [desk EXCEPT ![p] = Sessions!Idle]
      /\ UNCHANGED <<member, store, overlapped>>
  BY DEF Sessions!EndChange, Sessions!Answer
<1>4. /\ a \in accounts /\ a \in Account /\ to \in Sessions!Roles \cup {Sessions!None}
      /\ desk[p].removes <=> a.role = "administrator" /\ to # "administrator"
  BY <1>1, <1>2 DEF AccountInv, Changes, Changing
<1>5. to # Sessions!None => b \in Account /\ b.id = a.id /\ b.name = a.name /\ b.role = to
  BY <1>4 DEF Account
<1>6. Takes(p) <=> a.role = "administrator" /\ to # "administrator"
  BY <1>2, <1>4 DEF Takes
<1>. HIDE DEF a, to, b
<1>7. \A q \in Procs : desk'[q] = IF q = p THEN Sessions!Idle ELSE desk[q]
  BY <1>1, <1>3 DEF AccessTypes
<1>8. Sessions!Idle \in AnyDesk /\ Sessions!Idle \notin Acting \cup Creating \cup Changing
  BY KindsApart DEF AnyDesk
<1>9. \A q \in Procs : desk'[q] \in Creating \cup Changing => q # p /\ desk'[q] = desk[q]
  BY <1>7, <1>8
<1>10. ASSUME NEW x \in accounts'
       PROVE  /\ x \in Account
              /\ \E y \in accounts : x.id = y.id /\ x.name = y.name
              /\ (x \in accounts \ {a}) \/ (x = b /\ x.id = a.id /\ x.name = a.name)
  <2>1. (x \in accounts \ {a}) \/ (x = b /\ to # Sessions!None)
    BY <1>3
  <2>2. CASE x \in accounts \ {a}
    BY <1>1, <2>2 DEF AccessTypes
  <2>3. CASE x = b /\ to # Sessions!None
    BY <1>4, <1>5, <2>3
  <2>. QED
    BY <2>1, <2>2, <2>3
<1>11. accounts' \subseteq Account /\ IsFiniteSet(accounts')
  <2>1. IsFiniteSet(accounts \ {a})
    BY <1>1, FS_Subset DEF AccessTypes
  <2>2. IsFiniteSet((accounts \ {a}) \cup {b})
    BY <2>1, FS_AddElement
  <2>. QED
    BY <1>3, <1>10, <2>1, <2>2
<1>12. Creations'
  <2>1. ASSUME NEW q \in Procs, desk'[q] \in Creating, NEW x \in accounts'
        PROVE  x.id # desk'[q].account.id /\ x.name # desk'[q].account.name
    BY <1>1, <1>9, <1>10, <2>1 DEF AccountInv, Creations
  <2>2. ASSUME NEW q \in Procs, NEW c \in Procs, desk'[q] \in Creating, desk'[c] \in Creating
        PROVE  q = c
    BY <1>1, <1>9, <2>2 DEF AccountInv, Creations
  <2>. QED
    BY <2>1, <2>2 DEF Creations
<1>13. Changes'
  <2>1. \A q \in Procs : desk'[q] \in Changing => desk[q] \in Changing /\ desk'[q] = desk[q]
    BY <1>9
  <2>2. ASSUME NEW q \in Procs, NEW c \in Procs, desk'[q] \in Changing, desk'[c] \in Changing,
               desk'[q].account.id = desk'[c].account.id
        PROVE  q = c
    BY <1>1, <2>1, <2>2 DEF AccountInv, Changes
  <2>3. ASSUME NEW q \in Procs, desk'[q] \in Changing
        PROVE  /\ desk'[q].account \in accounts'
               /\ desk'[q].removes <=> /\ desk'[q].account.role = "administrator"
                                       /\ desk'[q].to # "administrator"
    <3>1. q # p /\ desk'[q] = desk[q] /\ desk[q] \in Changing
      BY <1>9, <2>3
    <3>2. desk[q].account \in accounts /\ desk[q].account.id # a.id
      BY <1>1, <1>2, <3>1 DEF AccountInv, Changes, a
    <3>3. desk[q].account \in accounts'
      BY <1>3, <3>2
    <3>. QED
      BY <1>1, <3>1, <3>3 DEF AccountInv, Changes
  <2>. QED
    BY <2>2, <2>3 DEF Changes
<1>14. Unique'
  <2>. SUFFICES ASSUME NEW x \in accounts', NEW y \in accounts', x.id = y.id \/ x.name = y.name
                PROVE  x = y
    BY DEF Unique
  <2>1. \A u, v \in accounts : u.id = v.id \/ u.name = v.name => u = v
    BY <1>1 DEF AccountInv, Unique
  <2>2. CASE x \in accounts \ {a} /\ y \in accounts \ {a}
    BY <2>1, <2>2
  <2>3. ASSUME NEW u \in accounts \ {a}, NEW v \in accounts', v \notin accounts \ {a}
        PROVE  v = b /\ u.id # v.id /\ u.name # v.name
    <3>1. v = b /\ v.id = a.id /\ v.name = a.name
      BY <1>3, <1>5, <2>3
    <3>. QED
      BY <1>4, <2>1, <3>1
  <2>. QED
    BY <1>10, <2>2, <2>3
<1>15. FullKept'
  <2>. SUFFICES ASSUME ~overlapped'
                PROVE  /\ Sessions!Full(accounts') # {}
                       /\ \A q \in Procs : Takes(q)' => Sessions!Remaining(desk[q].account.id)' # {}
                       /\ \A q, c \in Procs : Takes(q)' /\ Takes(c)' => q = c
    BY DEF FullKept
  <2>1. /\ Sessions!Full(accounts) # {}
        /\ \A q \in Procs : Takes(q) => Sessions!Remaining(desk[q].account.id) # {}
        /\ \A q, c \in Procs : Takes(q) /\ Takes(c) => q = c
    BY <1>1, <1>3 DEF AccountInv, FullKept
  <2>2. \A q \in Procs : Takes(q)' => q # p /\ Takes(q) /\ desk'[q] = desk[q]
    BY <1>9 DEF Takes
  <2>3. CASE Takes(p)
    <3>1. PICK x \in accounts : x.role = "administrator" /\ x.id # a.id
      BY <2>1, <2>3 DEF Sessions!Remaining, Sessions!Full, a
    <3>2. x \in accounts'
      BY <1>3, <3>1
    <3>3. Sessions!Full(accounts') # {}
      BY <3>1, <3>2 DEF Sessions!Full
    <3>4. \A q \in Procs : ~Takes(q)'
      BY <2>1, <2>2, <2>3
    <3>. QED
      BY <3>3, <3>4
  <2>4. CASE ~Takes(p)
    <3>1. ASSUME NEW x \in accounts, x.role = "administrator"
          PROVE  \E y \in accounts' : y.role = "administrator" /\ y.id = x.id
      <4>1. CASE x = a
        <5>1. to = "administrator" /\ to # Sessions!None
          BY <1>6, <2>4, <3>1, <4>1 DEF Sessions!None
        <5>2. b \in accounts'
          BY <1>3, <5>1
        <5>. QED
          BY <1>5, <4>1, <5>1, <5>2
      <4>2. CASE x # a
        BY <1>3, <3>1, <4>2
      <4>. QED
        BY <4>1, <4>2
    <3>2. Sessions!Full(accounts') # {}
      BY <2>1, <3>1 DEF Sessions!Full
    <3>3. ASSUME NEW q \in Procs, Takes(q)'
          PROVE  Sessions!Remaining(desk[q].account.id)' # {}
      <4>1. Takes(q) /\ desk'[q].account.id = desk[q].account.id
        BY <2>2, <3>3
      <4>2. PICK x \in accounts : x.role = "administrator" /\ x.id # desk[q].account.id
        BY <2>1, <4>1 DEF Sessions!Remaining, Sessions!Full
      <4>3. PICK y \in accounts' : y.role = "administrator" /\ y.id = x.id
        BY <3>1, <4>2
      <4>. QED
        BY <4>1, <4>2, <4>3 DEF Sessions!Remaining, Sessions!Full
    <3>4. \A q, c \in Procs : Takes(q)' /\ Takes(c)' => q = c
      BY <2>1, <2>2
    <3>. QED
      BY <3>2, <3>3, <3>4
  <2>. QED
    BY <2>3, <2>4
<1>16. AccountInv'
  BY <1>12, <1>13, <1>14, <1>15 DEF AccountInv
<1>17. overlapped' \in BOOLEAN
  BY <1>1, <1>3 DEF AccessTypes
<1>. QED
  BY <1>3, <1>8, <1>11, <1>16, <1>17, OfficeStep

\* Sessions and accounts stay sound over all steps.
LEMMA AccessHolds == Spec => [](part = "access" => AccessInv)
<1>. DEFINE Inv == part = "access" => AccessInv
<1>1. Init => Inv
  <2>. SUFFICES ASSUME Sessions!Init
                PROVE  AccessInv
    BY PartInits
  <2>1. PICK n \in Names : accounts = {[id |-> 1, name |-> n, role |-> "administrator"]}
    BY DEF Sessions!Init
  <2>. DEFINE x == [id |-> 1, name |-> n, role |-> "administrator"]
  <2>2. x \in Account /\ x.role = "administrator"
    BY DEF Account, Sessions!Roles
  <2>3. accounts = {x}
    BY <2>1
  <2>. HIDE DEF x
  <2>4. accounts \subseteq Account /\ IsFiniteSet(accounts) /\ Sessions!Full(accounts) # {}
    BY <2>2, <2>3, FS_Singleton DEF Sessions!Full
  <2>5. desk = [p \in Procs |-> Sessions!Idle]
    BY DEF Sessions!Init
  <2>6. /\ member \in MemberRow /\ overlapped = FALSE
        /\ store = [s \in Sids |-> Sessions!NoSession]
    BY DEF Sessions!Init, MemberRow, Sessions!Statuses
  <2>7. Sessions!NoSession \in Session /\ Sound(Sessions!NoSession)
    BY DEF Session, Sessions!NoSession, Sound, Sessions!None
  <2>8. AccessTypes
    BY <2>4, <2>5, <2>6, <2>7 DEF AccessTypes, AnyDesk
  <2>9. SessionInv
    BY <2>5, <2>6, <2>7, KindsApart DEF SessionInv
  <2>10. AccountInv
    BY <2>3, <2>4, <2>5, KindsApart DEF AccountInv, Creations, Changes, Unique, FullKept, Takes
  <2>. QED
    BY <2>8, <2>9, <2>10 DEF AccessInv
<1>2. Inv /\ [Next]_vars => Inv'
  <2>. SUFFICES ASSUME Inv, [Next]_vars, part' = "access"
                PROVE  AccessInv'
    OBVIOUS
  <2>1. AccessInv /\ [Sessions!Next]_(Sessions!vars)
    BY PartSteps
  <2>2. CASE UNCHANGED Sessions!vars
    BY <2>1, <2>2, AccessFacts, TableStep DEF Sessions!vars
  <2>3. CASE Sessions!Next
    BY <2>1, <2>3, LoginStep, RequestStep, HandlerStep, ViewStep, StoreStep, StatusStep,
       CreateStep, StartChangeStep, EndChangeStep
       DEF Sessions!Next
  <2>. QED
    BY <2>1, <2>2, <2>3
<1>. QED
  BY <1>1, <1>2, PTL DEF Spec

\* No handler runs for a member suspended since before the request came, and
\* no stored session is a member's and an administrator's at once.
THEOREM SessionsHold == Spec => []SessionsSound
<1>1. (part = "access" => AccessInv) => SessionsSound
  BY AccessDesk DEF SessionsSound, Sessions!SessionsSound, AccessInv, SessionInv, Sound
<1>. QED
  BY <1>1, AccessHolds, PTL

\* Usernames and ids are never given twice, and somebody keeps full access
\* unless two removals of it overlapped.
THEOREM AccountsHold == Spec => []AccountsSound
<1>1. (part = "access" => AccessInv) => AccountsSound
  BY DEF AccountsSound, Sessions!AccountsSound, AccessInv, AccountInv, Unique, FullKept
<1>. QED
  BY <1>1, AccessHolds, PTL
-----------------------------------------------------------------------------
(***************************************************************************)
(* Startup.                                                                *)
(***************************************************************************)
Running ==
    [step : {"run", "failed", "done"}, applied : SUBSET DOMAIN Script, at : Nat \ {0},
     known : Nat, flushed : Nat, faulty : BOOLEAN]

StartTypes ==
    /\ members \in Nat /\ covered \in Nat
    /\ recorded \subseteq DOMAIN Script
    /\ runner \in [Procs -> {Migration!Resting} \cup Running]
    /\ server \in [step : {"down", "checked", "store", "listening"}, cache : SUBSET Features,
                   ready : BOOLEAN]

\* A statement has left its pieces, unless a part was there or the data refuse.
Done(f, s) ==
    Defines(f, s) =>
        \/ Pieces(f, s) \subseteq schema
        \/ Script[f][s].kind = "add" /\ Pieces(f, s) \cap imported # {}
        \/ Script[f][s].kind = "unique" /\ duplicates

\* The columns that one statement adds are there together or not at all.
Whole ==
    \A f \in DOMAIN Script : \A s \in DOMAIN Script[f] : Script[f][s].kind = "add" =>
        \/ Pieces(f, s) \cap schema = {}
        \/ Pieces(f, s) \subseteq schema
        \/ Pieces(f, s) \cap imported # {}

\* The paths from the first a members to the first n.
PathsTo(a, n) == \A x, y \in Nat \ {0} : x <= a /\ x <= y /\ y <= n => <<x, y>> \in closure

\* A runner inside a file has done the statements before its own, and after a
\* backfill it has written what it had read.
AtWork(r) == runner[r].step = "run" /\ Migration!Pending(r) # {}

RunnerOK(r) ==
    /\ AtWork(r) => \A s \in 1 .. (runner[r].at - 1) : Done(Migration!File(r), s)
    /\ runner[r].step = "run" =>
          /\ runner[r].flushed <= runner[r].known
          /\ PathsTo(runner[r].flushed, runner[r].known)
    /\ AtWork(r) /\ runner[r].flushed # runner[r].known =>
          /\ runner[r].at <= Len(Script[Migration!File(r)])
          /\ Migration!Statement(r).kind = "backfill"

RecordInv ==
    /\ \A f \in recorded : \A s \in DOMAIN Script[f] : Done(f, s)
    /\ PathsTo(covered, covered)

ServerInv ==
    /\ server.step \in {"store", "listening"} => Migration!Sessions \in schema
    /\ server.ready => Migration!Readiness \cup {Migration!Sessions} \subseteq schema
    /\ \A f \in server.cache \cup served : Needs[f] \subseteq schema

RunnersOK == \A r \in Procs : RunnerOK(r)

StartInv == StartTypes /\ Whole /\ RunnersOK /\ RecordInv /\ ServerInv

\* Nothing is dropped.
Grows ==
    /\ schema \subseteq schema' /\ closure \subseteq closure'
    /\ imported' = imported /\ duplicates' = duplicates

\* The files and their statements are numbered, finitely many.
LEMMA ScriptFacts ==
    /\ DOMAIN Script \subseteq Nat /\ IsFiniteSet(DOMAIN Script)
    /\ \A f \in DOMAIN Script : /\ Len(Script[f]) \in Nat
                                /\ DOMAIN Script[f] = 1 .. Len(Script[f])
                                /\ \A s \in DOMAIN Script[f] :
                                      Script[f][s].kind \in
                                          {"create", "add", "unique", "selves", "links", "backfill"}
<1>. DEFINE St == [kind : {"create", "add", "unique", "selves", "links", "backfill"}, pieces : SUBSET STRING]
<1>1. Script \in Seq(Seq(St))
  BY ScriptAssumption
<1>2. \A x \in St : x.kind \in {"create", "add", "unique", "selves", "links", "backfill"}
  OBVIOUS
<1>. HIDE DEF St
<1>3. DOMAIN Script = 1 .. Len(Script) /\ Len(Script) \in Nat
  BY <1>1
<1>4. IsFiniteSet(1 .. Len(Script))
  BY <1>3, FS_Interval
<1>5. ASSUME NEW f \in DOMAIN Script
      PROVE  /\ Len(Script[f]) \in Nat /\ DOMAIN Script[f] = 1 .. Len(Script[f])
             /\ \A s \in DOMAIN Script[f] : Script[f][s] \in St
  <2>1. Script[f] \in Seq(St)
    BY <1>1, <1>3
  <2>. QED
    BY <2>1
<1>. QED
  BY <1>2, <1>3, <1>4, <1>5

\* There is a next file as long as one is pending.
LEMMA FileFacts ==
    ASSUME NEW r, Migration!Pending(r) # {}
    PROVE  Migration!File(r) \in Migration!Pending(r) /\ Migration!File(r) \in DOMAIN Script
<1>. DEFINE P == Migration!Pending(r)
<1>1. P \subseteq DOMAIN Script
  BY DEF Migration!Pending
<1>2. P \subseteq Nat /\ IsFiniteSet(P)
  BY <1>1, ScriptFacts, FS_Subset
<1>. HIDE DEF P
<1>3. \E f \in P : \A g \in P : f <= g
  BY <1>2, Smallest DEF P
<1>4. Migration!File(r) \in P
  BY <1>3 DEF Migration!File, P
<1>. QED
  BY <1>1, <1>4 DEF P

\* What is done stays done, and what is there stays there.
LEMMA GrowsKeeps ==
    ASSUME Grows
    PROVE  /\ \A f, s : Done(f, s) => Done(f, s)'
           /\ \A a, n : PathsTo(a, n) => PathsTo(a, n)'
<1>1. ASSUME NEW f, NEW s, Done(f, s)
      PROVE  Done(f, s)'
  BY <1>1 DEF Grows, Done, Defines, Pieces
<1>2. ASSUME NEW a, NEW n, PathsTo(a, n)
      PROVE  PathsTo(a, n)'
  BY <1>2 DEF Grows, PathsTo
<1>. QED
  BY <1>1, <1>2

\* A runner that does not move is as well off as before.
LEMMA RunnerRests ==
    ASSUME Grows, NEW r, RunnerOK(r), runner'[r] = runner[r]
    PROVE  RunnerOK(r)'
<1>1. /\ Migration!Pending(r)' = Migration!Pending(r)
      /\ Migration!File(r)' = Migration!File(r)
      /\ Migration!Statement(r)' = Migration!Statement(r)
      /\ AtWork(r)' = AtWork(r)
  BY DEF Migration!Pending, Migration!File, Migration!Statement, AtWork
<1>. QED
  BY <1>1, GrowsKeeps DEF RunnerOK

\* What the server promised, it keeps.
LEMMA ServerRests ==
    ASSUME Grows, ServerInv, UNCHANGED <<server, served>>
    PROVE  ServerInv'
BY DEF Grows, ServerInv, Migration!Readiness

\* What is recorded stays true.
LEMMA RecordRests ==
    ASSUME Grows, RecordInv, UNCHANGED <<recorded, covered>>
    PROVE  RecordInv'
BY GrowsKeeps DEF RecordInv

\* A step of one runner.
LEMMA RunnerStep ==
    ASSUME StartInv, NEW r \in Procs, NEW x \in {Migration!Resting} \cup Running,
           runner' = [runner EXCEPT ![r] = x], Grows, RunnerOK(r)', Whole', RecordInv',
           UNCHANGED <<server, served, members>>,
           covered' \in Nat, recorded' \subseteq DOMAIN Script
    PROVE  StartInv'
<1>1. StartTypes'
  BY DEF StartInv, StartTypes
<1>2. ASSUME NEW q \in Procs
      PROVE  RunnerOK(q)'
  <2>1. CASE q = r
    BY <2>1
  <2>2. CASE q # r
    <3>1. runner'[q] = runner[q]
      BY <2>2 DEF StartInv, StartTypes
    <3>2. RunnerOK(q)
      BY DEF StartInv, RunnersOK
    <3>. QED
      BY <3>1, <3>2, RunnerRests
  <2>. QED
    BY <2>1, <2>2
<1>3. RunnersOK'
  BY <1>2 DEF RunnersOK
<1>4. ServerInv'
  BY ServerRests DEF StartInv
<1>. QED
  BY <1>1, <1>3, <1>4 DEF StartInv

\* The facts about a runner that is at a statement.
LEMMA AtFacts ==
    ASSUME StartInv, NEW r \in Procs, Migration!AtStatement(r)
    PROVE  /\ runner[r] \in Running /\ runner[r].step = "run" /\ AtWork(r) /\ RunnerOK(r)
           /\ Migration!File(r) \in DOMAIN Script
           /\ runner[r].at \in DOMAIN Script[Migration!File(r)]
           /\ Migration!Statement(r) = Script[Migration!File(r)][runner[r].at]
<1>1. runner[r].step = "run" /\ AtWork(r)
  BY DEF Migration!AtStatement, AtWork
<1>2. runner[r] \in Running
  BY <1>1 DEF StartInv, StartTypes, Migration!Resting
<1>3. Migration!File(r) \in DOMAIN Script
  BY FileFacts DEF Migration!AtStatement
<1>4. runner[r].at \in DOMAIN Script[Migration!File(r)]
  BY <1>2, <1>3, ScriptFacts DEF Migration!AtStatement, Running
<1>. QED
  BY <1>1, <1>2, <1>3, <1>4 DEF StartInv, RunnersOK, Migration!Statement

\* A runner goes on to the next statement when its own is done.
LEMMA Advances ==
    ASSUME StartInv, NEW r \in Procs, Migration!AtStatement(r), Grows,
           runner' = [runner EXCEPT ![r].at = @ + 1],
           runner[r].flushed = runner[r].known,
           NEW f, f = Migration!File(r), NEW n, n = runner[r].at, Done(f, n)'
    PROVE  /\ RunnerOK(r)'
           /\ \E x \in Running : runner' = [runner EXCEPT ![r] = x]
<1>. DEFINE x == [runner[r] EXCEPT !.at = @ + 1]
<1>1. /\ runner[r] \in Running /\ runner[r].step = "run" /\ AtWork(r) /\ RunnerOK(r)
      /\ runner[r].at \in Nat \ {0}
  BY AtFacts DEF Running
<1>2. /\ x \in Running /\ x.at = runner[r].at + 1 /\ x.step = "run"
      /\ x.known = runner[r].known /\ x.flushed = runner[r].flushed
      /\ x.applied = runner[r].applied
  BY <1>1 DEF Running
<1>3. runner' = [runner EXCEPT ![r] = x] /\ runner'[r] = x
  BY DEF StartInv, StartTypes
<1>. HIDE DEF x
<1>4. Migration!Pending(r)' = Migration!Pending(r) /\ Migration!File(r)' = f
  BY <1>2, <1>3 DEF Migration!Pending, Migration!File
<1>5. \A s \in 1 .. (runner[r].at - 1) : Done(f, s)'
  BY <1>1, GrowsKeeps DEF RunnerOK
<1>6. \A s \in 1 .. (x.at - 1) : Done(f, s)'
  <2>1. \A s \in 1 .. (x.at - 1) : s \in 1 .. (n - 1) \/ s = n
    BY <1>1, <1>2
  <2>. QED
    BY <1>5, <2>1
<1>7. ASSUME NEW k, k = runner[r].known
      PROVE  PathsTo(k, k)' /\ k <= k
  <2>1. PathsTo(k, k) /\ k <= k
    BY <1>1, <1>7 DEF RunnerOK
  <2>. QED
    BY <2>1, GrowsKeeps
<1>8. RunnerOK(r)'
  <2>1. PICK k : k = runner[r].known
    OBVIOUS
  <2>2. /\ runner'[r].flushed = k /\ runner'[r].known = k
        /\ runner'[r].at = x.at /\ runner'[r].step = "run"
    BY <1>2, <1>3, <2>1
  <2>3. PathsTo(k, k)' /\ k <= k
    BY <1>7, <2>1
  <2>4. PathsTo(runner[r].flushed, runner[r].known)'
    BY <2>2, <2>3
  <2>. QED
    BY <1>4, <1>6, <2>2, <2>3, <2>4 DEF RunnerOK
<1>. QED
  BY <1>2, <1>3, <1>8

\* A schema statement: nobody adds a part of what one statement adds, so that
\* a conflict means that all of it is there, or a part was imported.
LEMMA DefineStep ==
    ASSUME StartInv, NEW r \in Procs, Migration!Define(r)
    PROVE  StartInv'
<1>1. Migration!AtStatement(r)
  BY DEF Migration!Define
<1>2. PICK f \in DOMAIN Script : f = Migration!File(r)
  BY <1>1, AtFacts
<1>3. PICK n \in DOMAIN Script[f] : n = runner[r].at
  BY <1>1, <1>2, AtFacts
<1>4. Migration!Statement(r) = Script[f][n] /\ Defines(f, n)
  BY <1>1, <1>2, <1>3, AtFacts DEF Migration!Define, Defines
<1>5. /\ \/ schema' = schema \cup Pieces(f, n)
         \/ /\ schema' = schema
            /\ \/ Script[f][n].kind = "add" /\ Pieces(f, n) \cap schema # {}
               \/ Script[f][n].kind = "unique" /\ duplicates
      /\ runner' = [runner EXCEPT ![r].at = @ + 1]
      /\ UNCHANGED <<imported, duplicates, members, closure, recorded, covered, server, served>>
  BY <1>4 DEF Migration!Define, Pieces
<1>6. Grows
  BY <1>5 DEF Grows
<1>7. Done(f, n)'
  <2>1. Script[f][n].kind = "add" =>
            \/ Pieces(f, n) \cap schema = {}
            \/ Pieces(f, n) \subseteq schema
            \/ Pieces(f, n) \cap imported # {}
    BY DEF StartInv, Whole
  <2>. QED
    BY <1>4, <1>5, <2>1 DEF Done, Defines, Pieces
<1>8. runner[r].flushed = runner[r].known
  <2>1. Migration!Statement(r).kind # "backfill"
    BY <1>4 DEF Defines
  <2>. QED
    BY <1>1, <2>1, AtFacts DEF RunnerOK
<1>9. PICK x \in Running : runner' = [runner EXCEPT ![r] = x]
  BY <1>1, <1>2, <1>3, <1>5, <1>6, <1>7, <1>8, Advances
<1>10. RunnerOK(r)'
  BY <1>1, <1>2, <1>3, <1>5, <1>6, <1>7, <1>8, Advances
<1>11. Whole'
  <2>1. ASSUME NEW g \in DOMAIN Script, NEW s \in DOMAIN Script[g], Script[g][s].kind = "add"
        PROVE  \/ Pieces(g, s) \cap schema' = {}
               \/ Pieces(g, s) \subseteq schema'
               \/ Pieces(g, s) \cap imported' # {}
    <3>1. \/ Pieces(g, s) \cap schema = {}
          \/ Pieces(g, s) \subseteq schema
          \/ Pieces(g, s) \cap imported # {}
      BY <2>1 DEF StartInv, Whole
    <3>2. Pieces(g, s) \cap Pieces(f, n) = {} \/ Pieces(g, s) \subseteq Pieces(f, n)
      BY <1>4, <2>1, ScriptAssumption
    <3>. QED
      BY <1>5, <3>1, <3>2
  <2>. QED
    BY <2>1 DEF Whole, Pieces
<1>12. RecordInv'
  BY <1>5, <1>6, RecordRests DEF StartInv
<1>. QED
  BY <1>5, <1>6, <1>9, <1>10, <1>11, <1>12, RunnerStep DEF StartInv, StartTypes

\* What else changes the schema or does not.
LEMMA WholeRests ==
    ASSUME Whole, UNCHANGED <<schema, imported>>
    PROVE  Whole'
BY DEF Whole, Pieces

\* The statement of V003, and the end of a backfill.
LEMMA LinksStep ==
    ASSUME StartInv, NEW r \in Procs, Migration!InsertLinks(r) \/ Migration!EndBackfill(r)
    PROVE  StartInv'
<1>1. Migration!AtStatement(r)
  BY DEF Migration!InsertLinks, Migration!EndBackfill
<1>2. PICK f \in DOMAIN Script : f = Migration!File(r)
  BY <1>1, AtFacts
<1>3. PICK n \in DOMAIN Script[f] : n = runner[r].at
  BY <1>1, <1>2, AtFacts
<1>4. Migration!Statement(r) = Script[f][n] /\ ~Defines(f, n)
  BY <1>1, <1>2, <1>3, AtFacts DEF Migration!InsertLinks, Migration!EndBackfill, Defines
<1>5. /\ closure \subseteq closure' /\ runner' = [runner EXCEPT ![r].at = @ + 1]
      /\ UNCHANGED <<schema, imported, duplicates, members, recorded, covered, server, served>>
  BY DEF Migration!InsertLinks, Migration!EndBackfill, Migration!database
<1>6. Grows
  BY <1>5 DEF Grows
<1>7. Done(f, n)'
  BY <1>4 DEF Done, Defines
<1>8. runner[r].flushed = runner[r].known
  BY <1>1, AtFacts DEF RunnerOK, Migration!InsertLinks, Migration!EndBackfill, Migration!Backfilled
<1>9. PICK x \in Running : runner' = [runner EXCEPT ![r] = x]
  BY <1>1, <1>2, <1>3, <1>5, <1>6, <1>7, <1>8, Advances
<1>10. RunnerOK(r)'
  BY <1>1, <1>2, <1>3, <1>5, <1>6, <1>7, <1>8, Advances
<1>11. Whole' /\ RecordInv'
  BY <1>5, <1>6, RecordRests, WholeRests DEF StartInv
<1>. QED
  BY <1>5, <1>6, <1>9, <1>10, <1>11, RunnerStep DEF StartInv, StartTypes

\* The backfill: the rows of one ancestor after the other.
LEMMA BackfillStep ==
    ASSUME StartInv, NEW r \in Procs, Migration!ReadTree(r) \/ Migration!Flush(r)
    PROVE  StartInv'
<1>1. Migration!AtStatement(r)
  BY DEF Migration!ReadTree, Migration!Flush
<1>2. /\ runner[r] \in Running /\ AtWork(r) /\ RunnerOK(r) /\ runner[r].step = "run"
      /\ runner[r].known \in Nat /\ runner[r].flushed \in Nat
  BY <1>1, AtFacts DEF Running
<1>3. runner[r].flushed <= runner[r].known /\ PathsTo(runner[r].flushed, runner[r].known)
  BY <1>2 DEF RunnerOK
<1>4. /\ closure \subseteq closure'
      /\ UNCHANGED <<schema, imported, duplicates, members, recorded, covered, server, served>>
  BY DEF Migration!ReadTree, Migration!Flush, Migration!database
<1>5. Grows /\ Whole' /\ RecordInv'
  <2>1. Grows
    BY <1>4 DEF Grows
  <2>. QED
    BY <1>4, <2>1, RecordRests, WholeRests DEF StartInv
<1>6. ASSUME NEW x \in Running, runner' = [runner EXCEPT ![r] = x], x.step = "run",
             x.applied = runner[r].applied, x.at = runner[r].at,
             NEW a, a = x.flushed, NEW n, n = x.known, a <= n, PathsTo(a, n)'
      PROVE  StartInv'
  <2>1. runner'[r] = x
    BY <1>6 DEF StartInv, StartTypes
  <2>2. /\ Migration!Pending(r)' = Migration!Pending(r)
        /\ Migration!File(r)' = Migration!File(r)
        /\ Migration!Statement(r)' = Migration!Statement(r)
    BY <1>6, <2>1 DEF Migration!Pending, Migration!File, Migration!Statement
  <2>3. Migration!Statement(r).kind = "backfill" /\ x.at <= Len(Script[Migration!File(r)])
    BY <1>6 DEF Migration!ReadTree, Migration!Flush, Migration!AtStatement
  <2>4. \A s \in 1 .. (runner[r].at - 1) : Done(Migration!File(r), s)'
    <3>1. PICK f : f = Migration!File(r)
      OBVIOUS
    <3>2. \A s \in 1 .. (runner[r].at - 1) : Done(f, s)
      BY <1>2, <3>1 DEF RunnerOK
    <3>3. \A s \in 1 .. (runner[r].at - 1) : Done(f, s)'
      BY <1>5, <3>2, GrowsKeeps
    <3>. QED
      BY <2>2, <3>1, <3>3
  <2>5. PathsTo(runner[r].flushed, runner[r].known)'
    BY <1>6, <2>1
  <2>6. RunnerOK(r)'
    BY <1>6, <2>1, <2>2, <2>3, <2>4, <2>5 DEF RunnerOK
  <2>. QED
    BY <1>4, <1>5, <1>6, <2>6, RunnerStep DEF StartInv, StartTypes
<1>7. CASE Migration!ReadTree(r)
  <2>. DEFINE x == [runner[r] EXCEPT !.known = members]
  <2>1. /\ x \in Running /\ x.step = "run" /\ x.applied = runner[r].applied
        /\ x.at = runner[r].at /\ x.flushed = 0 /\ x.known = members /\ members \in Nat
    BY <1>2, <1>3, <1>7 DEF Running, StartInv, StartTypes, Migration!ReadTree
  <2>2. runner' = [runner EXCEPT ![r] = x]
    BY <1>7 DEF Migration!ReadTree
  <2>. HIDE DEF x
  <2>3. PathsTo(0, members) /\ members' = members
    BY <1>4 DEF PathsTo
  <2>4. \A n : n = members => PathsTo(0, n)'
    BY <1>5, <2>3, GrowsKeeps
  <2>5. 0 <= members
    BY <2>1
  <2>. QED
    BY <1>6, <2>1, <2>2, <2>4, <2>5
<1>8. CASE Migration!Flush(r)
  <2>1. \/ \E a : /\ a = runner[r].flushed + 1
                  /\ closure' = closure \cup Migration!Rows(a, runner[r].known)
                  /\ runner' = [runner EXCEPT ![r].flushed = a]
        \/ runner' = [runner EXCEPT ![r].step = "failed"]
    BY <1>8 DEF Migration!Flush
  <2>2. ASSUME NEW a, a = runner[r].flushed + 1,
               closure' = closure \cup Migration!Rows(a, runner[r].known),
               runner' = [runner EXCEPT ![r].flushed = a]
        PROVE  StartInv'
    <3>. DEFINE x == [runner[r] EXCEPT !.flushed = a]
    <3>1. PICK n \in Nat : n = runner[r].known
      BY <1>2
    <3>2. PICK b \in Nat : b = runner[r].flushed
      BY <1>2
    <3>3. a = b + 1 /\ a \in Nat /\ a <= n /\ b <= n /\ b # n
      BY <1>3, <1>8, <2>2, <3>1, <3>2 DEF Migration!Flush, Migration!Backfilled
    <3>4. /\ x \in Running /\ x.step = "run" /\ x.applied = runner[r].applied
          /\ x.at = runner[r].at /\ x.flushed = a /\ x.known = n
      BY <1>2, <3>1, <3>3 DEF Running
    <3>5. runner' = [runner EXCEPT ![r] = x]
      BY <2>2
    <3>. HIDE DEF x
    <3>6. PathsTo(b, n)
      BY <1>3, <3>1, <3>2
    <3>7. ASSUME NEW y \in Nat \ {0}, NEW z \in Nat \ {0}, y <= a, y <= z, z <= n
          PROVE  <<y, z>> \in closure'
      <4>1. CASE y <= b
        BY <1>4, <3>6, <3>7, <4>1 DEF PathsTo
      <4>2. CASE y = a
        <5>1. z \in a .. n
          BY <3>3, <3>7, <4>2
        <5>. QED
          BY <2>2, <3>1, <4>2, <5>1 DEF Migration!Rows
      <4>. QED
        BY <3>3, <3>7, <4>1, <4>2
    <3>8. PathsTo(a, n)'
      BY <3>7 DEF PathsTo
    <3>. QED
      BY <1>6, <3>3, <3>4, <3>5, <3>8
  <2>3. ASSUME runner' = [runner EXCEPT ![r].step = "failed"]
        PROVE  StartInv'
    <3>. DEFINE x == [runner[r] EXCEPT !.step = "failed"]
    <3>1. x \in Running /\ x.step = "failed"
      BY <1>2 DEF Running
    <3>2. runner' = [runner EXCEPT ![r] = x] /\ runner'[r] = x
      BY <2>3 DEF StartInv, StartTypes
    <3>. HIDE DEF x
    <3>3. RunnerOK(r)'
      BY <3>1, <3>2 DEF RunnerOK, AtWork
    <3>. QED
      BY <1>4, <1>5, <3>1, <3>2, <3>3, RunnerStep DEF StartInv, StartTypes
  <2>. QED
    BY <2>1, <2>2, <2>3
<1>. QED
  BY <1>7, <1>8

\* The steps of a runner outside a statement.
LEMMA RunnerTurns ==
    ASSUME StartInv, NEW r \in Procs,
           \/ Migration!StartMigration(r) \/ Migration!Finish(r) \/ Migration!FailMigration(r)
    PROVE  StartInv'
<1>1. /\ UNCHANGED <<schema, imported, duplicates, members, closure, recorded, covered,
                     server, served>>
      /\ Grows
  BY DEF Migration!StartMigration, Migration!Finish, Migration!FailMigration,
         Migration!database, Grows
<1>2. Whole' /\ RecordInv'
  BY <1>1, RecordRests, WholeRests DEF StartInv
<1>3. ASSUME NEW x \in Running, runner' = [runner EXCEPT ![r] = x],
             x.step # "run" \/ (x.at = 1 /\ x.known = 0 /\ x.flushed = 0)
      PROVE  StartInv'
  <2>1. runner'[r] = x
    BY <1>3 DEF StartInv, StartTypes
  <2>2. RunnerOK(r)'
    <3>1. CASE x.step # "run"
      BY <2>1, <3>1 DEF RunnerOK, AtWork
    <3>2. CASE x.at = 1 /\ x.known = 0 /\ x.flushed = 0
      <4>1. PathsTo(0, 0)'
        BY DEF PathsTo
      <4>2. /\ runner'[r].at = 1 /\ runner'[r].known = 0 /\ runner'[r].flushed = 0
            /\ 1 .. (1 - 1) = {}
        BY <2>1, <3>2
      <4>. QED
        BY <4>1, <4>2 DEF RunnerOK
    <3>. QED
      BY <1>3, <3>1, <3>2
  <2>. QED
    BY <1>1, <1>2, <1>3, <2>2, RunnerStep DEF StartInv, StartTypes
<1>4. CASE Migration!StartMigration(r)
  <2>. DEFINE x == [step |-> "run", applied |-> recorded, at |-> 1,
                    known |-> 0, flushed |-> 0, faulty |-> FALSE]
  <2>1. x \in Running /\ x.at = 1 /\ x.known = 0 /\ x.flushed = 0
    BY DEF Running, StartInv, StartTypes
  <2>2. runner' = [runner EXCEPT ![r] = x]
    BY <1>4 DEF Migration!StartMigration
  <2>. HIDE DEF x
  <2>. QED
    BY <1>3, <2>1, <2>2
<1>5. CASE Migration!Finish(r)
  <2>. DEFINE x == [runner[r] EXCEPT !.step = "done"]
  <2>1. runner[r] \in Running
    BY <1>5 DEF StartInv, StartTypes, Migration!Resting, Migration!Finish
  <2>2. x \in Running /\ x.step # "run" /\ runner' = [runner EXCEPT ![r] = x]
    BY <1>5, <2>1 DEF Running, Migration!Finish
  <2>. HIDE DEF x
  <2>. QED
    BY <1>3, <2>2
<1>6. CASE Migration!FailMigration(r)
  <2>. DEFINE x == [runner[r] EXCEPT !.step = "failed", !.faulty = TRUE]
  <2>1. runner[r] \in Running
    BY <1>6 DEF StartInv, StartTypes, Migration!Resting, Migration!FailMigration
  <2>2. x \in Running /\ x.step # "run" /\ runner' = [runner EXCEPT ![r] = x]
    BY <1>6, <2>1 DEF Running, Migration!FailMigration
  <2>. HIDE DEF x
  <2>. QED
    BY <1>3, <2>2
<1>. QED
  BY <1>4, <1>5, <1>6

\* A file is recorded when the runner has passed its last statement, so all of
\* them are done, and a backfill among them has written what it read.
LEMMA RecordStep ==
    ASSUME StartInv, NEW r \in Procs, Migration!Record(r)
    PROVE  StartInv'
<1>1. AtWork(r) /\ runner[r].step = "run"
  BY DEF Migration!Record, AtWork
<1>2. runner[r] \in Running /\ RunnerOK(r)
  BY <1>1 DEF StartInv, StartTypes, Migration!Resting, RunnersOK
<1>3. PICK f \in DOMAIN Script : f = Migration!File(r)
  BY FileFacts DEF Migration!Record
<1>4. PICK n \in Nat : n = runner[r].known
  BY <1>2 DEF Running
<1>5. runner[r].at \in Nat /\ runner[r].at > Len(Script[f]) /\ Len(Script[f]) \in Nat
  BY <1>2, <1>3, ScriptFacts DEF Running, Migration!Record, Migration!AllRun
<1>6. \A s \in DOMAIN Script[f] : Done(f, s)
  <2>1. \A s \in DOMAIN Script[f] : s \in 1 .. (runner[r].at - 1)
    BY <1>5, <1>3, ScriptFacts
  <2>. QED
    BY <1>1, <1>2, <1>3, <2>1 DEF RunnerOK
<1>7. PathsTo(n, n)
  <2>1. ~(runner[r].at <= Len(Script[f]))
    BY <1>5
  <2>. QED
    BY <1>1, <1>2, <1>3, <1>4, <2>1 DEF RunnerOK
<1>8. /\ UNCHANGED <<schema, imported, duplicates, members, closure, server, served>>
      /\ recorded' = recorded \cup {f}
      /\ covered' = IF n > covered THEN n ELSE covered
  BY <1>3, <1>4 DEF Migration!Record, Migration!database
<1>9. Grows /\ Whole'
  BY <1>8, WholeRests DEF Grows, StartInv
<1>10. RecordInv'
  <2>1. \A g \in recorded' : \A s \in DOMAIN Script[g] : Done(g, s)'
    BY <1>6, <1>8, <1>9, GrowsKeeps DEF StartInv, RecordInv
  <2>2. PICK c \in Nat : c = covered
    BY DEF StartInv, StartTypes
  <2>3. PathsTo(c, c)
    BY <2>2 DEF StartInv, RecordInv
  <2>4. PathsTo(c, c)' /\ PathsTo(n, n)'
    BY <1>7, <1>9, <2>3, GrowsKeeps
  <2>5. covered' = c \/ covered' = n
    BY <1>8, <2>2
  <2>. QED
    BY <2>1, <2>4, <2>5 DEF RecordInv
<1>. DEFINE x == [runner[r] EXCEPT !.applied = @ \cup {f}, !.at = 1, !.known = 0, !.flushed = 0]
<1>11. /\ x \in Running /\ x.at = 1 /\ x.known = 0 /\ x.flushed = 0
       /\ runner' = [runner EXCEPT ![r] = x]
  <2>1. runner' = [runner EXCEPT ![r].applied = @ \cup {f}, ![r].at = 1,
                                 ![r].known = 0, ![r].flushed = 0]
    BY <1>3 DEF Migration!Record
  <2>2. runner' = [runner EXCEPT ![r] = x]
    BY <2>1 DEF StartInv, StartTypes
  <2>3. x \in Running /\ x.at = 1 /\ x.known = 0 /\ x.flushed = 0
    <3>1. PICK done \in SUBSET DOMAIN Script : done = runner[r].applied \cup {f}
      BY <1>2, <1>3 DEF Running
    <3>2. x = [runner[r] EXCEPT !.applied = done, !.at = 1, !.known = 0, !.flushed = 0]
      BY <3>1
    <3>3. PICK y1 : y1 = [runner[r] EXCEPT !.applied = done]
      OBVIOUS
    <3>4. PICK y2 : y2 = [y1 EXCEPT !.at = 1]
      OBVIOUS
    <3>5. PICK y3 : y3 = [y2 EXCEPT !.known = 0]
      OBVIOUS
    <3>6. x = [y3 EXCEPT !.flushed = 0]
      BY <3>2, <3>3, <3>4, <3>5
    <3>. HIDE DEF x
    <3>7. y1 \in Running
      BY <1>2, <3>3 DEF Running
    <3>8. y2 \in Running /\ y2.at = 1
      BY <3>4, <3>7 DEF Running
    <3>9. y3 \in Running /\ y3.at = 1 /\ y3.known = 0
      BY <3>5, <3>8 DEF Running
    <3>. QED
      BY <3>6, <3>9 DEF Running
  <2>. QED
    BY <2>2, <2>3
<1>. HIDE DEF x
<1>12. runner'[r] = x
  BY <1>11 DEF StartInv, StartTypes
<1>13. RunnerOK(r)'
  <2>1. PathsTo(0, 0)'
    BY DEF PathsTo
  <2>2. /\ runner'[r].at = 1 /\ runner'[r].known = 0 /\ runner'[r].flushed = 0
        /\ 1 .. (1 - 1) = {}
    BY <1>11, <1>12
  <2>. QED
    BY <2>1, <2>2 DEF RunnerOK
<1>14. covered' \in Nat /\ recorded' \subseteq DOMAIN Script
  BY <1>8 DEF StartInv, StartTypes
<1>. QED
  BY <1>8, <1>9, <1>10, <1>11, <1>13, <1>14, RunnerStep

\* Steps that move no runner.
LEMMA RunnersRest ==
    ASSUME StartInv, Grows, UNCHANGED <<runner, recorded, covered>>,
           members' \in Nat, ServerInv', Whole',
           server' \in [step : {"down", "checked", "store", "listening"}, cache : SUBSET Features,
                        ready : BOOLEAN]
    PROVE  StartInv'
<1>1. RecordInv'
  BY RecordRests DEF StartInv
<1>2. ASSUME NEW q \in Procs
      PROVE  RunnerOK(q)'
  BY RunnerRests DEF StartInv, RunnersOK
<1>3. RunnersOK'
  BY <1>2 DEF RunnersOK
<1>. QED
  BY <1>1, <1>3 DEF StartInv, StartTypes

\* A registration adds paths; no migration is disturbed by it.
LEMMA RegisterStep ==
    ASSUME StartInv, Migration!Register
    PROVE  StartInv'
<1>1. /\ closure \subseteq closure' /\ members' = members + 1
      /\ UNCHANGED <<schema, imported, duplicates, recorded, covered, runner, server, served>>
  BY DEF Migration!Register
<1>2. Grows
  BY <1>1 DEF Grows
<1>3. ServerInv' /\ Whole'
  BY <1>1, <1>2, ServerRests, WholeRests DEF StartInv
<1>. QED
  BY <1>1, <1>2, <1>3, RunnersRest DEF StartInv, StartTypes

\* The server listens when there is a sessions table, and says and answers
\* what it has looked up.
LEMMA ServerStep ==
    ASSUME StartInv,
           \/ Migration!Boot \/ Migration!Probe \/ Migration!StopServer
           \/ \E f \in Features : Migration!Request(f)
    PROVE  StartInv'
<1>. USE DEF StartInv, StartTypes
<1>1. CASE Migration!Boot
  <2>1. /\ schema' = schema \/ schema' = schema \cup {Migration!Sessions}
        /\ UNCHANGED <<imported, duplicates, members, closure, recorded, covered, runner, served>>
    BY <1>1 DEF Migration!Boot
  <2>2. Grows
    BY <2>1 DEF Grows
  <2>3. Whole'
    <3>1. ASSUME NEW g \in DOMAIN Script, NEW s \in DOMAIN Script[g], Script[g][s].kind = "add"
          PROVE  \/ Pieces(g, s) \cap schema' = {}
                 \/ Pieces(g, s) \subseteq schema'
                 \/ Pieces(g, s) \cap imported' # {}
      <4>1. \/ Pieces(g, s) \cap schema = {}
            \/ Pieces(g, s) \subseteq schema
            \/ Pieces(g, s) \cap imported # {}
        BY <3>1 DEF Whole
      <4>2. Migration!Sessions \notin Pieces(g, s)
        BY <3>1, ScriptAssumption
      <4>. QED
        BY <2>1, <4>1, <4>2
    <3>. QED
      BY <3>1 DEF Whole, Pieces
  <2>4. ServerInv'
    BY <1>1, <2>2 DEF Migration!Boot, ServerInv, Migration!Readiness, Grows
  <2>5. server' \in [step : {"down", "checked", "store", "listening"}, cache : SUBSET Features,
                     ready : BOOLEAN]
    BY <1>1 DEF Migration!Boot
  <2>. QED
    BY <2>1, <2>2, <2>3, <2>4, <2>5, RunnersRest
<1>2. ASSUME UNCHANGED <<schema, imported, duplicates, members, closure, recorded, covered, runner>>,
             ServerInv',
             server' \in [step : {"down", "checked", "store", "listening"}, cache : SUBSET Features,
                          ready : BOOLEAN]
      PROVE  StartInv'
  <2>1. Grows /\ Whole'
    BY <1>2, WholeRests DEF Grows
  <2>. QED
    BY <1>2, <2>1, RunnersRest
<1>3. CASE Migration!Probe
  <2>1. /\ UNCHANGED <<schema, imported, duplicates, members, closure, recorded, covered, runner, served>>
        /\ server.step = "listening"
        /\ server' = [server EXCEPT !.ready = Migration!SchemaReady]
    BY <1>3 DEF Migration!Probe, Migration!database
  <2>2. server' \in [step : {"down", "checked", "store", "listening"}, cache : SUBSET Features,
                     ready : BOOLEAN]
    BY <2>1 DEF Migration!SchemaReady
  <2>3. ServerInv'
    BY <2>1 DEF ServerInv, Migration!SchemaReady, Migration!Readiness
  <2>. QED
    BY <1>2, <2>1, <2>2, <2>3
<1>4. CASE Migration!StopServer
  <2>1. /\ UNCHANGED <<schema, imported, duplicates, members, closure, recorded, covered, runner>>
        /\ server' = Migration!Down /\ served' = {}
    BY <1>4 DEF Migration!StopServer, Migration!database
  <2>. QED
    BY <1>2, <2>1 DEF ServerInv, Migration!Down
<1>5. ASSUME NEW f \in Features, Migration!Request(f)
      PROVE  StartInv'
  <2>1. /\ UNCHANGED <<schema, imported, duplicates, members, closure, recorded, covered, runner>>
        /\ server' = [server EXCEPT !.cache = @ \cup Migration!Remembered(f)]
        /\ served' = IF f \in server.cache \/ Needs[f] \subseteq schema
                     THEN served \cup {f} ELSE served
    BY <1>5 DEF Migration!Request, Migration!database
  <2>2. server' \in [step : {"down", "checked", "store", "listening"}, cache : SUBSET Features,
                     ready : BOOLEAN]
    BY <2>1 DEF Migration!Remembered
  <2>3. ServerInv'
    BY <2>1 DEF ServerInv, Migration!Remembered, Migration!Readiness
  <2>. QED
    BY <1>2, <2>1, <2>2, <2>3
<1>. QED
  BY <1>1, <1>3, <1>4, <1>5

\* The inductive invariant of the migrations and the server.
LEMMA StartsHold == Spec => [](part = "startup" => StartInv)
<1>1. Init => (part = "startup" => StartInv)
  <2>. SUFFICES ASSUME Migration!Init
                PROVE  StartInv
    BY PartInits
  <2>. USE DEF Migration!Init
  <2>1. StartTypes
    BY DEF StartTypes, Migration!Down
  <2>2. Whole
    BY DEF Whole
  <2>3. RunnersOK
    BY DEF RunnersOK, RunnerOK, AtWork, Migration!Resting
  <2>4. RecordInv /\ ServerInv
    BY DEF RecordInv, ServerInv, PathsTo, Migration!Down
  <2>. QED
    BY <2>1, <2>2, <2>3, <2>4 DEF StartInv
<1>2. (part = "startup" => StartInv) /\ [Next]_vars => (part = "startup" => StartInv)'
  <2>. SUFFICES ASSUME StartInv, part = "startup", part' = "startup", [Next]_vars
                PROVE  StartInv'
    BY PartSteps
  <2>1. CASE UNCHANGED Migration!vars
    <3>1. /\ UNCHANGED <<schema, imported, duplicates, members, closure, recorded, covered,
                         runner, server, served>>
          /\ Grows
      BY <2>1 DEF Migration!vars, Migration!database, Grows
    <3>2. ServerInv' /\ Whole'
      BY <3>1, ServerRests, WholeRests DEF StartInv
    <3>. QED
      BY <3>1, <3>2, RunnersRest DEF StartInv, StartTypes
  <2>2. CASE Migration!Next
    BY <2>2, DefineStep, LinksStep, BackfillStep, RunnerTurns, RecordStep, RegisterStep,
       ServerStep DEF Migration!Next
  <2>. QED
    BY <2>1, <2>2, PartSteps
<1>. QED
  BY <1>1, <1>2, PTL DEF Spec

\* Nothing claims a schema that is not there: a recorded migration left all its
\* pieces, a recorded backfill all the paths it read, and what the server says
\* or answers needs only what there is.
THEOREM ClaimsAreTrue == Spec => []ClaimsHold
<1>1. (part = "startup" => StartInv) => ClaimsHold
  <2>. SUFFICES ASSUME StartInv
                PROVE  Migration!ClaimsHold
    BY DEF ClaimsHold
  <2>1. ASSUME NEW f \in recorded, NEW s \in DOMAIN Script[f],
               Script[f][s].kind \in {"create", "add", "unique"}
        PROVE  \/ Script[f][s].pieces \subseteq schema
               \/ Script[f][s].kind = "add" /\ Script[f][s].pieces \cap imported # {}
               \/ Script[f][s].kind = "unique" /\ duplicates
    BY <2>1 DEF StartInv, RecordInv, Done, Defines, Pieces
  <2>2. \A a, d \in 1 .. covered : a <= d => <<a, d>> \in closure
    BY DEF StartInv, StartTypes, RecordInv, PathsTo
  <2>3. /\ server.ready => Migration!Readiness \cup {Migration!Sessions} \subseteq schema
        /\ \A f \in served : Needs[f] \subseteq schema
    BY DEF StartInv, ServerInv
  <2>. QED
    BY <2>1, <2>2, <2>3 DEF Migration!ClaimsHold
<1>. QED
  BY <1>1, StartsHold, PTL
-----------------------------------------------------------------------------
(***************************************************************************)
(* Encashment.                                                             *)
(***************************************************************************)
AccountRow == [balance : Nat, payout : BOOLEAN, code : {"PD", "FS", "CD"}, owed : Nat,
               paid : Nat, status : {0, 1, 2}]
UpgradeRow == [code : {"none", "PD", "FS", "CD"}, amount : Nat]
PaperRow   == [kind : {"income", "encashment"}, begin : Nat, end : Nat, net : Nat, tax : Nat,
               cd : Nat, paid : BOOLEAN, day : 1 .. MaxDay]
MirrorRow  == [key : RequestIds \X Amounts, pid : Nat, amount : Nat, tax : Nat, cd : Nat, net : Nat]

PayoutTypes ==
    /\ account \in AccountRow /\ upgrade \in UpgradeRow
    /\ paper \in Seq(PaperRow) /\ mirror \subseteq MirrorRow
    /\ vouchered \in Nat /\ migrated \in BOOLEAN /\ today \in 1 .. MaxDay
    /\ upgraded \in [times : Nat, at : Nat] /\ upgraded.at <= Len(paper)

\* What the wallet lost over all rows, and that it lost the rest to vouchers.
Lost == SumFunctionOnSet(Payouts!Spent, DOMAIN paper)
Reconciled == account.balance + vouchered + Lost = 0

\* What an encashment takes from the wallet is accounted for.
RowSound(row) ==
    /\ row.kind = "income" => row.cd = 0
    /\ row.kind = "encashment" =>
          row.begin - row.end =
              row.net + row.tax + row.cd + Payouts!Processing + Payouts!Maintenance

RowsSound == \A i \in DOMAIN paper : RowSound(paper[i])

\* A mirrored row is that of an encashment.
Mirrors(r, i) ==
    /\ i = r.pid /\ i \in Payouts!Encashments
    /\ paper[i].net = r.net /\ paper[i].tax = r.tax /\ paper[i].cd = r.cd
    /\ paper[i].begin - paper[i].end = r.amount

MirrorInv ==
    /\ \A r \in mirror : \E i \in DOMAIN paper : Mirrors(r, i)
    /\ \A r, s \in mirror : r.pid = s.pid => r = s

PayoutInv == PayoutTypes /\ Reconciled /\ RowsSound /\ MirrorInv

\* The account's columns and its latest upgrade agree, and of a CD debt as much
\* is paid as was deducted since it began.
DebtInv ==
    /\ upgrade.code = "none" \/ upgrade.code = account.code
    /\ upgrade.code = "CD" => upgrade.amount = account.owed
    /\ upgraded.times = 0 => upgraded.at = 0
    /\ account.code = "CD" =>
          /\ account.owed > 0 /\ account.paid = Payouts!Taken /\ account.paid <= account.owed
          /\ account.status = IF account.paid = account.owed THEN 2 ELSE 1

\* A total is a sum.
LEMMA TotalSum ==
    ASSUME NEW f, NEW S
    PROVE  Payouts!Total(f, S) = SumFunctionOnSet(f, S)
BY DEF Payouts!Total, Payouts!SumFunctionOnSet, Payouts!FoldFunctionOnSet, Payouts!MapThenFoldSet,
       SumFunctionOnSet, FoldFunctionOnSet, MapThenFoldSet

\* And a count is a cardinality.
LEMMA TotalCount ==
    ASSUME NEW S
    PROVE  Payouts!Cardinality(S) = Cardinality(S)
BY DEF Payouts!Cardinality, Payouts!IsFiniteSet, Cardinality, IsFiniteSet

\* The rows, by number.
LEMMA PaperFacts ==
    ASSUME PayoutTypes
    PROVE  /\ Len(paper) \in Nat /\ DOMAIN paper = 1 .. Len(paper)
           /\ IsFiniteSet(DOMAIN paper) /\ IsFiniteSet(Payouts!Encashments)
           /\ \A i \in DOMAIN paper : paper[i] \in PaperRow
<1>1. Len(paper) \in Nat /\ DOMAIN paper = 1 .. Len(paper)
  BY DEF PayoutTypes
<1>2. \A i \in DOMAIN paper : paper[i] \in PaperRow
  BY <1>1 DEF PayoutTypes
<1>3. IsFiniteSet(DOMAIN paper)
  BY <1>1, FS_Interval
<1>4. IsFiniteSet(Payouts!Encashments)
  BY <1>3, FS_Subset DEF Payouts!Encashments
<1>. QED
  BY <1>1, <1>2, <1>3, <1>4

\* A new row is put behind the others.
LEMMA PaperGrows ==
    ASSUME PayoutTypes, NEW row \in PaperRow, paper' = Append(paper, row),
           NEW n, n = Len(paper) + 1
    PROVE  /\ paper' \in Seq(PaperRow) /\ Len(paper') = n /\ DOMAIN paper' = 1 .. n
           /\ n \in Nat /\ paper'[n] = row
           /\ \A i \in DOMAIN paper : i \in 1 .. n /\ i # n /\ paper'[i] = paper[i]
           /\ \A i \in 1 .. n : i = n \/ i \in DOMAIN paper
<1>1. Len(paper) \in Nat /\ DOMAIN paper = 1 .. Len(paper) /\ paper \in Seq(PaperRow)
  BY PaperFacts DEF PayoutTypes
<1>2. paper' \in Seq(PaperRow) /\ Len(paper') = n
  BY <1>1
<1>3. DOMAIN paper' = 1 .. n
  BY <1>2
<1>4. paper'[n] = row /\ \A i \in DOMAIN paper : paper'[i] = paper[i]
  BY <1>1
<1>. QED
  BY <1>1, <1>2, <1>3, <1>4

\* What the wallet lost grows with a row that was added, by what that row took.
LEMMA LostGrows ==
    ASSUME PayoutTypes, NEW row \in PaperRow, paper' = Append(paper, row)
    PROVE  Lost' = Lost + (row.begin - row.end) /\ Lost \in Int
<1>1. PICK n : n = Len(paper) + 1
  OBVIOUS
<1>2. /\ DOMAIN paper' = 1 .. n /\ n \in Nat /\ paper'[n] = row
      /\ \A i \in DOMAIN paper : i \in 1 .. n /\ i # n /\ paper'[i] = paper[i]
      /\ \A i \in 1 .. n : i = n \/ i \in DOMAIN paper
  BY <1>1, PaperGrows
<1>3. PICK S : S = DOMAIN paper
  OBVIOUS
<1>4. IsFiniteSet(S) /\ n \notin S
  BY <1>2, <1>3, PaperFacts
<1>5. DOMAIN paper' = S \cup {n}
  <2>1. n \in 1 .. n
    BY <1>1, <1>2, PaperFacts
  <2>. QED
    BY <1>2, <1>3, <2>1
<1>6. PICK f : f = Payouts!Spent
  OBVIOUS
<1>7. PICK g : g = Payouts!Spent'
  OBVIOUS
<1>8. \A i \in S : f[i] = g[i] /\ f[i] \in Int
  BY <1>2, <1>3, <1>6, <1>7, PaperFacts DEF Payouts!Spent, PaperRow
<1>9. g[n] = row.begin - row.end /\ g[n] \in Int
  BY <1>2, <1>5, <1>7 DEF Payouts!Spent, PaperRow
<1>10. SumFunctionOnSet(g, S \cup {n}) = g[n] + SumFunctionOnSet(g, S)
  <2>1. \A y \in S \cup {n} : g[y] \in Int
    BY <1>8, <1>9
  <2>. QED
    BY <1>4, <2>1, SumAdd
<1>11. SumFunctionOnSet(f, S) = SumFunctionOnSet(g, S) /\ SumFunctionOnSet(f, S) \in Int
  BY <1>4, <1>8, SumSame, SumInt
<1>12. Lost = SumFunctionOnSet(f, S)
  BY <1>3, <1>6 DEF Lost
<1>13. Lost' = SumFunctionOnSet(g, S \cup {n})
  BY <1>5, <1>7 DEF Lost
<1>. QED
  BY <1>9, <1>10, <1>11, <1>12, <1>13

\* The rows of the reports stay what they are when a row is added.
LEMMA RowAdded ==
    ASSUME PayoutInv, NEW row \in PaperRow, paper' = Append(paper, row), RowSound(row),
           row.begin = account.balance, account' \in AccountRow, account'.balance = row.end,
           UNCHANGED <<upgrade, vouchered, today, upgraded>>, migrated' \in BOOLEAN
    PROVE  /\ Reconciled' /\ RowsSound' /\ upgraded'.at <= Len(paper')
           /\ \A r, i : Mirrors(r, i) => Mirrors(r, i)'
<1>1. PICK n : n = Len(paper) + 1
  OBVIOUS
<1>2. /\ paper' \in Seq(PaperRow) /\ Len(paper') = n /\ DOMAIN paper' = 1 .. n
      /\ n \in Nat /\ paper'[n] = row
      /\ \A i \in DOMAIN paper : i \in 1 .. n /\ i # n /\ paper'[i] = paper[i]
      /\ \A i \in 1 .. n : i = n \/ i \in DOMAIN paper
  BY <1>1, PaperGrows DEF PayoutInv
<1>3. Len(paper) \in Nat /\ DOMAIN paper = 1 .. Len(paper)
  BY PaperFacts DEF PayoutInv
<1>4. Reconciled'
  <2>1. Lost' = Lost + (row.begin - row.end) /\ Lost \in Int
    BY LostGrows DEF PayoutInv
  <2>2. row.begin \in Int /\ row.end \in Int /\ vouchered \in Int
    BY DEF PaperRow, PayoutInv, PayoutTypes
  <2>3. account.balance + vouchered + Lost = 0
    BY DEF PayoutInv, Reconciled
  <2>4. account'.balance + vouchered' + Lost' = 0
    BY <2>1, <2>2, <2>3
  <2>. QED
    BY <2>4 DEF Reconciled
<1>5. RowsSound'
  <2>1. ASSUME NEW i \in 1 .. n
        PROVE  RowSound(paper'[i])
    BY <1>2 DEF PayoutInv, RowsSound
  <2>. QED
    BY <1>2, <2>1 DEF RowsSound, RowSound
<1>6. ASSUME NEW r, NEW i, Mirrors(r, i)
      PROVE  Mirrors(r, i)'
  BY <1>2, <1>6 DEF Mirrors, Payouts!Encashments
<1>. QED
  BY <1>1, <1>2, <1>3, <1>4, <1>5, <1>6 DEF PayoutInv, PayoutTypes

\* The account the deduction is computed from.
StateRow == [code : {"PD", "FS", "CD"}, owed : Nat, paid : Nat, status : {0, 1, 2}]

\* It is such an account.
LEMMA EffectiveRow ==
    ASSUME account \in AccountRow, upgrade \in UpgradeRow
    PROVE  Payouts!Effective \in StateRow
<1>. DEFINE raw == [code |-> account.code, owed |-> account.owed,
                    paid |-> account.paid, status |-> account.status]
<1>1. raw \in StateRow /\ raw.code = account.code
  BY DEF AccountRow, StateRow
<1>2. /\ raw.paid \in Nat /\ raw.owed \in Nat /\ upgrade.amount \in Nat
  BY DEF AccountRow, UpgradeRow
<1>. HIDE DEF raw
<1>3. Payouts!Effective =
        CASE upgrade.code = "PD" /\ raw.code = "CD" ->
                [code |-> "PD", owed |-> raw.owed, status |-> 2,
                 paid |-> IF raw.paid > raw.owed THEN raw.paid ELSE raw.owed]
          [] upgrade.code \in {"PD", "FS"} /\ ~(upgrade.code = "PD" /\ raw.code = "CD") ->
                [code |-> upgrade.code, owed |-> 0, paid |-> 0, status |-> 0]
          [] upgrade.code = "CD" /\ ~(raw.code = "CD" /\ raw.owed = upgrade.amount) ->
                [code |-> "CD", owed |-> upgrade.amount, paid |-> 0, status |-> 1]
          [] OTHER -> raw
  BY DEF Payouts!Effective, raw
<1>4. CASE upgrade.code = "PD" /\ raw.code = "CD"
  <2>1. Payouts!Effective =
            [code |-> "PD", owed |-> raw.owed, status |-> 2,
             paid |-> IF raw.paid > raw.owed THEN raw.paid ELSE raw.owed]
    BY <1>3, <1>4
  <2>2. (IF raw.paid > raw.owed THEN raw.paid ELSE raw.owed) \in Nat
    BY <1>2
  <2>. QED
    BY <1>2, <2>1, <2>2 DEF StateRow
<1>5. CASE upgrade.code \in {"PD", "FS"} /\ ~(upgrade.code = "PD" /\ raw.code = "CD")
  BY <1>3, <1>5 DEF StateRow
<1>6. CASE upgrade.code = "CD" /\ ~(raw.code = "CD" /\ raw.owed = upgrade.amount)
  BY <1>2, <1>3, <1>6 DEF StateRow
<1>7. CASE upgrade.code = "none" \/ (upgrade.code = "CD" /\ raw.code = "CD"
                                       /\ raw.owed = upgrade.amount)
  BY <1>1, <1>3, <1>7
<1>. QED
  BY <1>4, <1>5, <1>6, <1>7 DEF UpgradeRow

\* A breakdown leaves nothing out, and takes no more than is owed.
LEMMA BreakdownFacts ==
    ASSUME NEW g \in Nat, NEW owing \in Nat
    PROVE  LET b == Payouts!Breakdown(g, owing)
           IN  /\ b.tax \in Nat /\ b.cd \in Nat /\ b.net \in Int /\ b.cd <= owing
               /\ b.net + b.tax + b.cd + Payouts!Processing + Payouts!Maintenance = g
<1>1. PICK t \in Nat : t = Payouts!Tax(g)
  BY DEF Payouts!Tax
<1>2. PICK c \in Nat : c = Payouts!Least(Payouts!Quarter(g), owing) /\ c <= owing
  BY DEF Payouts!Quarter, Payouts!Least
<1>3. Payouts!Breakdown(g, owing) =
          [tax |-> t, cd |-> c,
           net |-> g - (t + Payouts!Processing + Payouts!Maintenance + c)]
  BY <1>1, <1>2 DEF Payouts!Breakdown
<1>4. PICK b : b = Payouts!Breakdown(g, owing)
  OBVIOUS
<1>6. /\ b.tax = t /\ b.cd = c
      /\ b.net = g - (t + Payouts!Processing + Payouts!Maintenance + c)
  BY <1>3, <1>4
<1>7. Payouts!Processing \in Nat /\ Payouts!Maintenance \in Nat
  BY DEF Payouts!Processing, Payouts!Maintenance
<1>8. /\ b.net \in Int
      /\ b.net + b.tax + b.cd + Payouts!Processing + Payouts!Maintenance = g
  BY <1>6, <1>7
<1>. QED
  BY <1>2, <1>4, <1>6, <1>8

\* What one encashment writes, of the breakdown b of the amount.
Encashes(amount, request, state, b, row) ==
    /\ state = Payouts!Effective
    /\ b.cd \in Nat /\ b.net \in Nat /\ b.tax \in Nat
    /\ b.cd <= Payouts!Owing(state) /\ amount \in Nat
    /\ row.kind = "encashment" /\ row.begin = account.balance
    /\ row.end = account.balance - amount
    /\ row.net = b.net /\ row.tax = b.tax /\ row.cd = b.cd
    /\ RowSound(row)
    /\ paper' = Append(paper, row)
    /\ account' = [account EXCEPT
         !.balance = account.balance - amount,
         !.paid   = IF b.cd > 0 THEN state.paid + b.cd ELSE @,
         !.status = IF b.cd = 0 THEN @
                    ELSE IF state.paid + b.cd >= state.owed THEN 2 ELSE 1]
    /\ mirror' = IF migrated
         THEN Payouts!Mirrored([key |-> <<request, amount>>, pid |-> Len(paper) + 1,
                                amount |-> amount, tax |-> b.tax, cd |-> b.cd, net |-> b.net])
         ELSE mirror

\* An encashment writes such a row.
LEMMA EncashFacts ==
    ASSUME PayoutTypes, NEW amount \in Amounts, NEW request \in RequestIds,
           Payouts!Encash(amount, request)
    PROVE  \E state \in StateRow : \E b : \E row \in PaperRow :
             Encashes(amount, request, state, b, row)
<1>1. PICK state : state = Payouts!Effective
  OBVIOUS
<1>2. state \in StateRow
  BY <1>1, EffectiveRow DEF PayoutTypes
<1>3. amount \in Nat /\ account.balance \in Nat /\ amount <= account.balance
  BY MoneyAssumption DEF PayoutTypes, AccountRow, Payouts!Encash
<1>4. Payouts!Owing(state) \in Nat
  BY <1>2 DEF Payouts!Owing, StateRow
<1>5. PICK b : b = Payouts!Breakdown(amount, Payouts!Owing(state))
  OBVIOUS
<1>6. /\ b.tax \in Nat /\ b.cd \in Nat /\ b.net \in Int /\ b.cd <= Payouts!Owing(state)
      /\ b.net + b.tax + b.cd + Payouts!Processing + Payouts!Maintenance = amount
  BY <1>3, <1>4, <1>5, BreakdownFacts
<1>7. PICK end : end = account.balance - amount
  OBVIOUS
<1>8. /\ b.net > 0
      /\ account' = [account EXCEPT
           !.balance = end,
           !.paid   = IF b.cd > 0 THEN state.paid + b.cd ELSE @,
           !.status = IF b.cd = 0 THEN @
                      ELSE IF state.paid + b.cd >= state.owed THEN 2 ELSE 1]
      /\ paper' = Append(paper, Payouts!Row("encashment", account.balance, end, b.net, b.tax, b.cd))
      /\ mirror' = IF migrated
           THEN Payouts!Mirrored([key |-> <<request, amount>>, pid |-> Len(paper) + 1,
                                  amount |-> amount, tax |-> b.tax, cd |-> b.cd, net |-> b.net])
           ELSE mirror
  BY <1>1, <1>5, <1>7 DEF Payouts!Encash
<1>9. PICK row : row = Payouts!Row("encashment", account.balance, end, b.net, b.tax, b.cd)
  OBVIOUS
<1>10. end \in Nat /\ b.net \in Nat /\ account.balance - end = amount
  BY <1>3, <1>6, <1>7, <1>8
<1>11. /\ row \in PaperRow
       /\ row.kind = "encashment" /\ row.begin = account.balance /\ row.end = end
       /\ row.net = b.net /\ row.tax = b.tax /\ row.cd = b.cd
  BY <1>3, <1>6, <1>9, <1>10 DEF Payouts!Row, PaperRow, PayoutTypes
<1>12. RowSound(row)
  BY <1>6, <1>10, <1>11 DEF RowSound
<1>. QED
  BY <1>1, <1>2, <1>3, <1>6, <1>7, <1>8, <1>9, <1>10, <1>11, <1>12 DEF Encashes

\* What the debt was deducted grows with a row that was added.
LEMMA TakenGrows ==
    ASSUME PayoutTypes, NEW row \in PaperRow, paper' = Append(paper, row), upgraded' = upgraded
    PROVE  Payouts!Taken' = Payouts!Taken + row.cd /\ Payouts!Taken \in Nat
<1>1. PICK n : n = Len(paper) + 1
  OBVIOUS
<1>2. /\ paper' \in Seq(PaperRow) /\ Len(paper') = n /\ DOMAIN paper' = 1 .. n
      /\ n \in Nat /\ paper'[n] = row
      /\ \A i \in DOMAIN paper : i \in 1 .. n /\ i # n /\ paper'[i] = paper[i]
      /\ \A i \in 1 .. n : i = n \/ i \in DOMAIN paper
  BY <1>1, PaperGrows
<1>3. PICK S : S = {i \in DOMAIN paper : i > upgraded.at}
  OBVIOUS
<1>4. IsFiniteSet(S) /\ S \subseteq DOMAIN paper
  BY <1>3, PaperFacts, FS_Subset
<1>5. n > upgraded.at /\ n \notin S
  BY <1>1, <1>2, <1>4, PaperFacts DEF PayoutTypes
<1>6. {i \in DOMAIN paper' : i > upgraded'.at} = S \cup {n}
  BY <1>2, <1>3, <1>5
<1>7. PICK f : f = Payouts!Cds
  OBVIOUS
<1>8. PICK g : g = Payouts!Cds'
  OBVIOUS
<1>9. \A i \in S : f[i] = g[i] /\ f[i] \in Nat
  BY <1>2, <1>4, <1>7, <1>8, PaperFacts DEF Payouts!Cds, PaperRow
<1>10. g[n] = row.cd /\ row.cd \in Nat
  BY <1>2, <1>8 DEF Payouts!Cds, PaperRow
<1>11. SumFunctionOnSet(g, S \cup {n}) = g[n] + SumFunctionOnSet(g, S)
  <2>1. \A y \in S \cup {n} : g[y] \in Int
    BY <1>9, <1>10
  <2>. QED
    BY <1>4, <1>5, <2>1, SumAdd
<1>12. SumFunctionOnSet(f, S) = SumFunctionOnSet(g, S) /\ SumFunctionOnSet(f, S) \in Nat
  BY <1>4, <1>9, SumSame, SumNat
<1>13. Payouts!Taken = SumFunctionOnSet(f, S)
  BY <1>3, <1>7, TotalSum DEF Payouts!Taken
<1>14. Payouts!Taken' = Payouts!Total(g, S \cup {n})
  BY <1>6, <1>8 DEF Payouts!Taken, Payouts!Total
<1>15. Payouts!Taken' = SumFunctionOnSet(g, S \cup {n})
  BY <1>14, TotalSum
<1>. QED
  BY <1>10, <1>11, <1>12, <1>13, <1>15

\* Steps that leave the history alone, and what wallet and vouchers hold together.
LEMMA PayoutRests ==
    ASSUME PayoutInv, UNCHANGED <<paper, mirror>>, PayoutTypes',
           account'.balance + vouchered' = account.balance + vouchered
    PROVE  PayoutInv'
<1>1. Lost' = Lost
  BY DEF Lost, Payouts!Spent
<1>2. Reconciled'
  BY <1>1 DEF PayoutInv, Reconciled
<1>. QED
  BY <1>2 DEF PayoutInv, RowsSound, RowSound, MirrorInv, Mirrors, Payouts!Encashments

\* A settlement credits.
LEMMA CreditStep ==
    ASSUME PayoutInv, NEW a \in Incomes, Payouts!Credit(a)
    PROVE  /\ PayoutInv'
           /\ DebtInv => DebtInv'
<1>1. PICK row : row = Payouts!Row("income", account.balance, account.balance + a, 0, 0, 0)
  OBVIOUS
<1>2. a \in Nat /\ account \in AccountRow /\ account.balance \in Nat /\ today \in 1 .. MaxDay
  BY MoneyAssumption DEF PayoutInv, PayoutTypes, AccountRow
<1>3. /\ row \in PaperRow /\ row.begin = account.balance /\ row.end = account.balance + a
      /\ row.cd = 0 /\ RowSound(row)
  BY <1>1, <1>2 DEF Payouts!Row, PaperRow, RowSound
<1>4. /\ paper' = Append(paper, row) /\ account' = [account EXCEPT !.balance = @ + a]
      /\ UNCHANGED <<upgrade, mirror, vouchered, migrated, today, upgraded>>
  BY <1>1 DEF Payouts!Credit
<1>5. /\ account' \in AccountRow /\ account'.balance = account.balance + a
      /\ account'.code = account.code /\ account'.paid = account.paid
      /\ account'.owed = account.owed /\ account'.status = account.status
  BY <1>2, <1>4 DEF AccountRow
<1>6. migrated' \in BOOLEAN
  BY <1>4 DEF PayoutInv, PayoutTypes
<1>7. /\ Reconciled' /\ RowsSound' /\ upgraded'.at <= Len(paper')
      /\ \A r, i : Mirrors(r, i) => Mirrors(r, i)'
  BY <1>3, <1>4, <1>5, <1>6, RowAdded
<1>8. PayoutTypes'
  <2>1. paper' \in Seq(PaperRow)
    BY <1>3, <1>4, PaperGrows DEF PayoutInv
  <2>. QED
    BY <1>4, <1>5, <1>7, <2>1 DEF PayoutInv, PayoutTypes
<1>9. MirrorInv'
  <2>1. ASSUME NEW r \in mirror
        PROVE  \E i \in DOMAIN paper' : Mirrors(r, i)'
    <3>1. PICK i \in DOMAIN paper : Mirrors(r, i)
      BY DEF PayoutInv, MirrorInv
    <3>2. Mirrors(r, i)'
      BY <1>7, <3>1
    <3>. QED
      BY <3>2 DEF Mirrors, Payouts!Encashments
  <2>. QED
    BY <1>4, <2>1 DEF PayoutInv, MirrorInv
<1>10. DebtInv => DebtInv'
  <2>1. Payouts!Taken' = Payouts!Taken
    BY <1>3, <1>4, TakenGrows DEF PayoutInv
  <2>. QED
    BY <1>4, <1>5, <2>1 DEF DebtInv
<1>. QED
  BY <1>7, <1>8, <1>9, <1>10 DEF PayoutInv

\* An encashment: its mirror row is new, or there is one with its key.
LEMMA EncashStep ==
    ASSUME PayoutInv, NEW amount \in Amounts, NEW request \in RequestIds,
           Payouts!Encash(amount, request)
    PROVE  /\ PayoutInv'
           /\ DebtInv => DebtInv'
<1>1. PICK state \in StateRow : \E b : \E row \in PaperRow :
               Encashes(amount, request, state, b, row)
  BY EncashFacts DEF PayoutInv
<1>2. PICK b : \E row \in PaperRow : Encashes(amount, request, state, b, row)
  BY <1>1
<1>3. PICK row \in PaperRow : Encashes(amount, request, state, b, row)
  BY <1>2
<1>. USE DEF Encashes
<1>4. UNCHANGED <<upgrade, vouchered, migrated, today, upgraded>>
  BY DEF Payouts!Encash
<1>5. account \in AccountRow /\ row.end \in Nat /\ state.paid \in Nat /\ state.owed \in Nat
  BY <1>3 DEF PayoutInv, PayoutTypes, PaperRow, StateRow
<1>6. PICK paid : paid = IF b.cd > 0 THEN state.paid + b.cd ELSE account.paid
  OBVIOUS
<1>7. PICK status : status = IF b.cd = 0 THEN account.status
                             ELSE IF state.paid + b.cd >= state.owed THEN 2 ELSE 1
  OBVIOUS
<1>8. paid \in Nat /\ status \in {0, 1, 2}
  <2>1. account.paid \in Nat /\ account.status \in {0, 1, 2}
    BY <1>5 DEF AccountRow
  <2>2. b.cd \in Nat
    BY <1>3
  <2>. HIDE DEF Encashes
  <2>. QED
    BY <1>5, <1>6, <1>7, <2>1, <2>2
<1>9. account' = [account EXCEPT !.balance = row.end, !.paid = paid, !.status = status]
  BY <1>3, <1>6, <1>7
<1>10. /\ account' \in AccountRow /\ account'.balance = row.end
       /\ account'.code = account.code /\ account'.owed = account.owed
       /\ account'.paid = paid /\ account'.status = status
  BY <1>5, <1>8, <1>9 DEF AccountRow
<1>11. migrated' \in BOOLEAN
  BY <1>4 DEF PayoutInv, PayoutTypes
<1>12. /\ Reconciled' /\ RowsSound' /\ upgraded'.at <= Len(paper')
       /\ \A r, i : Mirrors(r, i) => Mirrors(r, i)'
  BY <1>3, <1>4, <1>10, <1>11, RowAdded
<1>13. PICK n : n = Len(paper) + 1
  OBVIOUS
<1>14. /\ paper' \in Seq(PaperRow) /\ DOMAIN paper' = 1 .. n /\ n \in Nat
       /\ n \in 1 .. n /\ paper'[n] = row
       /\ \A i \in DOMAIN paper : i # n
  <2>1. /\ paper' \in Seq(PaperRow) /\ DOMAIN paper' = 1 .. n /\ n \in Nat /\ paper'[n] = row
        /\ \A i \in DOMAIN paper : i # n
    BY <1>3, <1>13, PaperGrows DEF PayoutInv
  <2>2. n >= 1
    BY <1>13, PaperFacts DEF PayoutInv
  <2>. QED
    BY <2>1, <2>2
<1>15. PICK r0 : r0 = [key |-> <<request, amount>>, pid |-> n, amount |-> amount, tax |-> b.tax,
                       cd |-> b.cd, net |-> b.net]
  OBVIOUS
<1>16. r0 \in MirrorRow
  BY <1>3, <1>14, <1>15 DEF MirrorRow
<1>17. Mirrors(r0, n)'
  <2>1. row.begin - row.end = amount
    BY <1>3, <1>5 DEF PaperRow
  <2>. QED
    BY <1>3, <1>14, <1>15, <2>1 DEF Mirrors, Payouts!Encashments
<1>18. mirror' = mirror \/ mirror' = mirror \cup {r0}
  BY <1>3, <1>13, <1>15 DEF Payouts!Mirrored
<1>19. MirrorInv'
  <2>1. ASSUME NEW r \in mirror
        PROVE  /\ \E i \in DOMAIN paper' : Mirrors(r, i)'
               /\ r.pid # n
    <3>1. PICK i \in DOMAIN paper : Mirrors(r, i)
      BY DEF PayoutInv, MirrorInv
    <3>2. Mirrors(r, i)'
      BY <1>12, <3>1
    <3>. QED
      BY <1>14, <3>1, <3>2 DEF Mirrors, Payouts!Encashments
  <2>2. r0.pid = n
    BY <1>15
  <2>3. \A r \in mirror' : \E i \in DOMAIN paper' : Mirrors(r, i)'
    BY <1>14, <1>17, <1>18, <2>1
  <2>4. \A r, s \in mirror' : r.pid = s.pid => r = s
    BY <1>18, <2>1, <2>2 DEF PayoutInv, MirrorInv
  <2>. QED
    BY <2>3, <2>4 DEF MirrorInv
<1>20. PayoutTypes'
  BY <1>4, <1>10, <1>12, <1>14, <1>16, <1>18 DEF PayoutInv, PayoutTypes
<1>21. ASSUME DebtInv
       PROVE  DebtInv'
  <2>1. Payouts!Taken' = Payouts!Taken + b.cd /\ Payouts!Taken \in Nat
    BY <1>3, <1>4, TakenGrows DEF PayoutInv
  <2>2. /\ account.code = "CD" => /\ state.code = "CD" /\ state.owed = account.owed
                                  /\ state.paid = account.paid /\ state.status = account.status
        /\ account.code \in {"PD", "FS", "CD"} /\ account.paid \in Nat /\ account.owed \in Nat
    BY <1>3, <1>5, <1>21 DEF DebtInv, Payouts!Effective, AccountRow
  <2>3. ASSUME account.code = "CD"
        PROVE  /\ account.owed > 0 /\ paid = Payouts!Taken + b.cd /\ paid <= account.owed
               /\ status = IF paid = account.owed THEN 2 ELSE 1
    <3>1. /\ account.owed > 0 /\ account.paid = Payouts!Taken /\ account.paid <= account.owed
          /\ account.status = IF account.paid = account.owed THEN 2 ELSE 1
      BY <1>21, <2>3 DEF DebtInv
    <3>2. b.cd <= account.owed - account.paid
      BY <1>3, <2>2, <2>3, <3>1 DEF Payouts!Owing
    <3>3. state.paid = account.paid /\ state.owed = account.owed /\ b.cd \in Nat
      BY <1>3, <2>2, <2>3
    <3>. HIDE DEF Encashes
    <3>4. CASE b.cd = 0
      <4>1. paid = account.paid /\ status = account.status
        BY <1>6, <1>7, <3>4
      <4>. QED
        BY <2>1, <3>1, <3>4, <4>1
    <3>5. CASE b.cd > 0
      <4>1. /\ paid = account.paid + b.cd
            /\ status = IF account.paid + b.cd >= account.owed THEN 2 ELSE 1
        BY <1>6, <1>7, <3>3, <3>5
      <4>2. paid <= account.owed
        BY <2>2, <3>2, <3>3, <4>1
      <4>. QED
        BY <2>1, <2>2, <3>1, <3>3, <4>1, <4>2
    <3>. QED
      BY <3>3, <3>4, <3>5
  <2>. QED
    BY <1>4, <1>10, <1>21, <2>1, <2>3 DEF DebtInv
<1>. QED
  BY <1>12, <1>19, <1>20, <1>21 DEF PayoutInv

\* The administrator's button changes the date and the mark of a row only.
LEMMA ProcessStep ==
    ASSUME PayoutInv, NEW pid \in DOMAIN paper, Payouts!Process(pid)
    PROVE  /\ PayoutInv'
           /\ DebtInv => DebtInv'
<1>1. /\ Len(paper) \in Nat /\ DOMAIN paper = 1 .. Len(paper)
      /\ \A i \in DOMAIN paper : paper[i] \in PaperRow
      /\ today \in 1 .. MaxDay
  BY PaperFacts DEF PayoutInv, PayoutTypes
<1>2. UNCHANGED <<account, upgrade, mirror, vouchered, migrated, today, upgraded>>
  BY DEF Payouts!Process
<1>3. PICK old \in PaperRow : old = paper[pid]
  BY <1>1
<1>4. PICK row : row = [old EXCEPT !.paid = TRUE, !.day = today]
  OBVIOUS
<1>5. /\ row \in PaperRow /\ row.kind = old.kind /\ row.begin = old.begin /\ row.end = old.end
      /\ row.net = old.net /\ row.tax = old.tax /\ row.cd = old.cd
  <2>1. PICK mid : mid = [old EXCEPT !.paid = TRUE]
    OBVIOUS
  <2>2. /\ mid \in PaperRow /\ mid.kind = old.kind /\ mid.begin = old.begin /\ mid.end = old.end
        /\ mid.net = old.net /\ mid.tax = old.tax /\ mid.cd = old.cd
    BY <2>1 DEF PaperRow
  <2>3. row = [mid EXCEPT !.day = today]
    BY <1>4, <2>1
  <2>. QED
    BY <1>1, <2>2, <2>3 DEF PaperRow
<1>6. paper' = [paper EXCEPT ![pid] = row]
  BY <1>3, <1>4 DEF Payouts!Process
<1>7. /\ paper' \in Seq(PaperRow) /\ Len(paper') = Len(paper) /\ DOMAIN paper' = DOMAIN paper
  BY <1>1, <1>5, <1>6 DEF PayoutInv, PayoutTypes
<1>8. \A i \in DOMAIN paper :
        /\ paper'[i].kind = paper[i].kind
        /\ paper'[i].begin = paper[i].begin /\ paper'[i].end = paper[i].end
        /\ paper'[i].net = paper[i].net /\ paper'[i].tax = paper[i].tax
        /\ paper'[i].cd = paper[i].cd
  BY <1>3, <1>5, <1>6
<1>9. PayoutTypes'
  BY <1>2, <1>7 DEF PayoutInv, PayoutTypes
<1>10. Reconciled'
  <2>1. PICK f : f = Payouts!Spent
    OBVIOUS
  <2>2. PICK g : g = Payouts!Spent'
    OBVIOUS
  <2>3. \A i \in DOMAIN paper : f[i] = g[i]
    BY <1>7, <1>8, <2>1, <2>2 DEF Payouts!Spent
  <2>4. IsFiniteSet(DOMAIN paper)
    BY PaperFacts DEF PayoutInv
  <2>5. SumFunctionOnSet(f, DOMAIN paper) = SumFunctionOnSet(g, DOMAIN paper)
    BY <2>3, <2>4, SumSame
  <2>6. Lost' = Lost
    BY <1>7, <2>1, <2>2, <2>5 DEF Lost
  <2>. QED
    BY <1>2, <2>6 DEF PayoutInv, Reconciled
<1>11. RowsSound'
  BY <1>7, <1>8 DEF PayoutInv, RowsSound, RowSound
<1>12. MirrorInv'
  <2>1. ASSUME NEW r \in mirror
        PROVE  \E i \in DOMAIN paper' : Mirrors(r, i)'
    <3>1. PICK i \in DOMAIN paper : Mirrors(r, i)
      BY DEF PayoutInv, MirrorInv
    <3>2. Mirrors(r, i)'
      BY <1>7, <1>8, <3>1 DEF Mirrors, Payouts!Encashments
    <3>. QED
      BY <1>7, <3>2
  <2>. QED
    BY <1>2, <2>1 DEF PayoutInv, MirrorInv
<1>13. Payouts!Taken' = Payouts!Taken
  <2>1. PICK S : S = {i \in DOMAIN paper : i > upgraded.at}
    OBVIOUS
  <2>2. IsFiniteSet(S) /\ S \subseteq DOMAIN paper
    BY <2>1, PaperFacts, FS_Subset DEF PayoutInv
  <2>3. {i \in DOMAIN paper' : i > upgraded'.at} = S
    BY <1>2, <1>7, <2>1
  <2>4. PICK f : f = Payouts!Cds
    OBVIOUS
  <2>5. PICK g : g = Payouts!Cds'
    OBVIOUS
  <2>6. \A i \in S : f[i] = g[i]
    BY <1>7, <1>8, <2>2, <2>4, <2>5 DEF Payouts!Cds
  <2>7. SumFunctionOnSet(f, S) = SumFunctionOnSet(g, S)
    BY <2>2, <2>6, SumSame
  <2>8. Payouts!Taken = Payouts!Total(f, S)
    BY <2>1, <2>4 DEF Payouts!Taken
  <2>9. Payouts!Taken' = Payouts!Total(g, S)
    BY <2>3, <2>5 DEF Payouts!Taken, Payouts!Total
  <2>. QED
    BY <2>7, <2>8, <2>9, TotalSum
<1>14. DebtInv => DebtInv'
  BY <1>2, <1>13 DEF DebtInv
<1>. QED
  BY <1>9, <1>10, <1>11, <1>12, <1>14 DEF PayoutInv

\* An upgrade starts a debt of which nothing has been deducted, or ends one.
LEMMA UpgradeStep ==
    ASSUME PayoutInv, NEW code \in {"PD", "FS", "CD"}, NEW debt \in Debts,
           Payouts!Upgrade(code, debt)
    PROVE  PayoutInv' /\ DebtInv'
<1>1. /\ account \in AccountRow /\ debt \in Nat /\ debt > 0 /\ Len(paper) \in Nat
      /\ upgraded.times \in Nat
  BY MoneyAssumption, PaperFacts DEF PayoutInv, PayoutTypes
<1>2. PICK a : a = Payouts!Blank(code, debt)
  OBVIOUS
<1>3. /\ a \in AccountRow /\ a.code = code /\ a.paid = 0
      /\ code = "CD" => a.owed = debt /\ a.status = 1
  BY <1>1, <1>2 DEF Payouts!Blank, AccountRow
<1>4. /\ account' = [a EXCEPT !.balance = account.balance, !.payout = account.payout]
      /\ upgrade' = [code |-> code, amount |-> debt]
      /\ upgraded' = [times |-> upgraded.times + 1, at |-> Len(paper)]
      /\ UNCHANGED <<paper, mirror, vouchered, migrated, today>>
  BY <1>2 DEF Payouts!Upgrade
<1>5. /\ account' \in AccountRow /\ account'.balance = account.balance
      /\ account'.code = code /\ account'.paid = 0
      /\ code = "CD" => account'.owed = debt /\ account'.status = 1
  BY <1>1, <1>3, <1>4 DEF AccountRow
<1>6. upgrade' \in UpgradeRow /\ upgraded' \in [times : Nat, at : Nat]
  BY <1>1, <1>4 DEF UpgradeRow
<1>7. PayoutTypes'
  BY <1>1, <1>4, <1>5, <1>6 DEF PayoutInv, PayoutTypes
<1>8. Payouts!Taken' = 0
  <2>1. {i \in DOMAIN paper' : i > upgraded'.at} = {}
    BY <1>1, <1>4, PaperFacts DEF PayoutInv
  <2>2. PICK g : g = Payouts!Cds'
    OBVIOUS
  <2>3. Payouts!Taken' = Payouts!Total(g, {})
    BY <2>1, <2>2 DEF Payouts!Taken, Payouts!Total
  <2>. QED
    BY <2>3, TotalSum, SumEmpty
<1>9. DebtInv'
  BY <1>1, <1>4, <1>5, <1>8 DEF DebtInv
<1>. QED
  BY <1>4, <1>5, <1>7, <1>9, PayoutRests

\* A voucher transaction takes from the wallet what it adds to those that stand.
LEMMA VoucherStep ==
    ASSUME PayoutInv, NEW cost \in Charges \cup {0}, Payouts!PayVouchers(cost)
    PROVE  /\ PayoutInv'
           /\ DebtInv => DebtInv'
<1>1. /\ account \in AccountRow /\ account.balance \in Nat /\ vouchered \in Nat
      /\ cost \in Nat
  BY MoneyAssumption DEF PayoutInv, PayoutTypes, AccountRow
<1>2. PICK rest : rest = account.balance - (cost - vouchered)
  OBVIOUS
<1>3. cost - vouchered <= account.balance
  BY DEF Payouts!PayVouchers
<1>4. rest \in Nat /\ rest + cost = account.balance + vouchered
  BY <1>1, <1>2, <1>3
<1>5. /\ account' = [account EXCEPT !.balance = rest] /\ vouchered' = cost
      /\ UNCHANGED <<upgrade, paper, mirror, migrated, today, upgraded>>
  BY <1>2 DEF Payouts!PayVouchers
<1>6. /\ account' \in AccountRow /\ account'.balance = rest
      /\ account'.code = account.code /\ account'.paid = account.paid
      /\ account'.owed = account.owed /\ account'.status = account.status
  BY <1>1, <1>4, <1>5 DEF AccountRow
<1>7. PayoutTypes'
  BY <1>1, <1>5, <1>6 DEF PayoutInv, PayoutTypes
<1>8. PayoutInv'
  BY <1>4, <1>5, <1>6, <1>7, PayoutRests
<1>9. Payouts!Taken' = Payouts!Taken
  BY <1>5 DEF Payouts!Taken, Payouts!Cds, Payouts!Total
<1>. QED
  BY <1>5, <1>6, <1>8, <1>9 DEF DebtInv

\* The other steps.
LEMMA PayoutStep ==
    ASSUME PayoutInv, [Payouts!Next]_(Payouts!vars)
    PROVE  /\ PayoutInv'
           /\ DebtInv => DebtInv'
<1>1. ASSUME UNCHANGED <<paper, mirror, upgrade, upgraded, vouchered>>,
             account' = account \/ \E set \in BOOLEAN : account' = [account EXCEPT !.payout = set],
             migrated' \in BOOLEAN, today' \in 1 .. MaxDay
      PROVE  /\ PayoutInv'
             /\ DebtInv => DebtInv'
  <2>1. /\ account' \in AccountRow /\ account'.balance = account.balance
        /\ account'.code = account.code /\ account'.paid = account.paid
        /\ account'.owed = account.owed /\ account'.status = account.status
    BY <1>1 DEF PayoutInv, PayoutTypes, AccountRow
  <2>2. PayoutTypes'
    BY <1>1, <2>1 DEF PayoutInv, PayoutTypes
  <2>3. Payouts!Taken' = Payouts!Taken
    BY <1>1 DEF Payouts!Taken, Payouts!Cds, Payouts!Total
  <2>. QED
    BY <1>1, <2>1, <2>2, <2>3, PayoutRests DEF DebtInv
<1>2. migrated \in BOOLEAN /\ today \in 1 .. MaxDay /\ MaxDay \in Nat
  BY MoneyAssumption DEF PayoutInv, PayoutTypes
<1>3. CASE UNCHANGED Payouts!vars
  BY <1>1, <1>2, <1>3 DEF Payouts!vars
<1>4. CASE \E set \in BOOLEAN : Payouts!SavePayout(set)
  BY <1>1, <1>2, <1>4 DEF Payouts!SavePayout
<1>5. CASE Payouts!Migrate \/ Payouts!NextDay
  <2>1. /\ UNCHANGED <<paper, mirror, upgrade, upgraded, vouchered, account>>
        /\ migrated' \in BOOLEAN
    BY <1>2, <1>5 DEF Payouts!Migrate, Payouts!NextDay
  <2>2. today' = today \/ (today < MaxDay /\ today' = today + 1)
    BY <1>5 DEF Payouts!Migrate, Payouts!NextDay
  <2>3. today' \in 1 .. MaxDay
    BY <1>2, <2>2
  <2>. QED
    BY <1>1, <2>1, <2>3
<1>6. CASE \E a \in Incomes : Payouts!Credit(a)
  BY <1>6, CreditStep
<1>7. CASE \E a \in Amounts, q \in RequestIds : Payouts!Encash(a, q)
  BY <1>7, EncashStep
<1>8. CASE \E code \in {"PD", "FS", "CD"}, d \in Debts : Payouts!Upgrade(code, d)
  BY <1>8, UpgradeStep
<1>9. CASE \E pid \in DOMAIN paper : Payouts!Process(pid)
  BY <1>9, ProcessStep
<1>10. CASE \E cost \in Charges \cup {0} : Payouts!PayVouchers(cost)
  BY <1>10, VoucherStep
<1>. QED
  BY <1>3, <1>4, <1>5, <1>6, <1>7, <1>8, <1>9, <1>10 DEF Payouts!Next

\* The reports agree, in every state with sound rows.
LEMMA ReportsFollow ==
    ASSUME PayoutInv
    PROVE  Payouts!ReportsAgree
<1>. DEFINE E == Payouts!Encashments
            D == 1 .. MaxDay
<1>1. /\ IsFiniteSet(DOMAIN paper) /\ IsFiniteSet(E) /\ E \subseteq DOMAIN paper
      /\ DOMAIN paper = 1 .. Len(paper)
      /\ \A i \in DOMAIN paper : paper[i] \in PaperRow
  BY PaperFacts DEF PayoutInv, Payouts!Encashments
<1>2. IsFiniteSet(D)
  BY MoneyAssumption, FS_Interval
<1>3. PICK net : net = Payouts!Net
  OBVIOUS
<1>4. PICK cut : cut = Payouts!Cut
  OBVIOUS
<1>5. PICK cds : cds = Payouts!Cds
  OBVIOUS
<1>6. PICK spent : spent = Payouts!Spent
  OBVIOUS
<1>7. \A i \in DOMAIN paper : /\ net[i] = paper[i].net /\ net[i] \in Nat
                              /\ cut[i] = paper[i].tax + Payouts!Processing + paper[i].cd
                              /\ cut[i] \in Nat
                              /\ cds[i] = paper[i].cd /\ cds[i] \in Nat
                              /\ spent[i] = paper[i].begin - paper[i].end
  BY <1>1, <1>3, <1>4, <1>5, <1>6
     DEF Payouts!Net, Payouts!Cut, Payouts!Cds, Payouts!Spent, PaperRow, Payouts!Processing
<1>8. \A i \in E : spent[i] = net[i] + (cut[i] + Payouts!Maintenance)
  <2>1. ASSUME NEW i \in E
        PROVE  spent[i] = net[i] + (cut[i] + Payouts!Maintenance)
    <3>1. i \in DOMAIN paper /\ paper[i].kind = "encashment" /\ RowSound(paper[i])
      BY DEF Payouts!Encashments, PayoutInv, RowsSound
    <3>2. /\ paper[i].net \in Nat /\ paper[i].tax \in Nat /\ paper[i].cd \in Nat
          /\ paper[i].begin \in Nat /\ paper[i].end \in Nat
      BY <1>1, <3>1 DEF PaperRow
    <3>. QED
      BY <1>7, <3>1, <3>2 DEF RowSound, Payouts!Processing, Payouts!Maintenance
  <2>. QED
    BY <2>1
<1>9. PICK fee : fee = [i \in DOMAIN paper |-> Payouts!Maintenance]
  OBVIOUS
<1>10. PICK most : most = [i \in DOMAIN paper |-> cut[i] + Payouts!Maintenance]
  OBVIOUS
<1>11. /\ Payouts!Maintenance \in Int
       /\ \A i \in E : /\ fee[i] = Payouts!Maintenance /\ fee[i] \in Int
                       /\ net[i] \in Int /\ cut[i] \in Int
                       /\ most[i] = cut[i] + fee[i] /\ most[i] \in Int
                       /\ spent[i] = net[i] + most[i]
                       /\ net[i] \in Nat /\ cds[i] \in Nat
  BY <1>1, <1>7, <1>8, <1>9, <1>10 DEF Payouts!Maintenance
<1>. HIDE DEF E, D
<1>12. SumFunctionOnSet(fee, E) = Payouts!Maintenance * Cardinality(E)
  BY <1>1, <1>11, SumConst
<1>13. SumFunctionOnSet(most, E) = SumFunctionOnSet(cut, E) + SumFunctionOnSet(fee, E)
  BY <1>1, <1>11, SumPlus
<1>14. SumFunctionOnSet(spent, E) = SumFunctionOnSet(net, E) + SumFunctionOnSet(most, E)
  BY <1>1, <1>11, SumPlus
<1>15. PICK report : report = Payouts!Summary(E)
  OBVIOUS
<1>16. /\ report.records = Cardinality(E) /\ report.net = SumFunctionOnSet(net, E)
       /\ report.gross = SumFunctionOnSet(net, E) + SumFunctionOnSet(cut, E)
  <2>1. /\ report.records = Cardinality(E) /\ report.net = Payouts!Total(net, E)
        /\ report.gross = Payouts!Total(net, E) + Payouts!Total(cut, E)
    <3>1. report = [records |-> Cardinality(E), net |-> Payouts!Total(net, E),
                    cuts |-> Payouts!Total(cut, E),
                    gross |-> Payouts!Total(net, E) + Payouts!Total(cut, E),
                    paid |-> Cardinality({i \in E : paper[i].paid})]
      BY <1>3, <1>4, <1>15, TotalCount DEF Payouts!Summary
    <3>. QED
      BY <3>1
  <2>. QED
    BY <2>1, TotalSum
<1>17. Payouts!Total(spent, E) = report.gross + Payouts!Maintenance * report.records
  <2>1. /\ SumFunctionOnSet(net, E) \in Int /\ SumFunctionOnSet(cut, E) \in Int
        /\ SumFunctionOnSet(fee, E) \in Int
    BY <1>1, <1>11, SumInt
  <2>. QED
    BY <1>12, <1>13, <1>14, <1>16, <2>1, TotalSum
<1>18. PICK gross : gross = [d \in D |-> Payouts!Daily[d].gross]
  OBVIOUS
<1>19. Payouts!Total(gross, D) = report.gross
  <2>1. PICK k : k = [i \in DOMAIN paper |-> paper[i].day]
    OBVIOUS
  <2>2. \A i \in E : k[i] \in D
    BY <1>1, <2>1 DEF D, PaperRow
  <2>3. PICK nets : nets = Classes(net, E, k, D)
    OBVIOUS
  <2>4. PICK cuts : cuts = Classes(cut, E, k, D)
    OBVIOUS
  <2>5. SumFunctionOnSet(nets, D) = SumFunctionOnSet(net, E)
    BY <1>1, <1>2, <1>11, <2>2, <2>3, SumClasses
  <2>6. SumFunctionOnSet(cuts, D) = SumFunctionOnSet(cut, E)
    BY <1>1, <1>2, <1>11, <2>2, <2>4, SumClasses
  <2>7. ASSUME NEW d \in D
        PROVE  gross[d] = nets[d] + cuts[d] /\ nets[d] \in Int /\ cuts[d] \in Int
    <3>1. Payouts!On(d) = Class(E, k, d)
      BY <1>1, <2>1 DEF Payouts!On, Class, E
    <3>2. PICK c : c = Class(E, k, d)
      OBVIOUS
    <3>3. nets[d] = SumFunctionOnSet(net, c) /\ cuts[d] = SumFunctionOnSet(cut, c)
      BY <2>3, <2>4, <3>2 DEF Classes
    <3>4. gross[d] = Payouts!Total(net, c) + Payouts!Total(cut, c)
      BY <1>3, <1>4, <1>18, <3>1, <3>2 DEF Payouts!Daily, Payouts!Summary, D
    <3>5. c \in SUBSET E
      BY <3>2 DEF Class
    <3>6. IsFiniteSet(c) /\ \A i \in c : net[i] \in Int /\ cut[i] \in Int
      BY <1>1, <1>11, <3>5, FS_Subset
    <3>7. SumFunctionOnSet(net, c) \in Int /\ SumFunctionOnSet(cut, c) \in Int
      BY <3>6, SumInt
    <3>. QED
      BY <3>3, <3>4, <3>7, TotalSum
  <2>8. SumFunctionOnSet(gross, D) = SumFunctionOnSet(nets, D) + SumFunctionOnSet(cuts, D)
    BY <1>2, <2>7, SumPlus
  <2>. QED
    BY <1>16, <2>5, <2>6, <2>8, TotalSum
<1>20. /\ \A r \in mirror :
            /\ r.pid \in E
            /\ paper[r.pid].net = r.net /\ paper[r.pid].tax = r.tax /\ paper[r.pid].cd = r.cd
            /\ paper[r.pid].begin - paper[r.pid].end = r.amount
       /\ \A r, s \in mirror : r.pid = s.pid => r = s
  BY DEF PayoutInv, MirrorInv, Mirrors, E
<1>21. PICK pids : pids = {r.pid : r \in mirror}
  OBVIOUS
<1>22. PICK m : m = [r \in mirror |-> r.pid]
  OBVIOUS
<1>23. /\ pids \in SUBSET E /\ pids \in SUBSET DOMAIN paper /\ IsFiniteSet(pids)
  <2>1. pids \in SUBSET E
    BY <1>20, <1>21
  <2>. QED
    BY <1>1, <2>1, FS_Subset
<1>24. m \in Bijection(mirror, pids)
  <2>1. m \in [mirror -> pids]
    BY <1>21, <1>22
  <2>2. \A a, b \in mirror : m[a] = m[b] => a = b
    BY <1>20, <1>22
  <2>3. \A t \in pids : \E r \in mirror : m[r] = t
    BY <1>21, <1>22
  <2>. QED
    BY <2>1, <2>2, <2>3 DEF Bijection, Injection, Surjection, IsInjective
<1>25. ASSUME NEW f, NEW g, NEW S, IsFiniteSet(S), pids \in SUBSET S,
              \A i \in S : f[i] \in Nat, \A r \in mirror : g[r] = f[r.pid]
       PROVE  SumFunctionOnSet(g, mirror) <= SumFunctionOnSet(f, S)
  <2>1. \A r \in mirror : g[r] = f[m[r]] /\ g[r] \in Int
    BY <1>21, <1>22, <1>25
  <2>2. SumFunctionOnSet(g, mirror) = SumFunctionOnSet(f, pids)
    BY <1>23, <1>24, <2>1, SumRenamed
  <2>3. SumFunctionOnSet(f, pids) <= SumFunctionOnSet(f, S)
    BY <1>25, SumSubset
  <2>. QED
    BY <2>2, <2>3
<1>26. Payouts!FinanceWallet.pending <= report.net
  <2>1. PICK g : g = [r \in mirror |-> r.net]
    OBVIOUS
  <2>2. \A r \in mirror : g[r] = net[r.pid]
    BY <1>1, <1>7, <1>20, <2>1
  <2>3. SumFunctionOnSet(g, mirror) <= SumFunctionOnSet(net, E)
    BY <1>1, <1>11, <1>23, <1>25, <2>2
  <2>4. Payouts!FinanceWallet.pending = Payouts!Total(g, mirror)
    BY <2>1 DEF Payouts!FinanceWallet
  <2>. QED
    BY <1>16, <2>3, <2>4, TotalSum
<1>27. Payouts!FinanceWallet.recovered <= Payouts!Deducted
  <2>1. PICK g : g = [r \in mirror |-> r.cd]
    OBVIOUS
  <2>2. \A r \in mirror : g[r] = cds[r.pid]
    BY <1>1, <1>7, <1>20, <2>1
  <2>3. SumFunctionOnSet(g, mirror) <= SumFunctionOnSet(cds, DOMAIN paper)
    BY <1>1, <1>7, <1>23, <1>25, <2>2
  <2>4. Payouts!FinanceWallet.recovered = Payouts!Total(g, mirror)
    BY <2>1 DEF Payouts!FinanceWallet
  <2>5. Payouts!Deducted = Payouts!Total(cds, DOMAIN paper)
    BY <1>5 DEF Payouts!Deducted
  <2>. QED
    BY <2>3, <2>4, <2>5, TotalSum
<1>28. account.balance + vouchered + Payouts!Total(spent, DOMAIN paper) = 0
  BY <1>6, TotalSum DEF PayoutInv, Reconciled, Lost
<1>. QED
  BY <1>6, <1>15, <1>17, <1>18, <1>19, <1>20, <1>26, <1>27, <1>28 DEF Payouts!ReportsAgree, E, D

\* A new account, or one of the PHP program.
LEMMA PayoutStarts ==
    ASSUME Payouts!Init
    PROVE  PayoutInv
<1>1. account \in AccountRow /\ upgrade \in UpgradeRow /\ account.balance = 0
  <2>1. ASSUME NEW code \in {"PD", "FS", "CD"}, NEW d \in Debts
        PROVE  Payouts!Blank(code, d) \in AccountRow /\ Payouts!Blank(code, d).balance = 0
    <3>1. d \in Nat
      BY MoneyAssumption
    <3>. QED
      BY <3>1 DEF Payouts!Blank, AccountRow
  <2>2. /\ Payouts!NoUpgrade \in UpgradeRow
        /\ \A d \in Debts : [code |-> "CD", amount |-> d] \in UpgradeRow
    BY MoneyAssumption DEF Payouts!NoUpgrade, UpgradeRow
  <2>3. /\ \E code \in {"PD", "FS", "CD"}, d \in Debts : account = Payouts!Blank(code, d)
        /\ \/ upgrade = Payouts!NoUpgrade
           \/ \E d \in Debts : upgrade = [code |-> "CD", amount |-> d]
    BY DEF Payouts!Init
  <2>. QED
    BY <2>1, <2>2, <2>3
<1>2. /\ paper = <<>> /\ mirror = {} /\ migrated \in BOOLEAN /\ today = 1
      /\ upgraded = [times |-> 0, at |-> 0] /\ vouchered = 0
  BY DEF Payouts!Init
<1>3. Len(paper) = 0 /\ DOMAIN paper = {} /\ paper \in Seq(PaperRow)
  BY <1>2
<1>4. 1 \in 1 .. MaxDay
  BY MoneyAssumption
<1>5. Reconciled
  <2>1. PICK f : f = Payouts!Spent
    OBVIOUS
  <2>2. Lost = SumFunctionOnSet(f, {})
    BY <1>3, <2>1 DEF Lost
  <2>3. Lost = 0
    BY <2>2, SumEmpty
  <2>. QED
    BY <1>1, <1>2, <2>3 DEF Reconciled
<1>. QED
  BY <1>1, <1>2, <1>3, <1>4, <1>5 DEF PayoutInv, PayoutTypes, RowsSound, MirrorInv

\* History and vouchers account for the balance, the totals of the encashment
\* reports are what the wallet lost, also by day, and the finance page shows a
\* part of them.
THEOREM ReportsHold == Spec => []ReportsAgree
<1>1. Init => (part = "encashment" => PayoutInv)
  BY PartInits, PayoutStarts
<1>2. (part = "encashment" => PayoutInv) /\ [Next]_vars => (part = "encashment" => PayoutInv)'
  BY PartSteps, PayoutStep
<1>3. (part = "encashment" => PayoutInv) => ReportsAgree
  BY ReportsFollow DEF ReportsAgree
<1>. QED
  BY <1>1, <1>2, <1>3, PTL DEF Spec

\* Encashments settle a CD debt exactly, for an account whose upgrade left its
\* columns behind (LegacyUpgrade) excepted.
THEOREM DebtsSettle == LegacyUpgrade = FALSE /\ Spec => []CdSettled
<1>. DEFINE Inv == part = "encashment" => PayoutInv /\ DebtInv
<1>. SUFFICES ASSUME LegacyUpgrade = FALSE
              PROVE  Spec => []CdSettled
  OBVIOUS
<1>1. Init => Inv
  <2>. SUFFICES ASSUME Payouts!Init
                PROVE  PayoutInv /\ DebtInv
    BY PartInits
  <2>1. PayoutInv
    BY PayoutStarts
  <2>2. PICK code \in {"PD", "FS", "CD"}, d \in Debts : account = Payouts!Blank(code, d)
    BY DEF Payouts!Init
  <2>3. d \in Nat /\ d > 0
    BY MoneyAssumption
  <2>4. /\ account.code = "CD" => account.owed = d /\ account.status = 1
        /\ account.paid = 0 /\ upgrade.code = "none" /\ upgraded.times = 0 /\ upgraded.at = 0
    BY <2>2 DEF Payouts!Init, Payouts!Blank, Payouts!NoUpgrade
  <2>5. Payouts!Taken = 0
    <3>1. paper = <<>> /\ DOMAIN paper = {}
      BY DEF Payouts!Init
    <3>2. {i \in DOMAIN paper : i > upgraded.at} = {}
      BY <3>1
    <3>3. Payouts!Taken = Payouts!Total(Payouts!Cds, {})
      BY <3>2 DEF Payouts!Taken
    <3>. QED
      BY <3>3, TotalSum, SumEmpty
  <2>. QED
    BY <2>1, <2>3, <2>4, <2>5 DEF DebtInv
<1>2. Inv /\ [Next]_vars => Inv'
  BY PartSteps, PayoutStep
<1>3. Inv => CdSettled
  <2>. SUFFICES ASSUME PayoutInv, DebtInv, account.code = "CD"
                PROVE  /\ account.paid = Payouts!Taken /\ Payouts!Taken <= account.owed
                       /\ account.status = IF Payouts!Taken = account.owed THEN 2 ELSE 1
                       /\ upgraded.times = 0 =>
                             (Payouts!CdLabel = "Fully Paid") = (account.status = 2)
    BY DEF CdSettled, Payouts!CdSettled
  <2>1. /\ account.paid = Payouts!Taken /\ Payouts!Taken <= account.owed
        /\ account.status = IF Payouts!Taken = account.owed THEN 2 ELSE 1
        /\ account.paid \in Nat /\ account.owed \in Nat
    BY DEF DebtInv, PayoutInv, PayoutTypes, AccountRow
  <2>2. ASSUME upgraded.times = 0
        PROVE  (Payouts!CdLabel = "Fully Paid") = (account.status = 2)
    <3>1. {i \in DOMAIN paper : i > upgraded.at} = DOMAIN paper
      BY <2>2, PaperFacts DEF DebtInv, PayoutInv
    <3>2. Payouts!Deducted = Payouts!Taken
      BY <3>1 DEF Payouts!Deducted, Payouts!Taken
    <3>3. Payouts!Deducted \in Nat /\ (Payouts!Deducted >= account.owed <=> account.status = 2)
      BY <2>1, <3>2
    <3>4. CASE Payouts!Deducted >= account.owed
      <4>1. Payouts!CdLabel = "Fully Paid"
        BY <2>1, <3>3, <3>4 DEF Payouts!CdLabel
      <4>. QED
        BY <3>3, <3>4, <4>1
    <3>5. CASE ~(Payouts!Deducted >= account.owed)
      <4>1. Payouts!CdLabel # "Fully Paid"
        BY <2>1, <3>3, <3>5 DEF Payouts!CdLabel
      <4>. QED
        BY <3>3, <3>5, <4>1
    <3>. QED
      BY <3>4, <3>5
  <2>. QED
    BY <2>1, <2>2
<1>. QED
  BY <1>1, <1>2, <1>3, PTL DEF Spec
=============================================================================
