------------------------------- MODULE Support -------------------------------
(***************************************************************************)
(* The support chatroom: a ticket, the replies of its member and of the    *)
(* staff, and the stamps of the messages.  Every statement of              *)
(* a handler commits on its own (only the creation is a transaction), so   *)
(* the handlers of the two sides interleave between their statements, and  *)
(* a handler may die between two of them.                                  *)
(*                                                                         *)
(* One ticket is modelled: nothing a handler does reaches a second one.    *)
(***************************************************************************)
EXTENDS Naturals

CONSTANTS Replies,      \* identifiers of the messages that may be written
          Desks,        \* requests that may be in flight at once
          MaxFaults     \* bound on failed statements and restarts

Sides == {"member", "admin"}
Other(s) == IF s = "member" THEN "admin" ELSE "member"
Statuses == {"open", "in_review", "resolved", "closed"}

VARIABLES
    ticket,     \* the row of support_ticketstab: status, unread, last
    replies,    \* the rows of support_ticket_repliestab, by identifier
    desk,       \* the requests in flight
    faults      \* failures so far

vars == <<ticket, replies, desk, faults>>

NoTicket == [status |-> "none", unread |-> [s \in Sides |-> FALSE], last |-> "none"]
NoReply  == [author |-> "none", files |-> FALSE, url |-> FALSE, rows |-> FALSE,
             delivered |-> FALSE, read |-> FALSE]
Idle     == [step |-> "idle"]

Init ==
    /\ ticket = NoTicket
    /\ replies = [r \in Replies |-> NoReply]
    /\ desk = [d \in Desks |-> Idle]
    /\ faults = 0

-----------------------------------------------------------------------------
(* What a page shows of a message. *)

\* The attachment rows of the message, else the single one its row carries.
FilesShown(row) ==
    CASE row.rows -> "all"
      [] ~row.rows /\ row.url -> "first"
      [] OTHER -> "none"

-----------------------------------------------------------------------------
(* The operations of both sides. *)

Fresh == {r \in Replies : replies[r] = NoReply /\ \A d \in Desks :
                              desk[d].step = "idle" \/ desk[d].reply # r}

\* POST /ticket: the ticket and its first message in one transaction.  The
\* admins' badge is set; nothing is pushed.
Create(r, files) ==
    /\ ticket = NoTicket /\ r \in Fresh
    /\ ticket' = [status |-> "open",
                  unread |-> [s \in Sides |-> s = "admin"],
                  last   |-> "member"]
    /\ replies' = [replies EXCEPT ![r] =
                     [NoReply EXCEPT !.author = "member", !.files = files, !.url = files]]
    /\ UNCHANGED <<desk, faults>>

\* POST .../reply, both sides: the ticket's status is read and kept.
StartReply(d, s, r, files) ==
    /\ desk[d] = Idle /\ r \in Fresh
    /\ ticket # NoTicket /\ ticket.status # "closed"
    /\ desk' = [desk EXCEPT ![d] = [step |-> "insert", side |-> s, reply |-> r,
                                    files |-> files, status |-> ticket.status]]
    /\ UNCHANGED <<ticket, replies, faults>>

\* The row is stored with its first attachment's URL.
InsertReply(d) ==
    /\ desk[d].step = "insert"
    /\ LET q == desk[d]
       IN /\ replies' = [replies EXCEPT ![q.reply] =
                 [NoReply EXCEPT !.author = q.side, !.files = q.files, !.url = q.files]]
          /\ desk' = [desk EXCEPT ![d].step = IF q.files THEN "attach" ELSE "touch"]
    /\ UNCHANGED <<ticket, faults>>

\* insertAttachments: all the rows in one statement.
InsertAttachments(d) ==
    /\ desk[d].step = "attach"
    /\ replies' = [replies EXCEPT ![desk[d].reply].rows = TRUE]
    /\ desk' = [desk EXCEPT ![d].step = "touch"]
    /\ UNCHANGED <<ticket, faults>>

\* A member's reply reopens a resolved ticket, the staff's takes an open one
\* in review; any other status is written back as it was read.
NextStatus(side, status) ==
    CASE side = "member" /\ status = "resolved" -> "open"
      [] side = "admin"  /\ status = "open"     -> "in_review"
      [] OTHER -> status

\* The variant that leaves the author's own badge alone.
BugTouched(q) ==
    [status |-> NextStatus(q.side, q.status),
     unread |-> [ticket.unread EXCEPT ![Other(q.side)] = TRUE],
     last   |-> q.side]

\* The ticket's row after a reply: the other side's badge is set, the
\* author's own is cleared, and the reply is the last one.
Touched(q) ==
    [status |-> NextStatus(q.side, q.status),
     unread |-> [s \in Sides |-> s = Other(q.side)],
     last   |-> q.side]

TouchTicket(d) ==
    /\ desk[d].step = "touch"
    /\ ticket' = Touched(desk[d])
    /\ desk' = [desk EXCEPT ![d].step = "push"]
    /\ UNCHANGED <<replies, faults>>

\* The message is written to every open stream of the other side.  Streams
\* open and close at any time (one whose client is gone still counts until
\* its 'close' event), so there is one or there is none.
Push(d, delivered) ==
    /\ desk[d].step = "push"
    /\ desk' = [desk EXCEPT ![d] = IF delivered THEN [@ EXCEPT !.step = "stamp"] ELSE Idle]
    /\ UNCHANGED <<ticket, replies, faults>>

StampDelivered(d) ==
    /\ desk[d].step = "stamp"
    /\ replies' = [replies EXCEPT ![desk[d].reply].delivered = TRUE]
    /\ desk' = [desk EXCEPT ![d] = Idle]
    /\ UNCHANGED <<ticket, faults>>

\* GET of a thread, both sides: the messages are read first ...
OpenThread(d, s) ==
    /\ desk[d] = Idle /\ ticket # NoTicket
    /\ desk' = [desk EXCEPT ![d] = [step |-> "mark", side |-> s, reply |-> "none"]]
    /\ UNCHANGED <<ticket, replies, faults>>

\* ... then every message of the other side is marked, whether the page
\* holds it or not ...
MarkRead(d) ==
    /\ desk[d].step = "mark"
    /\ replies' = [r \in Replies |->
                     [replies[r] EXCEPT !.read = @ \/ replies[r].author = Other(desk[d].side)]]
    /\ desk' = [desk EXCEPT ![d].step = "clear"]
    /\ UNCHANGED <<ticket, faults>>

\* ... and the badge is cleared.
ClearUnread(d) ==
    /\ desk[d].step = "clear"
    /\ ticket' = [ticket EXCEPT !.unread[desk[d].side] = FALSE]
    /\ desk' = [desk EXCEPT ![d] = Idle]
    /\ UNCHANGED <<replies, faults>>

\* PUT .../status by an admin: one statement, from any status to any.
SetStatus(st) ==
    /\ ticket # NoTicket /\ ticket.status # st
    /\ ticket' = [ticket EXCEPT !.status = st]
    /\ UNCHANGED <<replies, desk, faults>>

\* A statement fails: the handler answers 500 and undoes nothing.
Fail(d) ==
    /\ desk[d] # Idle /\ faults < MaxFaults
    /\ desk' = [desk EXCEPT ![d] = Idle]
    /\ faults' = faults + 1
    /\ UNCHANGED <<ticket, replies>>

\* The process restarts: the requests are gone, the rows stay.
Restart ==
    /\ faults < MaxFaults
    /\ desk' = [d \in Desks |-> Idle]
    /\ faults' = faults + 1
    /\ UNCHANGED <<ticket, replies>>

Next ==
    \/ \E r \in Replies, f \in BOOLEAN : Create(r, f)
    \/ \E d \in Desks, s \in Sides, r \in Replies, f \in BOOLEAN : StartReply(d, s, r, f)
    \/ \E d \in Desks : \/ InsertReply(d) \/ InsertAttachments(d) \/ TouchTicket(d)
                        \/ (\E delivered \in BOOLEAN : Push(d, delivered)) \/ StampDelivered(d)
                        \/ MarkRead(d) \/ ClearUnread(d) \/ Fail(d)
    \/ \E d \in Desks, s \in Sides : OpenThread(d, s)
    \/ \E st \in Statuses : SetStatus(st)
    \/ Restart

Spec == Init /\ [][Next]_vars

-----------------------------------------------------------------------------
(* What the two sides see is right although a reply is up to four          *)
(* statements of their own, which interleave with the other side's and     *)
(* which a restart may cut short.  A badge is only up on the side that did *)
(* not write last, so the two are never both told that the other one waits *)
(* (routes/support.js:352, routes/admin/support.js:307); and a message     *)
(* sent with attachments shows at least its first (routes/support.js:285). *)
ThreadTells ==
    /\ \A s \in Sides : ticket.unread[s] => ticket.last = Other(s)
    /\ \A r \in Replies : replies[r].files => FilesShown(replies[r]) # "none"

=============================================================================
