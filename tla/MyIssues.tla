------------------------------ MODULE MyIssues -------------------------------
(* The reporter's panel, my-issues.page.ts: the list, the ticket that is open, *)
(* the reply box and the form that raises a ticket.  A request is served once, *)
(* refused, or lost before or after it was served; answers come in any order.  *)
EXTENDS Integers, FiniteSets

CONSTANTS
    MyTickets,      \* the tickets the reporter has, or comes to have
    Texts,          \* what is typed, each text once
    Blank,
    MaxPresses,     \* bound: presses of Send, Create, the check box or a row
    MaxLosses       \* bound: requests that fail

ASSUME MyIssuesAssumption ==
    /\ Blank \notin Texts /\ Blank \notin MyTickets
    /\ MaxPresses \in Nat /\ MaxLosses \in Nat

VARIABLES
    mine, stored,           \* the server: the tickets raised; how often each text was kept
    items, current,         \* tickets, selected
    replyText, sending,     \* the reply box
    creating, draft, submitting,    \* the form
    myCalls,                \* requests in flight
    presses, losses,
    refused,                \* history: how often each text's request failed
    dropped                 \* history: texts replaced by the reporter, or typed
                            \* while the answer that clears them was awaited

boxes == <<replyText, draft>>
myVars == <<mine, stored, items, current, sending, creating, submitting, boxes,
            myCalls, presses, losses, refused, dropped>>

Call(kind, t, x, p) ==
    [kind |-> kind, ticket |-> t, text |-> x, press |-> p, served |-> FALSE, items |-> {}, open |-> FALSE]

MyInit ==
    /\ mine \in SUBSET MyTickets /\ stored = [x \in Texts |-> 0]
    /\ items = {} /\ current = Blank
    /\ replyText = Blank /\ sending = FALSE
    /\ creating = FALSE /\ draft = Blank /\ submitting = FALSE
    /\ myCalls = {Call("mine", Blank, Blank, 0)}
    /\ presses = 0 /\ losses = 0
    /\ refused = [x \in Texts |-> 0] /\ dropped = {}

Press == presses < MaxPresses /\ presses' = presses + 1

\* A request left waiting by an earlier answer is the same request.
Then(done, calls) == myCalls' = (myCalls \ {done}) \cup calls
Load == Call("mine", Blank, Blank, presses)
Open(t) == Call("ticket", t, Blank, presses)

-----------------------------------------------------------------------------
(* The reporter.                                                               *)

\* The boxes can be typed in at any time they are drawn.
TypeReply(x) ==
    /\ current # Blank /\ current.open
    /\ x \notin dropped \cup {replyText, draft} /\ stored[x] = 0
    /\ \A c \in myCalls : c.text # x
    /\ dropped' = (dropped \cup {replyText} \cup (IF sending THEN {x} ELSE {})) \ {Blank}
    /\ replyText' = x
    /\ UNCHANGED <<mine, stored, items, current, sending, creating, submitting, draft,
                   myCalls, presses, losses, refused>>

TypeDraft(x) ==
    /\ creating
    /\ x \notin dropped \cup {replyText, draft} /\ stored[x] = 0
    /\ \A c \in myCalls : c.text # x
    /\ dropped' = (dropped \cup {draft} \cup (IF submitting THEN {x} ELSE {})) \ {Blank}
    /\ draft' = x
    /\ UNCHANGED <<mine, stored, items, current, sending, creating, submitting, replyText,
                   myCalls, presses, losses, refused>>

\* The check box that reads the list again; a row of the list.
PressOpenOnly ==
    /\ Press /\ myCalls' = myCalls \cup {Load}
    /\ UNCHANGED <<mine, stored, items, current, sending, creating, submitting, boxes,
                   losses, refused, dropped>>

PressRow(t) ==
    /\ Press /\ t \in items /\ myCalls' = myCalls \cup {Open(t)}
    /\ UNCHANGED <<mine, stored, items, current, sending, creating, submitting, boxes,
                   losses, refused, dropped>>

\* Cancel keeps the draft, and what is being submitted.
ToggleCreate ==
    /\ creating' = ~creating
    /\ UNCHANGED <<mine, stored, items, current, sending, submitting, boxes,
                   myCalls, presses, losses, refused, dropped>>

\* Mutation: the button stays enabled while the reply is on its way.
SendEnabled ==
    /\ Press /\ current # Blank /\ current.open /\ replyText # Blank
    /\ sending' = TRUE
    /\ myCalls' = myCalls \cup {Call("comment", current.ticket, replyText, presses)}
    /\ UNCHANGED <<mine, stored, items, current, creating, submitting, boxes,
                   losses, refused, dropped>>

Send ==
    /\ Press /\ current # Blank /\ current.open /\ replyText # Blank /\ ~sending
    /\ sending' = TRUE
    /\ myCalls' = myCalls \cup {Call("comment", current.ticket, replyText, presses)}
    /\ UNCHANGED <<mine, stored, items, current, creating, submitting, boxes,
                   losses, refused, dropped>>

SubmitNew ==
    /\ Press /\ creating /\ draft # Blank /\ ~submitting
    /\ submitting' = TRUE
    /\ myCalls' = myCalls \cup {Call("manual", Blank, draft, presses)}
    /\ UNCHANGED <<mine, stored, items, current, sending, creating, boxes,
                   losses, refused, dropped>>

-----------------------------------------------------------------------------
(* The server.                                                                 *)

Serving(c, answer) ==
    /\ c \in myCalls /\ ~c.served /\ Then(c, {[answer EXCEPT !.served = TRUE]})
    /\ UNCHANGED <<items, current, sending, creating, submitting, boxes, presses, losses,
                   refused, dropped>>

\* Closed tickets are left out when only open ones are asked for; support
\* closes and reopens them.
ServeMyRead(c) ==
    /\ \/ c.kind = "mine" /\ \E some \in SUBSET mine : Serving(c, [c EXCEPT !.items = some])
       \/ c.kind = "ticket" /\ \E open \in BOOLEAN : Serving(c, [c EXCEPT !.open = open])
    /\ UNCHANGED <<mine, stored>>

ServeComment(c) ==
    /\ c.kind = "comment" /\ Serving(c, c)
    /\ stored' = [stored EXCEPT ![c.text] = @ + 1] /\ UNCHANGED mine

ServeManual(c) ==
    /\ c.kind = "manual"
    /\ \E t \in MyTickets \ mine : mine' = mine \cup {t} /\ Serving(c, [c EXCEPT !.ticket = t])
    /\ stored' = [stored EXCEPT ![c.text] = @ + 1]

-----------------------------------------------------------------------------
(* The answers.                                                                *)

Answer(c, kind) == c \in myCalls /\ c.served /\ c.kind = kind

\* The ticket that is open is read again; the first of the list when none is.
ListAnswered(c) ==
    /\ Answer(c, "mine") /\ items' = c.items
    /\ \/ current # Blank /\ Then(c, {Open(current.ticket)})
       \/ current = Blank /\ c.items = {} /\ Then(c, {})
       \/ current = Blank /\ \E first \in c.items : Then(c, {Open(first)})
    /\ UNCHANGED <<mine, stored, current, sending, creating, submitting, boxes,
                   presses, losses, refused, dropped>>

TicketAnswered(c) ==
    /\ Answer(c, "ticket") /\ Then(c, {})
    /\ current' = [ticket |-> c.ticket, open |-> c.open]
    /\ UNCHANGED <<mine, stored, items, sending, creating, submitting, boxes,
                   presses, losses, refused, dropped>>

\* The box is cleared, whatever it holds by now.
CommentAnswered(c) ==
    /\ Answer(c, "comment") /\ Then(c, {Load})
    /\ sending' = FALSE /\ replyText' = Blank
    /\ UNCHANGED <<mine, stored, items, current, creating, submitting, draft,
                   presses, losses, refused, dropped>>

ManualAnswered(c) ==
    /\ Answer(c, "manual") /\ Then(c, {Load, Open(c.ticket)})
    /\ submitting' = FALSE /\ creating' = FALSE /\ draft' = Blank
    /\ UNCHANGED <<mine, stored, items, current, sending, replyText,
                   presses, losses, refused, dropped>>

\* Refused, or lost before or after it was served.  A list that cannot be read
\* leaves the page alone, a ticket that cannot closes the one that is open, and
\* a post says "please try again" and keeps what was typed.
CallFailed(c) ==
    /\ c \in myCalls /\ Then(c, {}) /\ losses < MaxLosses /\ losses' = losses + 1
    /\ current' = IF c.kind = "ticket" THEN Blank ELSE current
    /\ sending' = (sending /\ c.kind # "comment")
    /\ submitting' = (submitting /\ c.kind # "manual")
    /\ refused' = [x \in Texts |-> refused[x] + IF x = c.text THEN 1 ELSE 0]
    /\ UNCHANGED <<mine, stored, items, creating, boxes, presses, dropped>>

MyNext ==
    \/ \E x \in Texts : TypeReply(x) \/ TypeDraft(x)
    \/ PressOpenOnly \/ ToggleCreate \/ Send \/ SubmitNew
    \/ \E t \in items : PressRow(t)
    \/ \E c \in myCalls :
          \/ ServeMyRead(c) \/ ServeComment(c) \/ ServeManual(c)
          \/ ListAnswered(c) \/ TicketAnswered(c)
          \/ CommentAnswered(c) \/ ManualAnswered(c) \/ CallFailed(c)

MySpec == MyInit /\ [][MyNext]_myVars

-----------------------------------------------------------------------------
(* Properties.                                                                 *)

\* The texts that are somewhere on this page or on their way.
Written == {x \in Texts : x \in {replyText, draft} \/ \E c \in myCalls : c.text = x}
Typed == Written \cup dropped \cup {x \in Texts : stored[x] + refused[x] > 0}

(* PostedOnce: a reply or a new ticket is kept once, and once more only for     *)
(* each "please try again" the reporter was shown; and what was posted is on    *)
(* the page until the server has it, unless the reporter wrote over it or typed *)
(* it while an earlier post was awaited - that answer clears the box.           *)
PostedOnce ==
    \A x \in Texts :
        /\ stored[x] <= 1 + refused[x]
        /\ x \in Typed => x \in Written \cup dropped \/ stored[x] > 0

=============================================================================
