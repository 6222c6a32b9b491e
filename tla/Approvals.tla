----------------------------- MODULE Approvals -----------------------------
(* Manual mode's approval tickets: internal/approval/toolgate_store.go (one  *)
(* file per ticket, under one mutex), the gate that opens and reads them     *)
(* (manualgate.go), ApprovalCoordinator.Decide, run by HTTP handlers and by  *)
(* the timeout sweep (decider.go, timeout.go). Decide reads the task, writes *)
(* the ticket, lists the task's tickets and moves the task in four separate  *)
(* steps, so two deciders, and a decider and the task's own run, interleave. *)
EXTENDS Scheduler, FiniteSets

CONSTANTS
  Calls,          \* the sensitive tool calls one model response asks for
  MaxResponses,   \* bound: how many responses the model gives in all
  IdsAreFresh,    \* whether call ids differ from one response to the next
  Humans,         \* threads serving POST /v1/tasks/{id}/approvals/{ticket}
  Sweeper,        \* the background thread, as a decider
  Faults          \* whether storage and tools may fail

Deciders == Humans \cup {Sweeper}

\* A sensitive call of a task: the response that asked for it and which call.
Requests == Tasks \X (1 .. MaxResponses) \X Calls

\* TicketID(taskID, callID). A provider promises ids that are unique within
\* one response only; when it sends none the function's name stands for it.
Tickets == Tasks \X (0 .. MaxResponses) \X Calls
TicketID(q) == IF IdsAreFresh THEN q ELSE <<q[1], 0, q[3]>>

Verdicts == {"approved", "denied"}

VARIABLES
  tickets,   \* the ticket files: "none" until opened
  shown,     \* the request a ticket's human is shown (its arguments), or NoTicket
  overdue,   \* pending tickets older than the approval TTL
  dec,       \* what each decider's call of Decide has got to
  todo       \* tickets the sweep has listed and not yet looked at

approvalVars == <<tickets, shown, overdue, dec, todo>>

NoTicket == <<>>
NotDeciding == [pc |-> "idle", ticket |-> NoTicket, seen |-> "absent"]

TicketsOf(t) == {k \in Tickets : k[1] = t /\ tickets[k] # "none"}
AllDecided(t) == \A k \in TicketsOf(t) : tickets[k] \in Verdicts
Decided(q) == tickets[TicketID(q)] \in Verdicts
Approved(q) == tickets[TicketID(q)] = "approved"

ApprovalsInit ==
  /\ tickets = [k \in Tickets |-> "none"]
  /\ shown = [k \in Tickets |-> NoTicket]
  /\ overdue = {}
  /\ dec = [d \in Deciders |-> NotDeciding]
  /\ todo = {}

-----------------------------------------------------------------------------
\* ToolGateStore.Open: a ticket that exists is returned as it is.
OpenTicket(q) ==
  LET k == TicketID(q) IN
  /\ tickets' = [tickets EXCEPT ![k] = IF @ = "none" THEN "pending" ELSE @]
  /\ shown' = [shown EXCEPT ![k] = IF @ = NoTicket THEN q ELSE @]
  /\ UNCHANGED <<overdue, dec, todo>>

\* Time passes: the ticket becomes older than the TTL.
TicketExpires(k) ==
  /\ tickets[k] = "pending"
  /\ k \notin overdue
  /\ overdue' = overdue \cup {k}
  /\ UNCHANGED <<schedulerVars, tickets, shown, dec, todo>>

\* Decide, first read: the task, with the status it has now. A task the
\* scheduler does not know is refused.
Look(d, k) ==
  /\ dec[d].pc = "idle"
  /\ status[k[1]] # "absent"
  /\ dec' = [dec EXCEPT ![d] = [pc |-> "record", ticket |-> k, seen |-> status[k[1]]]]
  /\ UNCHANGED <<schedulerVars, tickets, shown, overdue>>

\* A human answers a ticket that is pending (one already decided is refused
\* by Record without effect).
HumanLook(d, k) ==
  /\ d \in Humans
  /\ tickets[k] = "pending"
  /\ Look(d, k)
  /\ UNCHANGED todo

Finished(d) == dec' = [dec EXCEPT ![d] = NotDeciding]
Proceed(d, pc) == dec' = [dec EXCEPT ![d].pc = pc]

\* ToolGateStore.Decide; ErrTicketAlreadyDecided ends the call, and is not an
\* error of the sweep.
RecordIf(d, open) ==
  LET k == dec[d].ticket IN
  /\ dec[d].pc = "record"
  /\ \/ /\ open
        /\ \E v \in IF d = Sweeper THEN {"denied"} ELSE Verdicts :
             tickets' = [tickets EXCEPT ![k] = v]
        /\ overdue' = overdue \ {k}
        /\ Proceed(d, "list")
     \/ /\ ~open
        /\ Finished(d)
        /\ UNCHANGED <<tickets, overdue>>
  /\ UNCHANGED <<schedulerVars, shown, todo>>

\* A slip of ToolGateStore.Decide: a decided ticket is decided again.
Bug_RecordOverwrites(d) == RecordIf(d, TRUE)

Record(d) == RecordIf(d, tickets[dec[d].ticket] = "pending")

\* ListForTask, and the test on the status read at the start.
ListTickets(d) ==
  /\ dec[d].pc = "list"
  /\ IF AllDecided(dec[d].ticket[1]) /\ dec[d].seen = "suspended"
     THEN Proceed(d, "flip")
     ELSE Finished(d)
  /\ UNCHANGED <<schedulerVars, tickets, shown, overdue, todo>>

\* Suspended -> Running. Losing the race to another flip is not an error; any
\* other failure is, and an error of the sweep drops what it had left to do.
Flip(d) ==
  LET t == dec[d].ticket[1] IN
  /\ dec[d].pc = "flip"
  /\ \/ /\ Transition(t, "running")
        /\ UNCHANGED todo
     \/ /\ ~MayTransition(t, "running") \/ Faults
        /\ todo' = IF d = Sweeper /\ status[t] # "running" THEN {} ELSE todo
        /\ UNCHANGED status
  /\ Finished(d)
  /\ UNCHANGED <<order, leased, tickets, shown, overdue>>

\* The ticket's file, or the task's other tickets, cannot be read or written.
DecideFails(d) ==
  /\ Faults
  /\ dec[d].pc \in {"record", "list"}
  /\ Finished(d)
  /\ todo' = IF d = Sweeper THEN {} ELSE todo
  /\ UNCHANGED <<schedulerVars, tickets, shown, overdue>>

\* A slip of the sweep: only one base directory is listed.
Bug_SweepOneBase ==
  LET home == CHOOSE t \in Tasks : TRUE IN
  todo' = {k \in Tickets : k[1] = home /\ tickets[k] = "pending"}

\* The sweep lists every pending ticket on disk, whoever its task is.
StartSweep ==
  \/ todo' = {k \in Tickets : tickets[k] = "pending"}
  \/ Faults /\ todo' = {}

\* It then passes over the young ones, denies the others through Decide, in
\* the order of their file names, and stops at the first error: here, a ticket
\* whose task is not in the table.
SweepNext ==
  /\ dec[Sweeper].pc = "idle"
  /\ \E k \in todo :
     \/ /\ k \in overdue
        /\ Look(Sweeper, k)
        /\ todo' = todo \ {k}
     \/ /\ \/ k \notin overdue /\ todo' = todo \ {k}
           \/ k \in overdue /\ status[k[1]] = "absent" /\ todo' = {}
        /\ UNCHANGED <<schedulerVars, tickets, shown, overdue, dec>>

DeciderStep(d) == Record(d) \/ ListTickets(d) \/ Flip(d) \/ DecideFails(d)

Decisions == [pc : {"idle", "record", "list", "flip"}, ticket : Tickets \cup {NoTicket},
              seen : Statuses]

ApprovalsTypeOK ==
  /\ tickets \in [Tickets -> {"none", "pending"} \cup Verdicts]
  /\ shown \in [Tickets -> Requests \cup {NoTicket}]
  /\ overdue \subseteq Tickets
  /\ dec \in [Deciders -> Decisions]
  /\ todo \subseteq Tickets
  /\ \A d \in Deciders : dec[d].pc # "idle" => dec[d].ticket \in Tickets
=============================================================================
