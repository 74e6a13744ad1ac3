--------------------------- MODULE BookingProofs ---------------------------
(***************************************************************************)
(* Proofs about Booking.tla, for every set of Leads, requests and times    *)
(* and any number of overlapping commands: double bookings only by         *)
(* commands that overlapped, and confirmations only of what was held.      *)
(* Then about Scheduling.tla: with a client, a screen and a network around *)
(* it the backend is still the one of Booking.tla, and nobody is shown a   *)
(* booking the calendar never held.                                        *)
(***************************************************************************)
EXTENDS Scheduling, TLAPS

-----------------------------------------------------------------------------
(* The inductive invariant.  First the shapes.                             *)

PCs == {"list", "create", "active", "status", "event", "enqueue", "append",
        "answer", "ended"}
Outcomes == {"confirmed", "failed", "not_configured"}
Statuses == Outcomes \cup {"none", "rejected", "unavailable", "error"}
Commands == [req : Requests, pc : PCs, status : Statuses, replay : BOOLEAN,
             raced : SUBSET Nat]
LeadRows == [active : {r.id : r \in Requests} \cup {NoId},
             status : {"none", "booked", "failed", "not_configured"}, event : Nat]
Items == [req : Requests, state : {"pending", "sending", "done"}, rivals : SUBSET Nat]

TypeOK ==
    /\ leads \in [LeadIds -> LeadRows]
    /\ calendar \subseteq [by : DOMAIN cmds, slot : SUBSET Times]
    /\ work \in Seq(Items)
    /\ cmds \in Seq(Commands)
    /\ held \subseteq Requests /\ mailed \subseteq Requests

(* What a command's status says at its program counter.                    *)
Fits(pc, status, req, heldNow) ==
    /\ pc # "ended" \/ status = "confirmed" => req.leadId \in Bookable
    /\ pc \in {"list", "create"} => status = "none"
    /\ pc \in {"active", "status", "answer"} => status \in Outcomes
    /\ pc \in {"event", "enqueue", "append"} => status = "confirmed"
    /\ pc # "ended" /\ status = "confirmed" => req \in heldNow

CommandInv ==
    \A i \in DOMAIN cmds :
        /\ Fits(cmds[i].pc, cmds[i].status, cmds[i].req, held)
        /\ cmds[i].raced \subseteq DOMAIN cmds

(* A command that is running overlaps every other one that is, and every   *)
(* one that started later; and they know it of each other.                 *)
Overlap(i, j) == i \in cmds[j].raced /\ j \in cmds[i].raced

OverlapInv ==
    \A i \in Running, j \in DOMAIN cmds : i # j /\ (j \in Running \/ j > i) => Overlap(i, j)

(* Our events are of commands that are past the creation, one each, and a  *)
(* command that found its slot free has been overlapped by whoever took it *)
(* since.                                                                  *)
EventInv ==
    /\ \A e \in calendar : /\ cmds[e.by].pc \notin {"list", "create"}
                           /\ e.slot = cmds[e.by].req.slot
    /\ \A i \in DOMAIN cmds : cmds[i].pc = "create" =>
          \A e \in calendar : e.slot \cap cmds[i].req.slot # {} => Overlap(i, e.by)

(* Confirmations are enqueued, and mailed, of held requests alone.         *)
WorkInv ==
    /\ \A j \in DOMAIN work : work[j].req \in held
    /\ mailed \subseteq held

(* What the cells of an unraced Lead say while its command is at work.     *)
Cells(pc, status, req, row) ==
    /\ pc \in {"list", "create", "active"} => row.status # "booked"
    /\ pc = "status" => row.active = req.id /\ row.status # "booked"
    /\ pc \in {"event", "enqueue", "append", "answer"} =>
          row.active = req.id /\ row.status = StatusCell(status)

Vouched(l, row, heldNow) ==
    row.status = "booked" => \E r \in heldNow : r.leadId = l /\ r.id = row.active

LeadInv ==
    \A l \in LeadIds : ~ LeadRaced(l) =>
        /\ Vouched(l, leads[l], held)
        /\ \A i \in Running : cmds[i].req.leadId = l =>
              Cells(cmds[i].pc, cmds[i].status, cmds[i].req, leads[l])
        /\ \A i \in DOMAIN cmds : cmds[i].req.leadId = l /\ Answered(i, "confirmed") =>
              /\ leads[l].status = "booked" /\ leads[l].active = cmds[i].req.id
              /\ \A j \in Running : cmds[j].req.leadId # l

IInv == /\ TypeOK
        /\ CommandInv
        /\ OverlapInv
        /\ EventInv
        /\ WorkInv
        /\ LeadInv
        /\ NoDoubleBooking
        /\ ConfirmedForGood

-----------------------------------------------------------------------------
(* What is known of one command, one Lead.                                 *)

LEMMA CommandFacts ==
    ASSUME IInv, NEW i \in DOMAIN cmds
    PROVE  /\ cmds[i] \in Commands /\ i \in Nat
           /\ cmds[i].req \in Requests /\ cmds[i].pc \in PCs
           /\ cmds[i].status \in Statuses
           /\ Fits(cmds[i].pc, cmds[i].status, cmds[i].req, held)
           /\ cmds[i].raced \subseteq DOMAIN cmds
  <1>1. cmds[i] \in Commands /\ i \in Nat
    BY DEF IInv, TypeOK
  <1>2. /\ Fits(cmds[i].pc, cmds[i].status, cmds[i].req, held)
        /\ cmds[i].raced \subseteq DOMAIN cmds
    BY DEF IInv, CommandInv
  <1>3. QED
    BY <1>1, <1>2 DEF Commands

LEMMA BookableLead ==
    ASSUME IInv, NEW l \in Bookable
    PROVE  /\ l \in LeadIds /\ leads[l] \in LeadRows
           /\ leads = [leads EXCEPT ![l] = leads[l]]
  BY BookingAssumption DEF IInv, TypeOK

LEMMA RunningFacts ==
    ASSUME IInv, NEW i \in Running
    PROVE  /\ i \in DOMAIN cmds /\ cmds[i].pc # "ended"
           /\ cmds[i].req.leadId \in Bookable
           /\ cmds[i].req.leadId \in LeadIds /\ leads[cmds[i].req.leadId] \in LeadRows
           /\ leads = [leads EXCEPT ![cmds[i].req.leadId] = leads[cmds[i].req.leadId]]
  BY CommandFacts, BookableLead DEF Running, Fits

-----------------------------------------------------------------------------
(* One command moves to another program counter; the others stay put.      *)

Moves(i, pc, status) ==
    /\ cmds' \in Seq(Commands) /\ DOMAIN cmds' = DOMAIN cmds
    /\ \A j \in DOMAIN cmds : j # i => cmds'[j] = cmds[j]
    /\ cmds'[i].req = cmds[i].req /\ cmds'[i].raced = cmds[i].raced
    /\ cmds'[i].pc = pc /\ cmds'[i].status = status

LEMMA ReplaceMoves ==
    ASSUME IInv, NEW i \in DOMAIN cmds, NEW c \in Commands,
           c.req = cmds[i].req, c.raced = cmds[i].raced,
           cmds' = [cmds EXCEPT ![i] = c]
    PROVE  Moves(i, c.pc, c.status)
  BY DEF IInv, TypeOK, Moves

LEMMA EndMoves ==
    ASSUME IInv, NEW i \in DOMAIN cmds, NEW status \in Statuses, End(i, status)
    PROVE  Moves(i, "ended", status)
  <1> DEFINE c == [cmds[i] EXCEPT !.pc = "ended", !.status = status]
  <1>1. /\ c \in Commands /\ c.req = cmds[i].req /\ c.raced = cmds[i].raced
        /\ c.pc = "ended" /\ c.status = status
    BY CommandFacts DEF Commands, PCs
  <1>2. cmds' = [cmds EXCEPT ![i] = c]
    BY DEF End
  <1> HIDE DEF c
  <1>3. Moves(i, c.pc, c.status)
    BY <1>1, <1>2, ReplaceMoves
  <1>4. QED
    BY <1>1, <1>3

LEMMA GotoMoves ==
    ASSUME IInv, NEW i \in DOMAIN cmds, NEW pc \in PCs, Goto(i, pc)
    PROVE  Moves(i, pc, cmds[i].status)
  <1> DEFINE c == [cmds[i] EXCEPT !.pc = pc]
  <1>1. /\ c \in Commands /\ c.req = cmds[i].req /\ c.raced = cmds[i].raced
        /\ c.pc = pc /\ c.status = cmds[i].status
    BY CommandFacts DEF Commands
  <1>2. cmds' = [cmds EXCEPT ![i] = c]
    BY DEF Goto
  <1> HIDE DEF c
  <1>3. Moves(i, c.pc, c.status)
    BY <1>1, <1>2, ReplaceMoves
  <1>4. QED
    BY <1>1, <1>3

(* A move starts no command, so it makes nothing overlap that did not.     *)
LEMMA MoveRaces ==
    ASSUME IInv, NEW i \in Running, NEW pc, NEW status, Moves(i, pc, status)
    PROVE  /\ \A l : LeadRaced(l)' <=> LeadRaced(l)
           /\ \A j, k \in DOMAIN cmds : Overlap(j, k)' <=> Overlap(j, k)
           /\ \A j \in DOMAIN cmds :
                 /\ cmds'[j].req = cmds[j].req /\ cmds'[j].raced = cmds[j].raced
                 /\ j # i => (j \in Running' <=> j \in Running)
           /\ i \in Running' <=> pc # "ended"
           /\ Running' \subseteq Running
           /\ OverlapInv'
  <1>1. i \in DOMAIN cmds /\ DOMAIN cmds' = DOMAIN cmds
    BY DEF Running, Moves
  <1>2. \A j \in DOMAIN cmds :
            /\ cmds'[j].req = cmds[j].req /\ cmds'[j].raced = cmds[j].raced
            /\ j # i => cmds'[j].pc = cmds[j].pc
    BY DEF Moves
  <1>3. \A j \in DOMAIN cmds : cmds[j].raced \subseteq DOMAIN cmds
    BY CommandFacts
  <1>4. \A l : LeadRaced(l)' <=> LeadRaced(l)
    BY <1>1, <1>2, <1>3 DEF LeadRaced
  <1>5. \A j, k \in DOMAIN cmds : Overlap(j, k)' <=> Overlap(j, k)
    BY <1>2 DEF Overlap
  <1>6. /\ \A j \in DOMAIN cmds : j # i => (j \in Running' <=> j \in Running)
        /\ i \in Running' <=> pc # "ended"
        /\ Running' \subseteq Running
    BY <1>1, <1>2 DEF Running, Moves
  <1>7. OverlapInv'
    BY <1>1, <1>5, <1>6 DEF IInv, OverlapInv, Running
  <1>8. QED
    BY <1>2, <1>4, <1>5, <1>6, <1>7

LEMMA MoveCommands ==
    ASSUME IInv, NEW i \in Running, NEW pc, NEW status, Moves(i, pc, status),
           held \subseteq held', Fits(pc, status, cmds[i].req, held')
    PROVE  CommandInv'
  <1> SUFFICES ASSUME NEW j \in DOMAIN cmds
               PROVE  /\ Fits(cmds'[j].pc, cmds'[j].status, cmds'[j].req, held')
                      /\ cmds'[j].raced \subseteq DOMAIN cmds
    BY DEF CommandInv, Moves
  <1>1. CASE j = i
    BY <1>1, CommandFacts DEF Moves
  <1>2. CASE j # i
    BY <1>2, CommandFacts DEF Moves, Fits
  <1>3. QED
    BY <1>1, <1>2

(* While an unraced Lead has a running command it has no other, none of    *)
(* its commands started later, and none of them has been confirmed.        *)
LEMMA OnlyRunner ==
    ASSUME IInv, NEW i \in Running, ~ LeadRaced(cmds[i].req.leadId)
    PROVE  /\ \A j \in Running : j # i => cmds[j].req.leadId # cmds[i].req.leadId
           /\ \A j \in DOMAIN cmds : j > i => cmds[j].req.leadId # cmds[i].req.leadId
           /\ \A j \in DOMAIN cmds :
                 cmds[j].req.leadId = cmds[i].req.leadId => ~ Answered(j, "confirmed")
  <1>1. \A j \in DOMAIN cmds : Overlap(i, j) => cmds[j].req.leadId # cmds[i].req.leadId
    BY DEF LeadRaced, Overlap, Running
  <1>2. \A j \in Running : j \in DOMAIN cmds
    BY DEF Running
  <1>3. \A j \in DOMAIN cmds : j > i => j # i
    BY <1>2, CommandFacts
  <1>4. QED
    BY <1>1, <1>2, <1>3, RunningFacts DEF IInv, OverlapInv, LeadInv

(* A move that writes the cells of its own Lead, if any: what is to be     *)
(* shown of the new cells, and only while nothing has overlapped there.    *)
LEMMA MoveLead ==
    ASSUME IInv, NEW i \in Running, NEW pc, NEW status, NEW row, Moves(i, pc, status),
           leads' = [leads EXCEPT ![cmds[i].req.leadId] = row],
           held \subseteq held',
           ~ LeadRaced(cmds[i].req.leadId) =>
              /\ Vouched(cmds[i].req.leadId, row, held')
              /\ pc # "ended" => Cells(pc, status, cmds[i].req, row)
              /\ pc = "ended" /\ status = "confirmed" =>
                    row.status = "booked" /\ row.active = cmds[i].req.id
    PROVE  LeadInv' /\ ConfirmedForGood'
  <1> DEFINE lead == cmds[i].req.leadId
  <1>1. i \in DOMAIN cmds /\ DOMAIN cmds' = DOMAIN cmds /\ cmds[i].pc # "ended"
    BY DEF Running, Moves
  <1>2. /\ \A l : LeadRaced(l)' <=> LeadRaced(l)
        /\ \A j \in DOMAIN cmds :
              /\ cmds'[j].req = cmds[j].req
              /\ j # i => (j \in Running' <=> j \in Running)
        /\ i \in Running' <=> pc # "ended"
        /\ Running' \subseteq Running
    BY MoveRaces
  <1>3. /\ \A j \in DOMAIN cmds : j # i => cmds'[j] = cmds[j]
        /\ cmds'[i].pc = pc /\ cmds'[i].status = status
    BY DEF Moves
  <1>4. /\ leads'[lead] = row
        /\ \A l \in LeadIds : l # lead => leads'[l] = leads[l]
    BY RunningFacts DEF IInv, TypeOK
  <1>5. \A j \in Running : j \in DOMAIN cmds
    BY DEF Running
  <1>6. LeadInv'
    <2> SUFFICES ASSUME NEW l \in LeadIds, ~ LeadRaced(l)
                 PROVE  /\ Vouched(l, leads'[l], held')
                        /\ \A j \in Running' : cmds'[j].req.leadId = l =>
                              Cells(cmds'[j].pc, cmds'[j].status, cmds'[j].req, leads'[l])
                        /\ \A j \in DOMAIN cmds :
                              cmds'[j].req.leadId = l /\ Answered(j, "confirmed")' =>
                                 /\ leads'[l].status = "booked"
                                 /\ leads'[l].active = cmds'[j].req.id
                                 /\ \A k \in Running' : cmds'[k].req.leadId # l
      BY <1>1, <1>2 DEF LeadInv
    <2>1. CASE l # lead
      <3>1. /\ Vouched(l, leads[l], held)
            /\ \A j \in Running : cmds[j].req.leadId = l =>
                  Cells(cmds[j].pc, cmds[j].status, cmds[j].req, leads[l])
            /\ \A j \in DOMAIN cmds :
                  cmds[j].req.leadId = l /\ Answered(j, "confirmed") =>
                     /\ leads[l].status = "booked" /\ leads[l].active = cmds[j].req.id
                     /\ \A k \in Running : cmds[k].req.leadId # l
        BY DEF IInv, LeadInv
      <3>2. leads'[l] = leads[l]
        BY <1>4, <2>1
      <3>3. Vouched(l, leads'[l], held')
        BY <3>1, <3>2 DEF Vouched
      <3>4. \A j \in DOMAIN cmds : cmds'[j].req.leadId = l => cmds'[j] = cmds[j]
        BY <1>1, <1>2, <1>3, <2>1
      <3>5. \A j \in DOMAIN cmds :
                cmds'[j].req.leadId = l /\ Answered(j, "confirmed")' =>
                   cmds[j].req.leadId = l /\ Answered(j, "confirmed")
        BY <3>4 DEF Answered, At
      <3>6. \A j \in Running' : j \in Running /\ j \in DOMAIN cmds
        BY <1>2, <1>5
      <3>7. \A j \in Running' : cmds'[j].req.leadId = l =>
                Cells(cmds'[j].pc, cmds'[j].status, cmds'[j].req, leads'[l])
        BY <3>1, <3>2, <3>4, <3>6
      <3>8. \A k \in Running' : cmds[k].req.leadId # l => cmds'[k].req.leadId # l
        BY <1>2, <3>6
      <3>9. QED
        BY <3>1, <3>2, <3>3, <3>4, <3>5, <3>6, <3>7, <3>8
    <2>2. CASE l = lead
      <3>1. /\ \A j \in Running : j # i => cmds[j].req.leadId # l
            /\ \A j \in DOMAIN cmds : cmds[j].req.leadId = l => ~ Answered(j, "confirmed")
        BY <2>2, OnlyRunner
      <3>2. \A j \in Running' : cmds'[j].req.leadId = l => j = i
        BY <1>2, <1>5, <3>1
      <3>3. \A j \in DOMAIN cmds :
                cmds'[j].req.leadId = l /\ Answered(j, "confirmed")' => j = i
        BY <1>2, <1>3, <3>1 DEF Answered, At
      <3>4. Answered(i, "confirmed")' => pc = "ended" /\ status = "confirmed"
        BY <1>3 DEF Answered, At
      <3>5. /\ Vouched(l, row, held')
            /\ pc # "ended" => Cells(pc, status, cmds[i].req, row)
            /\ pc = "ended" /\ status = "confirmed" =>
                  row.status = "booked" /\ row.active = cmds[i].req.id
        BY <2>2
      <3>6. \A k \in Running' : pc = "ended" => cmds'[k].req.leadId # l
        BY <1>2, <3>2
      <3>7. QED
        BY <1>1, <1>2, <1>3, <1>4, <2>2, <3>2, <3>3, <3>4, <3>5, <3>6
    <2>3. QED
      BY <2>1, <2>2
  <1>7. ConfirmedForGood'
    <2> SUFFICES ASSUME NEW j \in DOMAIN cmds, NEW k \in DOMAIN cmds,
                        j < k, cmds[j].req.leadId = cmds[k].req.leadId,
                        ~ LeadRaced(cmds[j].req.leadId),
                        Answered(j, "confirmed")', At(k, "ended")'
                 PROVE  cmds'[k].status \in IF cmds[j].req = cmds[k].req
                                            THEN {"confirmed", "error"}
                                            ELSE {"rejected", "error"}
      BY <1>1, <1>2 DEF ConfirmedForGood
    <2>1. j # i
      <3>1. j = i => ~ LeadRaced(lead) /\ k > i /\ cmds[k].req.leadId = lead
        BY CommandFacts
      <3>2. QED
        BY <3>1, OnlyRunner
    <2>2. Answered(j, "confirmed")
      BY <1>3, <2>1 DEF Answered, At
    <2>3. k # i
      BY <2>2, OnlyRunner
    <2>4. cmds'[k] = cmds[k] /\ At(k, "ended")
      BY <1>3, <2>3 DEF At
    <2>5. QED
      BY <2>2, <2>4 DEF IInv, ConfirmedForGood
  <1>8. QED
    BY <1>6, <1>7

(* A move that leaves the calendar alone, and does not list it again.      *)
LEMMA MoveEvents ==
    ASSUME IInv, NEW i \in Running, NEW pc, NEW status, Moves(i, pc, status),
           calendar' = calendar,
           pc # "list" /\ (pc = "create" => At(i, "list") /\ ~ Busy(cmds[i].req.slot))
    PROVE  EventInv' /\ NoDoubleBooking'
  <1>1. i \in DOMAIN cmds /\ DOMAIN cmds' = DOMAIN cmds
    BY DEF Running, Moves
  <1>2. \A j \in DOMAIN cmds :
            cmds'[j].req = cmds[j].req /\ cmds'[j].raced = cmds[j].raced
    BY MoveRaces
  <1>3. \A e \in calendar : e.by \in DOMAIN cmds
    BY DEF IInv, TypeOK
  <1>4. \A j, k \in DOMAIN cmds : Overlap(j, k)' <=> Overlap(j, k)
    BY MoveRaces
  <1>5. ASSUME NEW e \in calendar
        PROVE  cmds'[e.by].pc \notin {"list", "create"} /\ e.slot = cmds'[e.by].req.slot
    <2>1. cmds[e.by].pc \notin {"list", "create"} /\ e.slot = cmds[e.by].req.slot
      BY DEF IInv, EventInv
    <2>2. CASE e.by = i
      <3>1. cmds'[i].pc = pc /\ ~ At(i, "list")
        BY <2>1, <2>2 DEF Moves, At
      <3>2. QED
        BY <1>2, <1>3, <2>1, <2>2, <3>1
    <2>3. CASE e.by # i
      BY <1>2, <1>3, <2>1, <2>3 DEF Moves
    <2>4. QED
      BY <2>2, <2>3
  <1>6. ASSUME NEW j \in DOMAIN cmds, cmds'[j].pc = "create", NEW e \in calendar,
               e.slot \cap cmds'[j].req.slot # {}
        PROVE  Overlap(j, e.by)'
    <2>1. CASE j = i
      BY <1>2, <1>6, <2>1 DEF Busy, Moves
    <2>2. CASE j # i
      <3>1. cmds[j].pc = "create" /\ cmds'[j].req = cmds[j].req
        BY <1>2, <1>6, <2>2 DEF Moves
      <3>2. Overlap(j, e.by)
        BY <1>6, <3>1 DEF IInv, EventInv
      <3>3. QED
        BY <1>3, <1>4, <3>2
    <2>3. QED
      BY <2>1, <2>2
  <1>7. EventInv'
    BY <1>1, <1>5, <1>6 DEF EventInv
  <1>8. NoDoubleBooking'
    BY <1>2, <1>3 DEF IInv, NoDoubleBooking
  <1>9. QED
    BY <1>7, <1>8

(* Every move of a command but the one that creates an event.              *)
LEMMA MoveStep ==
    ASSUME IInv, NEW i \in Running, NEW pc \in PCs, NEW status \in Statuses,
           NEW row \in LeadRows, Moves(i, pc, status),
           leads' = [leads EXCEPT ![cmds[i].req.leadId] = row],
           UNCHANGED <<calendar, held, mailed>>,
           work' \in Seq(Items), \A j \in DOMAIN work' : work'[j].req \in held,
           Fits(pc, status, cmds[i].req, held),
           pc # "list" /\ (pc = "create" => At(i, "list") /\ ~ Busy(cmds[i].req.slot)),
           ~ LeadRaced(cmds[i].req.leadId) =>
              /\ Vouched(cmds[i].req.leadId, row, held)
              /\ pc # "ended" => Cells(pc, status, cmds[i].req, row)
              /\ pc = "ended" /\ status = "confirmed" =>
                    row.status = "booked" /\ row.active = cmds[i].req.id
    PROVE  IInv'
  <1>1. TypeOK'
    BY DEF IInv, TypeOK, Moves, Items
  <1>2. CommandInv'
    BY MoveCommands
  <1>3. OverlapInv'
    BY MoveRaces
  <1>4. EventInv' /\ NoDoubleBooking'
    BY MoveEvents
  <1>5. WorkInv'
    BY DEF IInv, WorkInv
  <1>6. LeadInv' /\ ConfirmedForGood'
    BY MoveLead
  <1>7. QED
    BY <1>1, <1>2, <1>3, <1>4, <1>5, <1>6 DEF IInv

(* What the running command of an unraced Lead finds in its cells.         *)
LEMMA CellsNow ==
    ASSUME IInv, NEW i \in Running
    PROVE  /\ ~ LeadRaced(cmds[i].req.leadId) =>
                 /\ Vouched(cmds[i].req.leadId, leads[cmds[i].req.leadId], held)
                 /\ Cells(cmds[i].pc, cmds[i].status, cmds[i].req,
                          leads[cmds[i].req.leadId])
           /\ Fits(cmds[i].pc, cmds[i].status, cmds[i].req, held)
           /\ work \in Seq(Items) /\ \A j \in DOMAIN work : work[j].req \in held
  BY RunningFacts, CommandFacts DEF IInv, LeadInv, TypeOK, Items, WorkInv

-----------------------------------------------------------------------------
(* The moves of a running command, one by one.                             *)

LEMMA AtRuns ==
    ASSUME NEW i \in DOMAIN cmds, NEW pc, At(i, pc), pc # "ended"
    PROVE  i \in Running
  BY DEF At, Running

(* An end that is not a confirmation has nothing to show.                  *)
LEMMA EndStep ==
    ASSUME IInv, NEW i \in Running, NEW status \in Statuses, status # "confirmed",
           End(i, status), UNCHANGED <<leads, calendar, work, held, mailed>>
    PROVE  IInv'
  <1> DEFINE lead == cmds[i].req.leadId
  <1>1. i \in DOMAIN cmds /\ leads[lead] \in LeadRows
        /\ leads' = [leads EXCEPT ![lead] = leads[lead]]
    BY RunningFacts
  <1>2. Moves(i, "ended", status)
    BY <1>1, EndMoves
  <1>3. Fits("ended", status, cmds[i].req, held)
    BY DEF Fits
  <1>4. "ended" \in PCs
    BY DEF PCs
  <1>5. QED
    BY <1>1, <1>2, <1>3, <1>4, CellsNow, MoveStep

LEMMA ListFreeStep ==
    ASSUME IInv, NEW i \in DOMAIN cmds, ListFree(i)
    PROVE  IInv'
  <1> DEFINE lead == cmds[i].req.leadId
  <1>1. /\ cmds[i].pc = "list" /\ ~ Busy(cmds[i].req.slot) /\ Goto(i, "create")
        /\ UNCHANGED <<leads, calendar, work, held, mailed>>
    BY DEF ListFree, At
  <1>2. i \in Running
    BY <1>1 DEF Running
  <1>3. leads[lead] \in LeadRows /\ leads' = [leads EXCEPT ![lead] = leads[lead]]
    BY <1>1, <1>2, RunningFacts
  <1>4. "create" \in PCs /\ cmds[i].status \in Statuses
    BY CommandFacts DEF PCs
  <1>5. Moves(i, "create", cmds[i].status)
    BY <1>1, <1>4, GotoMoves
  <1>6. Fits("create", cmds[i].status, cmds[i].req, held)
    BY <1>1, <1>2, CellsNow DEF Fits
  <1>7. ~ LeadRaced(lead) =>
            /\ Vouched(lead, leads[lead], held)
            /\ Cells("create", cmds[i].status, cmds[i].req, leads[lead])
    BY <1>1, <1>2, CellsNow DEF Cells
  <1>8. QED
    BY <1>1, <1>2, <1>3, <1>4, <1>5, <1>6, <1>7, CellsNow, MoveStep DEF At

(* A cell is written: the next cells follow from the cells read.           *)
LEMMA SetActiveStep ==
    ASSUME IInv, NEW i \in DOMAIN cmds, SetActive(i)
    PROVE  IInv'
  <1> DEFINE lead == cmds[i].req.leadId
             row == [leads[lead] EXCEPT !.active = cmds[i].req.id]
  <1>1. /\ cmds[i].pc = "active" /\ leads' = [leads EXCEPT ![lead] = row]
        /\ Goto(i, "status")
        /\ UNCHANGED <<calendar, work, held, mailed>>
    BY DEF SetActive, SetCell, At, Row
  <1>2. i \in Running
    BY <1>1 DEF Running
  <1>3. /\ leads[lead] \in LeadRows /\ "status" \in PCs
        /\ cmds[i].status \in Statuses /\ cmds[i].req \in Requests
    BY <1>2, RunningFacts, CommandFacts DEF PCs
  <1>4. /\ row \in LeadRows /\ row.active = cmds[i].req.id
        /\ row.status = leads[lead].status
    BY <1>3 DEF LeadRows
  <1>5. Moves(i, "status", cmds[i].status)
    BY <1>1, <1>3, GotoMoves
  <1>6. Fits("status", cmds[i].status, cmds[i].req, held)
    BY <1>1, <1>2, CellsNow DEF Fits
  <1>7. ~ LeadRaced(lead) =>
            /\ Vouched(lead, row, held)
            /\ Cells("status", cmds[i].status, cmds[i].req, row)
    BY <1>1, <1>2, <1>4, CellsNow DEF Cells, Vouched
  <1> HIDE DEF row
  <1>8. QED
    BY <1>1, <1>2, <1>3, <1>4, <1>5, <1>6, <1>7, CellsNow, MoveStep

LEMMA SetStatusStep ==
    ASSUME IInv, NEW i \in DOMAIN cmds, SetStatus(i)
    PROVE  IInv'
  <1> DEFINE lead == cmds[i].req.leadId
             row == [leads[lead] EXCEPT !.status = StatusCell(cmds[i].status)]
             pc == IF cmds[i].status = "confirmed" THEN "event" ELSE "answer"
  <1>1. /\ cmds[i].pc = "status" /\ leads' = [leads EXCEPT ![lead] = row]
        /\ Goto(i, pc)
        /\ UNCHANGED <<calendar, work, held, mailed>>
    BY DEF SetStatus, SetCell, At, Row
  <1>2. i \in Running
    BY <1>1 DEF Running
  <1>3. /\ leads[lead] \in LeadRows /\ pc \in PCs /\ pc \notin {"list", "create", "ended"}
        /\ cmds[i].status \in Statuses /\ cmds[i].req \in Requests
    BY <1>2, RunningFacts, CommandFacts DEF PCs
  <1>4. cmds[i].status \in Outcomes /\ Fits(pc, cmds[i].status, cmds[i].req, held)
    BY <1>1, <1>2, CellsNow DEF Fits
  <1>5. /\ row \in LeadRows /\ row.active = leads[lead].active
        /\ row.status = StatusCell(cmds[i].status)
        /\ row.status = "booked" => cmds[i].status = "confirmed"
    BY <1>3, <1>4 DEF LeadRows, StatusCell, Outcomes
  <1>6. Moves(i, pc, cmds[i].status)
    BY <1>1, <1>3, GotoMoves
  <1>7. ~ LeadRaced(lead) =>
            /\ Vouched(lead, row, held)
            /\ Cells(pc, cmds[i].status, cmds[i].req, row)
    <2>1. cmds[i].status = "confirmed" => cmds[i].req \in held
      BY <1>1, <1>2, CellsNow DEF Fits
    <2>2. ~ LeadRaced(lead) => leads[lead].active = cmds[i].req.id
      BY <1>1, <1>2, CellsNow DEF Cells
    <2>3. QED
      BY <1>5, <2>1, <2>2 DEF Cells, Vouched
  <1> HIDE DEF row, pc
  <1>8. QED
    BY <1>1, <1>2, <1>3, <1>4, <1>5, <1>6, <1>7, CellsNow, MoveStep

LEMMA SetEventStep ==
    ASSUME IInv, NEW i \in DOMAIN cmds, SetEvent(i)
    PROVE  IInv'
  <1> DEFINE lead == cmds[i].req.leadId
             row == [leads[lead] EXCEPT !.event = i]
  <1>1. /\ cmds[i].pc = "event" /\ leads' = [leads EXCEPT ![lead] = row]
        /\ Goto(i, "enqueue")
        /\ UNCHANGED <<calendar, work, held, mailed>>
    BY DEF SetEvent, SetCell, At, Row
  <1>2. i \in Running
    BY <1>1 DEF Running
  <1>3. /\ leads[lead] \in LeadRows /\ "enqueue" \in PCs
        /\ cmds[i].status \in Statuses /\ i \in Nat
    BY <1>2, RunningFacts, CommandFacts DEF PCs
  <1>4. /\ row \in LeadRows /\ row.active = leads[lead].active
        /\ row.status = leads[lead].status
    BY <1>3 DEF LeadRows
  <1>5. Moves(i, "enqueue", cmds[i].status)
    BY <1>1, <1>3, GotoMoves
  <1>6. Fits("enqueue", cmds[i].status, cmds[i].req, held)
    BY <1>1, <1>2, CellsNow DEF Fits
  <1>7. ~ LeadRaced(lead) =>
            /\ Vouched(lead, row, held)
            /\ Cells("enqueue", cmds[i].status, cmds[i].req, row)
    BY <1>1, <1>2, <1>4, CellsNow DEF Cells, Vouched
  <1> HIDE DEF row
  <1>8. QED
    BY <1>1, <1>2, <1>3, <1>4, <1>5, <1>6, <1>7, CellsNow, MoveStep

(* The search and the append: the Lead is left alone, and only a held      *)
(* request is appended.                                                    *)
LEMMA EnqueueStep ==
    ASSUME IInv, NEW i \in DOMAIN cmds, SearchWork(i) \/ AppendWork(i)
    PROVE  IInv'
  <1> DEFINE lead == cmds[i].req.leadId
  <1>1. /\ cmds[i].pc \in {"enqueue", "append"}
        /\ UNCHANGED <<leads, calendar, held, mailed>>
        /\ work' = work \/ work' = Append(work, Item(cmds[i].req))
    BY DEF SearchWork, AppendWork, At
  <1>2. PICK pc \in {"append", "answer"} : Goto(i, pc)
    BY DEF SearchWork, AppendWork
  <1>3. i \in Running
    BY <1>1 DEF Running
  <1>4. /\ leads[lead] \in LeadRows /\ leads' = [leads EXCEPT ![lead] = leads[lead]]
        /\ cmds[i].status \in Statuses /\ cmds[i].req \in Requests /\ pc \in PCs
    BY <1>1, <1>3, RunningFacts, CommandFacts DEF PCs
  <1>5. Moves(i, pc, cmds[i].status)
    BY <1>2, <1>4, GotoMoves
  <1>6. /\ cmds[i].status = "confirmed" /\ cmds[i].req \in held
        /\ Fits(pc, cmds[i].status, cmds[i].req, held)
    BY <1>1, <1>3, CellsNow DEF Fits, Outcomes
  <1>7. work' \in Seq(Items) /\ \A j \in DOMAIN work' : work'[j].req \in held
    <2>1. /\ work \in Seq(Items) /\ \A j \in DOMAIN work : work[j].req \in held
          /\ Item(cmds[i].req) \in Items /\ Item(cmds[i].req).req \in held
      BY <1>3, <1>4, <1>6, CellsNow DEF Item, Items
    <2>2. QED
      BY <1>1, <2>1
  <1>8. ~ LeadRaced(lead) =>
            /\ Vouched(lead, leads[lead], held)
            /\ Cells(pc, cmds[i].status, cmds[i].req, leads[lead])
    BY <1>1, <1>2, <1>3, CellsNow DEF Cells
  <1>9. QED
    BY <1>1, <1>2, <1>3, <1>4, <1>5, <1>6, <1>7, <1>8, MoveStep

LEMMA AnswerStep ==
    ASSUME IInv, NEW i \in DOMAIN cmds, Answer(i)
    PROVE  IInv'
  <1> DEFINE lead == cmds[i].req.leadId
  <1>1. /\ cmds[i].pc = "answer" /\ Goto(i, "ended")
        /\ UNCHANGED <<leads, calendar, work, held, mailed>>
    BY DEF Answer, At
  <1>2. i \in Running
    BY <1>1 DEF Running
  <1>3. /\ leads[lead] \in LeadRows /\ leads' = [leads EXCEPT ![lead] = leads[lead]]
        /\ cmds[i].status \in Statuses /\ "ended" \in PCs
    BY <1>1, <1>2, RunningFacts, CommandFacts DEF PCs
  <1>4. Moves(i, "ended", cmds[i].status)
    BY <1>1, <1>3, GotoMoves
  <1>5. Fits("ended", cmds[i].status, cmds[i].req, held)
    BY <1>1, <1>2, RunningFacts DEF Fits
  <1>6. ~ LeadRaced(lead) =>
            /\ Vouched(lead, leads[lead], held)
            /\ cmds[i].status = "confirmed" =>
                  leads[lead].status = "booked" /\ leads[lead].active = cmds[i].req.id
    BY <1>1, <1>2, CellsNow DEF Cells, StatusCell
  <1>7. QED
    BY <1>1, <1>2, <1>3, <1>4, <1>5, <1>6, CellsNow, MoveStep

(* The insertion: whoever else found the slot free overlaps this command,  *)
(* and so does whoever took it since this one did.                         *)
LEMMA CreateEventStep ==
    ASSUME IInv, NEW i \in DOMAIN cmds, CreateEvent(i)
    PROVE  IInv'
  <1> DEFINE req == cmds[i].req
             lead == req.leadId
             new == [by |-> i, slot |-> req.slot]
  <1>1. PICK inserted \in BOOLEAN, answered \in BOOLEAN :
          /\ answered => inserted
          /\ calendar' = IF inserted THEN calendar \cup {new} ELSE calendar
          /\ held' = IF inserted THEN held \cup {req} ELSE held
          /\ cmds' = [cmds EXCEPT ![i] =
                         [@ EXCEPT !.pc = "active",
                                   !.status = IF answered THEN "confirmed" ELSE "failed"]]
    BY DEF CreateEvent
  <1> DEFINE status == IF answered THEN "confirmed" ELSE "failed"
             c == [cmds[i] EXCEPT !.pc = "active", !.status = status]
  <1>2. cmds[i].pc = "create" /\ UNCHANGED <<leads, work, mailed>>
    BY DEF CreateEvent, At
  <1>3. /\ i \in Running /\ leads[lead] \in LeadRows
        /\ leads' = [leads EXCEPT ![lead] = leads[lead]]
        /\ req \in Requests /\ req.slot \in SUBSET Times
        /\ req.leadId \in Bookable
    BY <1>2, RunningFacts, CommandFacts, BookingAssumption DEF Running
  <1>4. Moves(i, "active", status)
    <2> status \in Statuses /\ "active" \in PCs
      BY DEF PCs, Statuses, Outcomes
    <2> HIDE DEF status
    <2>1. /\ c \in Commands /\ c.req = cmds[i].req /\ c.raced = cmds[i].raced
          /\ c.pc = "active" /\ c.status = status
      BY CommandFacts DEF Commands
    <2>2. cmds' = [cmds EXCEPT ![i] = c]
      BY <1>1 DEF status
    <2> HIDE DEF c
    <2>3. Moves(i, c.pc, c.status)
      BY <2>1, <2>2, ReplaceMoves
    <2>4. QED
      BY <2>1, <2>3
  <1>5. /\ held \subseteq held' /\ held' \subseteq Requests
        /\ Fits("active", status, req, held')
    BY <1>1, <1>3 DEF IInv, TypeOK, Fits, Outcomes
  <1>6. /\ DOMAIN cmds' = DOMAIN cmds /\ cmds'[i].pc = "active"
        /\ \A j \in DOMAIN cmds : j # i => cmds'[j] = cmds[j]
        /\ \A j \in DOMAIN cmds :
              cmds'[j].req = cmds[j].req /\ cmds'[j].raced = cmds[j].raced
        /\ \A j, k \in DOMAIN cmds : Overlap(j, k)' <=> Overlap(j, k)
    BY <1>3, <1>4, MoveRaces DEF Moves
  <1>7. \A e \in calendar' : e \in calendar \/ e = new
    BY <1>1
  <1>8. \A e \in calendar :
            /\ e \in [by : DOMAIN cmds, slot : SUBSET Times]
            /\ e.by \in DOMAIN cmds /\ e.by # i
            /\ cmds[e.by].pc \notin {"list", "create"} /\ e.slot = cmds[e.by].req.slot
    BY <1>2 DEF IInv, TypeOK, EventInv
  <1>9. new.by = i /\ new.slot = req.slot
    OBVIOUS
  <1> HIDE DEF new
  <1>10. TypeOK'
    <2>1. new \in [by : DOMAIN cmds, slot : SUBSET Times]
      BY <1>3 DEF new
    <2>2. calendar' \subseteq [by : DOMAIN cmds', slot : SUBSET Times]
      BY <1>6, <1>7, <1>8, <2>1
    <2>3. cmds' \in Seq(Commands)
      BY <1>4 DEF Moves
    <2>4. QED
      BY <1>2, <1>5, <2>2, <2>3 DEF IInv, TypeOK
  <1>11. CommandInv'
    BY <1>3, <1>4, <1>5, MoveCommands
  <1>12. OverlapInv'
    BY <1>3, <1>4, MoveRaces
  <1>13. ASSUME NEW e \in calendar, e.slot \cap req.slot # {}
         PROVE  Overlap(i, e.by)
    BY <1>2, <1>13 DEF IInv, EventInv
  <1>14. EventInv'
    <2>1. ASSUME NEW e \in calendar'
          PROVE  cmds'[e.by].pc \notin {"list", "create"} /\ e.slot = cmds'[e.by].req.slot
      <3>1. CASE e \in calendar
        BY <1>6, <1>8, <3>1
      <3>2. CASE e = new
        BY <1>6, <1>9, <3>2
      <3>3. QED
        BY <1>7, <2>1, <3>1, <3>2
    <2>2. ASSUME NEW j \in DOMAIN cmds, cmds'[j].pc = "create", NEW e \in calendar',
                 e.slot \cap cmds'[j].req.slot # {}
          PROVE  Overlap(j, e.by)'
      <3>1. j # i /\ cmds[j].pc = "create" /\ cmds'[j].req = cmds[j].req
        BY <1>6, <2>2
      <3>2. CASE e \in calendar
        <4>1. Overlap(j, e.by)
          BY <2>2, <3>1, <3>2 DEF IInv, EventInv
        <4>2. QED
          BY <1>6, <1>8, <3>2, <4>1
      <3>3. CASE e = new
        <4>1. j \in Running
          BY <3>1 DEF Running
        <4>2. Overlap(j, i)
          BY <1>3, <3>1, <4>1 DEF IInv, OverlapInv
        <4>3. QED
          BY <1>6, <1>9, <3>3, <4>2
      <3>4. QED
        BY <1>7, <2>2, <3>2, <3>3
    <2>3. QED
      BY <1>6, <2>1, <2>2 DEF EventInv
  <1>15. NoDoubleBooking'
    <2> SUFFICES ASSUME NEW e \in calendar', NEW f \in calendar',
                        e # f, e.slot \cap f.slot # {}
                 PROVE  e.by \in cmds'[f.by].raced
      BY DEF NoDoubleBooking
    <2>1. CASE e \in calendar /\ f \in calendar
      BY <1>6, <1>8, <2>1 DEF IInv, NoDoubleBooking
    <2>2. CASE e = new /\ f \in calendar
      <3>1. f.slot \cap req.slot # {}
        BY <1>9, <2>2
      <3>2. i \in cmds[f.by].raced
        BY <1>13, <2>2, <3>1 DEF Overlap
      <3>3. QED
        BY <1>6, <1>8, <1>9, <2>2, <3>2
    <2>3. CASE e \in calendar /\ f = new
      <3>1. e.by \in cmds[i].raced
        BY <1>9, <1>13, <2>3 DEF Overlap
      <3>2. QED
        BY <1>6, <1>9, <2>3, <3>1
    <2>4. QED
      BY <1>7, <2>1, <2>2, <2>3
  <1>16. WorkInv'
    BY <1>2, <1>5 DEF IInv, WorkInv
  <1>17. LeadInv' /\ ConfirmedForGood'
    <2>1. ~ LeadRaced(lead) =>
              /\ Vouched(lead, leads[lead], held')
              /\ Cells("active", status, req, leads[lead])
      BY <1>2, <1>3, <1>5, CellsNow DEF Cells, Vouched
    <2>2. QED
      BY <1>3, <1>4, <1>5, <2>1, MoveLead
  <1>18. QED
    BY <1>10, <1>11, <1>12, <1>14, <1>15, <1>16, <1>17 DEF IInv

-----------------------------------------------------------------------------
(* A command starts.  It overlaps every command running then, which is all *)
(* that changes for those; what it reads of its Lead decides the rest.     *)

Joins(k, req, pc, status) ==
    /\ cmds' \in Seq(Commands) /\ k \in Nat /\ k \notin DOMAIN cmds
    /\ DOMAIN cmds' = DOMAIN cmds \cup {k}
    /\ \A i \in DOMAIN cmds : i < k
    /\ \A i \in DOMAIN cmds :
          /\ cmds'[i].req = cmds[i].req /\ cmds'[i].pc = cmds[i].pc
          /\ cmds'[i].status = cmds[i].status
          /\ cmds'[i].raced = IF i \in Running THEN cmds[i].raced \cup {k}
                                              ELSE cmds[i].raced
    /\ cmds'[k].req = req /\ cmds'[k].pc = pc /\ cmds'[k].status = status
    /\ cmds'[k].raced = Running

LEMMA StartedJoins ==
    ASSUME IInv, NEW req \in Requests, NEW pc \in PCs, NEW status \in Statuses,
           NEW replay \in BOOLEAN, Started(req, pc, status, replay),
           NEW k, k = Len(cmds) + 1
    PROVE  Joins(k, req, pc, status)
  <1> DEFINE old == [i \in DOMAIN cmds |->
                        IF i \in Running THEN [cmds[i] EXCEPT !.raced = @ \cup {k}]
                                         ELSE cmds[i]]
             new == [req |-> req, pc |-> pc, status |-> status, replay |-> replay,
                     raced |-> Running]
  <1>1. /\ cmds \in Seq(Commands) /\ k \in Nat
        /\ DOMAIN cmds = 1 .. Len(cmds) /\ Len(cmds) \in Nat
    BY DEF IInv, TypeOK
  <1>2. Running \subseteq DOMAIN cmds /\ DOMAIN cmds \subseteq Nat
    BY <1>1 DEF Running
  <1>3. new \in Commands
    BY <1>2 DEF Commands
  <1>4. \A i \in DOMAIN cmds :
            /\ old[i] \in Commands
            /\ old[i].req = cmds[i].req /\ old[i].pc = cmds[i].pc
            /\ old[i].status = cmds[i].status
            /\ old[i].raced = IF i \in Running THEN cmds[i].raced \cup {k} ELSE cmds[i].raced
    <2> SUFFICES ASSUME NEW i \in DOMAIN cmds
                 PROVE  /\ old[i] \in Commands
                        /\ old[i].req = cmds[i].req /\ old[i].pc = cmds[i].pc
                        /\ old[i].status = cmds[i].status
                        /\ old[i].raced = IF i \in Running THEN cmds[i].raced \cup {k}
                                                            ELSE cmds[i].raced
      OBVIOUS
    <2>1. cmds[i] \in Commands
      BY CommandFacts
    <2>2. old[i] = IF i \in Running THEN [cmds[i] EXCEPT !.raced = @ \cup {k}] ELSE cmds[i]
      OBVIOUS
    <2> HIDE DEF old
    <2>3. QED
      BY <1>1, <2>1, <2>2 DEF Commands
  <1>5. DOMAIN old = 1 .. Len(cmds)
    BY <1>1
  <1>6. cmds' = Append(old, new)
    BY DEF Started
  <1> HIDE DEF old, new
  <1>7. old \in Seq(Commands) /\ Len(old) = Len(cmds)
    <2>1. old \in [1 .. Len(cmds) -> Commands]
      <3>1. old = [i \in 1 .. Len(cmds) |-> old[i]]
        BY <1>1 DEF old
      <3>2. QED
        BY <1>1, <1>4, <3>1
    <2>2. QED
      BY <1>1, <2>1
  <1>8. /\ cmds' \in Seq(Commands)
        /\ DOMAIN cmds' = DOMAIN cmds \cup {k}
        /\ \A i \in DOMAIN cmds : i < k /\ cmds'[i] = old[i]
        /\ cmds'[k] = new
        /\ k \notin DOMAIN cmds
    BY <1>1, <1>3, <1>6, <1>7
  <1>9. new.req = req /\ new.pc = pc /\ new.status = status /\ new.raced = Running
    BY DEF new
  <1>10. QED
    BY <1>1, <1>4, <1>8, <1>9 DEF Joins

(* If the Lead has a recorded booking, the command ends at once: with a    *)
(* confirmation if it asks for that very booking, else with a rejection.   *)
LEMMA StartedStep ==
    ASSUME IInv, NEW req \in Requests, NEW pc \in {"list", "active", "ended"},
           NEW status \in Statuses, NEW replay \in BOOLEAN,
           Started(req, pc, status, replay), Fits(pc, status, req, held),
           pc # "ended" => Row(req).status # "booked" \/ LeadRaced(req.leadId),
           pc = "ended" /\ status = "confirmed" =>
              Row(req).status = "booked" /\ Row(req).active = req.id,
           \A q \in Requests :
              /\ q.leadId = req.leadId /\ req.leadId \in Bookable
              /\ Row(req).status = "booked" /\ Row(req).active = q.id
              => pc = "ended" /\ status = IF q = req THEN "confirmed" ELSE "rejected"
    PROVE  IInv'
  <1> DEFINE lead == req.leadId
  <1>new. PICK k : k = Len(cmds) + 1
    OBVIOUS
  <1>joins. Joins(k, req, pc, status)
    BY <1>new, StartedJoins DEF PCs
  <1>1. /\ cmds' \in Seq(Commands) /\ k \in Nat /\ k \notin DOMAIN cmds
        /\ DOMAIN cmds' = DOMAIN cmds \cup {k}
        /\ \A i \in DOMAIN cmds : i < k
        /\ \A i \in DOMAIN cmds :
              /\ cmds'[i].req = cmds[i].req /\ cmds'[i].pc = cmds[i].pc
              /\ cmds'[i].status = cmds[i].status
              /\ cmds'[i].raced = IF i \in Running THEN cmds[i].raced \cup {k}
                                                  ELSE cmds[i].raced
        /\ cmds'[k].req = req /\ cmds'[k].pc = pc /\ cmds'[k].status = status
        /\ cmds'[k].raced = Running
    BY <1>joins DEF Joins
  <1>2. UNCHANGED <<leads, calendar, work, held, mailed>>
    BY DEF Started
  <1>3. /\ \A i \in DOMAIN cmds : i \in Running' <=> i \in Running
        /\ k \in Running' <=> pc # "ended"
        /\ \A i \in Running' : i \in DOMAIN cmds \/ i = k
        /\ \A i \in Running : i \in DOMAIN cmds
    BY <1>1 DEF Running
  <1>4. \A i, j \in DOMAIN cmds : Overlap(i, j) => Overlap(i, j)'
    BY <1>1 DEF Overlap
  <1>5. \A i \in Running : Overlap(i, k)' /\ Overlap(k, i)'
    BY <1>1, <1>3 DEF Overlap
  <1>6. TypeOK'
    <2>1. calendar' \subseteq [by : DOMAIN cmds', slot : SUBSET Times]
      BY <1>1, <1>2 DEF IInv, TypeOK
    <2>2. QED
      BY <1>1, <1>2, <2>1 DEF IInv, TypeOK
  <1>7. CommandInv'
    <2> SUFFICES ASSUME NEW i \in DOMAIN cmds'
                 PROVE  /\ Fits(cmds'[i].pc, cmds'[i].status, cmds'[i].req, held)
                        /\ cmds'[i].raced \subseteq DOMAIN cmds'
      BY <1>2 DEF CommandInv
    <2>1. CASE i = k
      BY <1>1, <1>3, <2>1
    <2>2. CASE i \in DOMAIN cmds
      BY <1>1, <2>2, CommandFacts
    <2>3. QED
      BY <1>1, <2>1, <2>2
  <1>8. OverlapInv'
    <2> SUFFICES ASSUME NEW i \in Running', NEW j \in DOMAIN cmds', i # j,
                        j \in Running' \/ j > i
                 PROVE  Overlap(i, j)'
      BY DEF OverlapInv
    <2>1. CASE i = k
      <3>1. j \in DOMAIN cmds /\ ~ j > k
        BY <1>1, <2>1, CommandFacts
      <3>2. j \in Running
        BY <1>3, <2>1, <3>1
      <3>3. QED
        BY <1>5, <2>1, <3>2
    <2>2. CASE i \in DOMAIN cmds /\ j = k
      BY <1>3, <1>5, <2>2
    <2>3. CASE i \in DOMAIN cmds /\ j \in DOMAIN cmds
      BY <1>3, <1>4, <2>3 DEF IInv, OverlapInv
    <2>4. QED
      BY <1>1, <1>3, <2>1, <2>2, <2>3
  <1>9. \A e \in calendar : e.by \in DOMAIN cmds
    BY DEF IInv, TypeOK
  <1>10. EventInv'
    <2>1. \A e \in calendar :
             cmds'[e.by].pc \notin {"list", "create"} /\ e.slot = cmds'[e.by].req.slot
      BY <1>1, <1>9 DEF IInv, EventInv
    <2>2. ASSUME NEW i \in DOMAIN cmds', cmds'[i].pc = "create", NEW e \in calendar,
                 e.slot \cap cmds'[i].req.slot # {}
          PROVE  Overlap(i, e.by)'
      <3>1. i \in DOMAIN cmds /\ cmds[i].pc = "create"
        BY <1>1, <2>2
      <3>2. Overlap(i, e.by)
        BY <1>1, <2>2, <3>1 DEF IInv, EventInv
      <3>3. QED
        BY <1>4, <1>9, <3>1, <3>2
    <2>3. QED
      BY <1>2, <2>1, <2>2 DEF EventInv
  <1>11. NoDoubleBooking'
    BY <1>1, <1>2, <1>9 DEF IInv, NoDoubleBooking
  <1>12. WorkInv'
    BY <1>2 DEF IInv, WorkInv
  <1>13. \A l : LeadRaced(l) => LeadRaced(l)'
    <2> SUFFICES ASSUME NEW l, LeadRaced(l) PROVE LeadRaced(l)'
      OBVIOUS
    <2>1. PICK i \in DOMAIN cmds : \E j \in cmds[i].raced :
              cmds[i].req.leadId = l /\ cmds[j].req.leadId = l
      BY DEF LeadRaced
    <2>2. PICK j \in cmds[i].raced : cmds[i].req.leadId = l /\ cmds[j].req.leadId = l
      BY <2>1
    <2>3. j \in DOMAIN cmds
      BY CommandFacts
    <2>4. /\ i \in DOMAIN cmds' /\ j \in cmds'[i].raced
          /\ cmds'[i].req.leadId = l /\ cmds'[j].req.leadId = l
      BY <1>1, <2>2, <2>3
    <2>5. QED
      BY <2>4 DEF LeadRaced
  <1>14. ASSUME ~ LeadRaced(lead)'
         PROVE  \A i \in Running : cmds[i].req.leadId # lead
    BY <1>1, <1>3, <1>14 DEF LeadRaced
  <1>15. LeadInv'
    <2> SUFFICES ASSUME NEW l \in LeadIds, ~ LeadRaced(l)'
                 PROVE  /\ Vouched(l, leads[l], held)
                        /\ \A i \in Running' : cmds'[i].req.leadId = l =>
                              Cells(cmds'[i].pc, cmds'[i].status, cmds'[i].req, leads[l])
                        /\ \A i \in DOMAIN cmds' :
                              cmds'[i].req.leadId = l /\ Answered(i, "confirmed")' =>
                                 /\ leads[l].status = "booked"
                                 /\ leads[l].active = cmds'[i].req.id
                                 /\ \A j \in Running' : cmds'[j].req.leadId # l
      BY <1>2 DEF LeadInv
    <2>1. ~ LeadRaced(l)
      BY <1>13
    <2>2. /\ Vouched(l, leads[l], held)
          /\ \A i \in Running : cmds[i].req.leadId = l =>
                Cells(cmds[i].pc, cmds[i].status, cmds[i].req, leads[l])
          /\ \A i \in DOMAIN cmds : cmds[i].req.leadId = l /\ Answered(i, "confirmed") =>
                /\ leads[l].status = "booked" /\ leads[l].active = cmds[i].req.id
                /\ \A j \in Running : cmds[j].req.leadId # l
      BY <2>1 DEF IInv, LeadInv
    <2>3. \A i \in Running' : cmds'[i].req.leadId = l =>
             Cells(cmds'[i].pc, cmds'[i].status, cmds'[i].req, leads[l])
      <3> SUFFICES ASSUME NEW i \in Running', cmds'[i].req.leadId = l
                   PROVE  Cells(cmds'[i].pc, cmds'[i].status, cmds'[i].req, leads[l])
        OBVIOUS
      <3>1. CASE i \in DOMAIN cmds
        BY <1>1, <1>3, <2>2, <3>1
      <3>2. CASE i = k
        <4>1. pc \in {"list", "active"} /\ l = lead
          BY <1>1, <1>3, <3>2
        <4>2. leads[l].status # "booked"
          BY <2>1, <4>1 DEF Row
        <4>3. QED
          BY <1>1, <3>2, <4>1, <4>2 DEF Cells
      <3>3. QED
        BY <1>3, <3>1, <3>2
    <2>4. ASSUME NEW i \in DOMAIN cmds', cmds'[i].req.leadId = l,
                 Answered(i, "confirmed")'
          PROVE  /\ leads[l].status = "booked" /\ leads[l].active = cmds'[i].req.id
                 /\ \A j \in Running' : cmds'[j].req.leadId # l
      <3>1. CASE i \in DOMAIN cmds
        <4>1. Answered(i, "confirmed") /\ cmds[i].req.leadId = l
          BY <1>1, <2>4, <3>1 DEF Answered, At
        <4>2. /\ leads[l].status = "booked" /\ leads[l].active = cmds[i].req.id
              /\ \A j \in Running : cmds[j].req.leadId # l
          BY <2>2, <3>1, <4>1
        <4>3. lead = l => pc = "ended"
          BY <2>1, <4>2 DEF Row
        <4>4. \A j \in Running' : cmds'[j].req.leadId # l
          BY <1>1, <1>3, <4>2, <4>3
        <4>5. QED
          BY <1>1, <3>1, <4>2, <4>4
      <3>2. CASE i = k
        <4>1. l = lead /\ pc = "ended" /\ status = "confirmed"
          BY <1>1, <2>4, <3>2 DEF Answered, At
        <4>2. \A j \in Running : cmds[j].req.leadId # l
          BY <1>14, <4>1
        <4>3. QED
          BY <1>1, <1>3, <3>2, <4>1, <4>2 DEF Row
      <3>3. QED
        BY <1>1, <3>1, <3>2
    <2>5. QED
      BY <2>2, <2>3, <2>4
  <1>16. ConfirmedForGood'
    <2> SUFFICES ASSUME NEW i \in DOMAIN cmds', NEW j \in DOMAIN cmds', i < j,
                        cmds'[i].req.leadId = cmds'[j].req.leadId,
                        ~ LeadRaced(cmds[i].req.leadId)',
                        Answered(i, "confirmed")', At(j, "ended")'
                 PROVE  cmds'[j].status \in IF cmds'[i].req = cmds'[j].req
                                            THEN {"confirmed", "error"}
                                            ELSE {"rejected", "error"}
      BY DEF ConfirmedForGood
    <2>1. i \in DOMAIN cmds
      <3>1. ~ k < j
        BY <1>1, CommandFacts
      <3>2. QED
        BY <1>1, <3>1
    <2>2. Answered(i, "confirmed") /\ ~ LeadRaced(cmds[i].req.leadId)
      BY <1>1, <1>13, <2>1 DEF Answered, At
    <2>3. CASE j \in DOMAIN cmds
      <3>1. At(j, "ended") /\ cmds[i].req.leadId = cmds[j].req.leadId
        BY <1>1, <2>1, <2>3 DEF At
      <3>2. cmds[j].status \in IF cmds[i].req = cmds[j].req THEN {"confirmed", "error"}
                                                           ELSE {"rejected", "error"}
        BY <2>1, <2>2, <2>3, <3>1 DEF IInv, ConfirmedForGood
      <3>3. QED
        BY <1>1, <2>1, <2>3, <3>2
    <2>4. CASE j = k
      <3>1. cmds[i].req.leadId = lead /\ cmds[i].req \in Requests /\ lead \in Bookable
        BY <1>1, <2>1, <2>2, <2>4, CommandFacts DEF Answered, At, Fits
      <3>2. Row(req).status = "booked" /\ Row(req).active = cmds[i].req.id
        BY <2>1, <2>2, <3>1, BookableLead DEF IInv, LeadInv, Row
      <3>3. status = IF cmds[i].req = req THEN "confirmed" ELSE "rejected"
        BY <3>1, <3>2
      <3>4. QED
        BY <1>1, <2>1, <2>4, <3>3
    <2>5. QED
      BY <1>1, <2>3, <2>4
  <1>17. QED
    BY <1>6, <1>7, <1>8, <1>10, <1>11, <1>12, <1>15, <1>16 DEF IInv

(* A Lead that no two commands shared says booked only of one of its own   *)
(* requests, so such a Lead has an active booking.                         *)
LEMMA BookedIsActive ==
    ASSUME IInv, NEW req \in Requests, MayBook(req), ~ HasBooking(Row(req))
    PROVE  Row(req).status # "booked" \/ LeadRaced(req.leadId)
  <1> SUFFICES ASSUME ~ LeadRaced(req.leadId), Row(req).status = "booked"
               PROVE  FALSE
    OBVIOUS
  <1>1. Vouched(req.leadId, Row(req), held)
    BY BookableLead DEF MayBook, IInv, LeadInv, Row
  <1>2. PICK r \in held : r.id = Row(req).active
    BY <1>1 DEF Vouched
  <1>3. Row(req).active # NoId
    BY <1>2, BookingAssumption DEF IInv, TypeOK
  <1>4. QED
    BY <1>3 DEF HasBooking

LEMMA StartStep ==
    ASSUME IInv, NEW req \in Requests, Start(req)
    PROVE  IInv'
  <1>1. CASE Reject(req)
    <2>1. Fits("ended", "rejected", req, held) /\ "rejected" \in Statuses
      BY DEF Fits, Statuses
    <2>2. QED
      BY <1>1, <2>1, StartedStep DEF Reject, MayBook
  <1>2. CASE Replay(req)
    <2> DEFINE status == CASE Row(req).status = "booked" -> "confirmed"
                           [] Row(req).status = "not_configured" -> "not_configured"
                           [] OTHER -> "failed"
    <2>1. /\ MayBook(req) /\ Row(req).active = req.id
          /\ Started(req, "ended", status, TRUE)
      BY <1>2 DEF Replay
    <2>2. /\ status \in Statuses
          /\ status = "confirmed" <=> Row(req).status = "booked"
      BY DEF Statuses, Outcomes
    <2> HIDE DEF status
    <2>3. Fits("ended", status, req, held)
      BY <2>1 DEF Fits, MayBook
    <2>4. \A q \in Requests : q.id = req.id => q = req
      BY BookingAssumption
    <2>5. \A q \in Requests :
              Row(req).status = "booked" /\ Row(req).active = q.id
              => status = IF q = req THEN "confirmed" ELSE "rejected"
      BY <2>1, <2>2, <2>4
    <2>6. QED
      BY <2>1, <2>2, <2>3, <2>5, StartedStep
  <1>3. CASE AlreadyActive(req)
    <2>1. Fits("ended", "rejected", req, held) /\ "rejected" \in Statuses
      BY DEF Fits, Statuses
    <2>2. QED
      BY <1>3, <2>1, StartedStep DEF AlreadyActive, Fresh
  <1>4. CASE OutsideWindow(req) \/ NoCalendar(req) \/ Proceed(req)
    <2>1. MayBook(req) /\ ~ HasBooking(Row(req))
      BY <1>4 DEF OutsideWindow, NoCalendar, Proceed, Fresh
    <2>2. Row(req).status # "booked" \/ LeadRaced(req.leadId)
      BY <2>1, BookedIsActive
    <2>3. \A q \in Requests : ~ (Row(req).status = "booked" /\ Row(req).active = q.id)
      BY <2>1, BookingAssumption DEF HasBooking
    <2>4. CASE OutsideWindow(req)
      <3>1. Fits("ended", "unavailable", req, held) /\ "unavailable" \in Statuses
        BY DEF Fits, Statuses
      <3>2. QED
        BY <2>3, <2>4, <3>1, StartedStep DEF OutsideWindow
    <2>5. CASE NoCalendar(req)
      <3>1. Fits("active", "not_configured", req, held) /\ "not_configured" \in Statuses
        BY <2>1 DEF Fits, Statuses, Outcomes, MayBook
      <3>2. QED
        BY <2>2, <2>3, <2>5, <3>1, StartedStep DEF NoCalendar
    <2>6. CASE Proceed(req)
      <3>1. Fits("list", "none", req, held) /\ "none" \in Statuses
        BY <2>1 DEF Fits, Statuses, MayBook
      <3>2. QED
        BY <2>2, <2>3, <2>6, <3>1, StartedStep DEF Proceed
    <2>7. QED
      BY <1>4, <2>4, <2>5, <2>6
  <1>5. QED
    BY <1>1, <1>2, <1>3, <1>4 DEF Start

LEMMA ContinueStep ==
    ASSUME IInv, NEW i \in DOMAIN cmds, Continue(i) \/ Die(i)
    PROVE  IInv'
  <1>1. CASE ListFails(i) \/ ListBusy(i) \/ Die(i)
    <2>1. PICK status \in {"failed", "unavailable", "error"} : End(i, status)
      BY <1>1 DEF ListFails, ListBusy, Die
    <2>2. i \in Running /\ UNCHANGED <<leads, calendar, work, held, mailed>>
      BY <1>1 DEF ListFails, ListBusy, Die, At, Running
    <2>3. status \in Statuses /\ status # "confirmed"
      BY DEF Statuses, Outcomes
    <2>4. QED
      BY <2>1, <2>2, <2>3, EndStep
  <1>2. QED
    BY <1>1, ListFreeStep, CreateEventStep, SetActiveStep, SetStatusStep, SetEventStep,
       EnqueueStep, AnswerStep DEF Continue

-----------------------------------------------------------------------------
(* The partners and the worker.                                            *)

LEMMA CommandsUnchanged ==
    ASSUME IInv, UNCHANGED <<leads, cmds, held>>
    PROVE  CommandInv' /\ OverlapInv' /\ LeadInv' /\ ConfirmedForGood'
  <1>1. CommandInv' /\ OverlapInv' /\ ConfirmedForGood'
    BY DEF IInv, CommandInv, OverlapInv, Overlap, Running, ConfirmedForGood, LeadRaced,
           Answered, At
  <1>2. LeadInv'
    BY DEF IInv, LeadInv, LeadRaced, Running, Answered, At
  <1>3. QED
    BY <1>1, <1>2

LEMMA PartnerClearsStep ==
    ASSUME IInv, PartnerClears
    PROVE  IInv'
  <1>1. calendar' \subseteq calendar /\ UNCHANGED <<leads, work, cmds, held, mailed>>
    BY DEF PartnerClears
  <1>2. TypeOK' /\ WorkInv'
    BY <1>1 DEF IInv, TypeOK, WorkInv
  <1>3. EventInv' /\ NoDoubleBooking'
    BY <1>1 DEF IInv, EventInv, Overlap, NoDoubleBooking
  <1>4. QED
    BY <1>1, <1>2, <1>3, CommandsUnchanged DEF IInv

(* The worker marks an item, and does nothing else to it.                  *)
LEMMA DeliverMarks ==
    ASSUME IInv, Deliver
    PROVE  /\ UNCHANGED <<leads, calendar, cmds, held>>
           /\ DOMAIN work' = DOMAIN work
           /\ \A n \in DOMAIN work : work'[n].req = work[n].req
           /\ work' \in Seq(Items)
           /\ mailed' \subseteq mailed \cup {work[n].req : n \in DOMAIN work}
           /\ \A n \in DOMAIN work :
                 \/ work'[n] = work[n]
                 \/ work'[n].rivals = {} /\ work'[n].state # "sending"
                 \/ /\ work'[n].rivals = Commanding(work[n].req.leadId)
                    /\ StillConfirmed(work[n].req)
  <1>1. work \in Seq(Items) /\ Running \subseteq Nat
    BY DEF IInv, TypeOK, Running
  <1>2. PICK j \in DOMAIN work : CheckLead(j) \/ Withhold(j) \/ Mail(j) \/ NotMailed(j)
    BY DEF Deliver
  <1>3. mailed' \subseteq mailed \cup {work[n].req : n \in DOMAIN work}
    BY <1>2 DEF CheckLead, Withhold, Mail, NotMailed
  <1>4. PICK state \in {"pending", "sending", "done"}, rivals \in SUBSET Nat :
            /\ Becomes(j, state, rivals)
            /\ \/ rivals = {} /\ state # "sending"
               \/ rivals = Commanding(work[j].req.leadId) /\ StillConfirmed(work[j].req)
    <2>1. CASE CheckLead(j)
      BY <1>1, <2>1 DEF CheckLead, Commanding
    <2>2. CASE Withhold(j) \/ Mail(j) \/ NotMailed(j)
      BY <2>2 DEF Withhold, Mail, NotMailed
    <2>3. QED
      BY <1>2, <2>1, <2>2
  <1> DEFINE to == [work[j] EXCEPT !.state = state, !.rivals = rivals]
  <1>5. work' = [work EXCEPT ![j] = to] /\ UNCHANGED <<leads, calendar, cmds, held>>
    BY <1>4 DEF Becomes
  <1>6. work[j] \in Items
    BY <1>1
  <1>7. /\ to \in Items /\ to.req = work[j].req
        /\ to.state = state /\ to.rivals = rivals
    BY <1>6 DEF Items
  <1> HIDE DEF to
  <1>8. /\ DOMAIN work' = DOMAIN work /\ work' \in Seq(Items) /\ work'[j] = to
        /\ \A n \in DOMAIN work : n # j => work'[n] = work[n]
    BY <1>1, <1>5, <1>7
  <1>9. \A n \in DOMAIN work : work'[n].req = work[n].req
    BY <1>7, <1>8
  <1>10. QED
    BY <1>3, <1>4, <1>5, <1>7, <1>8, <1>9

LEMMA DeliverStep ==
    ASSUME IInv, Deliver
    PROVE  IInv'
  <1>1. /\ UNCHANGED <<leads, calendar, cmds, held>>
        /\ DOMAIN work' = DOMAIN work
        /\ \A n \in DOMAIN work : work'[n].req = work[n].req
        /\ work' \in Seq(Items)
        /\ mailed' \subseteq mailed \cup {work[n].req : n \in DOMAIN work}
    BY DeliverMarks
  <1>2. WorkInv' /\ mailed' \subseteq held
    BY <1>1 DEF IInv, WorkInv
  <1>3. TypeOK'
    BY <1>1, <1>2 DEF IInv, TypeOK
  <1>4. EventInv' /\ NoDoubleBooking'
    BY <1>1 DEF IInv, EventInv, Overlap, NoDoubleBooking
  <1>5. QED
    BY <1>1, <1>2, <1>3, <1>4, CommandsUnchanged DEF IInv

-----------------------------------------------------------------------------
(* The theorems.                                                           *)

LEMMA InitIInv == Init => IInv
  <1> SUFFICES ASSUME Init PROVE IInv
    OBVIOUS
  <1>1. TypeOK
    BY DEF Init, TypeOK, Blank, LeadRows, NoEvent
  <1>2. DOMAIN cmds = {} /\ Running = {}
    BY DEF Init, Running
  <1>3. CommandInv /\ OverlapInv /\ EventInv /\ WorkInv
    BY <1>2 DEF Init, CommandInv, OverlapInv, EventInv, WorkInv
  <1>4. LeadInv
    BY <1>2 DEF Init, LeadInv, Vouched, Blank
  <1>5. NoDoubleBooking /\ ConfirmedForGood
    BY <1>2 DEF Init, NoDoubleBooking, ConfirmedForGood
  <1>6. QED
    BY <1>1, <1>3, <1>4, <1>5 DEF IInv

LEMMA StutterStep ==
    ASSUME IInv, UNCHANGED vars
    PROVE  IInv'
  <1>1. UNCHANGED <<leads, calendar, work, cmds, held, mailed>>
    BY DEF vars
  <1>2. TypeOK' /\ WorkInv' /\ EventInv' /\ NoDoubleBooking'
    BY <1>1 DEF IInv, TypeOK, WorkInv, EventInv, Overlap, NoDoubleBooking
  <1>3. QED
    BY <1>1, <1>2, CommandsUnchanged DEF IInv

LEMMA NextIInv == IInv /\ [Next]_vars => IInv'
  <1> SUFFICES ASSUME IInv, [Next]_vars PROVE IInv'
    OBVIOUS
  <1>1. CASE PartnerClears
    BY <1>1, PartnerClearsStep
  <1>2. ASSUME NEW req \in Requests, Start(req) PROVE IInv'
    BY <1>2, StartStep
  <1>3. ASSUME NEW i \in DOMAIN cmds, Continue(i) \/ Die(i) PROVE IInv'
    BY <1>3, ContinueStep
  <1>4. CASE Deliver
    BY <1>4, DeliverStep
  <1>5. CASE UNCHANGED vars
    BY <1>5, StutterStep
  <1>6. QED
    BY <1>1, <1>2, <1>3, <1>4, <1>5 DEF Next

(* The inductive invariant holds in every reachable state of the booking.  *)
THEOREM InductiveInvariant == Spec => []IInv
  BY InitIInv, NextIInv, PTL DEF Spec

(* Two events of ours share a time only if the commands that made them     *)
(* overlapped: listing and creating without a lock opens no other gap      *)
(* (executeBookingCommand).                                                *)
THEOREM BookingNoDoubleBooking == Spec => []NoDoubleBooking
  <1>1. IInv => NoDoubleBooking
    BY DEF IInv
  <1>2. QED
    BY <1>1, InductiveInvariant, PTL

(* No mail confirms a request no event was created for; and unless two     *)
(* commands for its Lead overlapped, no answer does, be it a replay.       *)
THEOREM BookingConfirmedWasHeld == Spec => []ConfirmedWasHeld
  <1>1. ASSUME IInv PROVE ConfirmedWasHeld
    <2>1. mailed \subseteq held
      BY <1>1 DEF IInv, WorkInv
    <2>2. ASSUME NEW i \in DOMAIN cmds, Answered(i, "confirmed"),
                 ~ LeadRaced(cmds[i].req.leadId)
          PROVE  cmds[i].req \in held
      <3> DEFINE lead == cmds[i].req.leadId
      <3>1. cmds[i].req \in Requests /\ lead \in LeadIds
        BY <1>1, <2>2, CommandFacts, BookableLead DEF Answered, Fits
      <3>2. /\ leads[lead].status = "booked" /\ leads[lead].active = cmds[i].req.id
            /\ Vouched(lead, leads[lead], held)
        BY <1>1, <2>2, <3>1 DEF IInv, LeadInv
      <3>3. PICK r \in held : r.id = cmds[i].req.id
        BY <3>2 DEF Vouched
      <3>4. r = cmds[i].req
        BY <1>1, <3>1, <3>3, BookingAssumption DEF IInv, TypeOK
      <3>5. QED
        BY <3>4
    <2>3. QED
      BY <2>1, <2>2 DEF ConfirmedWasHeld
  <1>2. QED
    BY <1>1, InductiveInvariant, PTL

(* A confirmation a visitor was given stands: later commands of the Lead   *)
(* repeat it or are rejected (as long as none of them overlapped).         *)
THEOREM BookingConfirmedForGood == Spec => []ConfirmedForGood
  <1>1. IInv => ConfirmedForGood
    BY DEF IInv
  <1>2. QED
    BY <1>1, InductiveInvariant, PTL

-----------------------------------------------------------------------------
(* What a running command does to its Lead and to the queue, in one go.    *)

Leg(i, pc, status, row) ==
    LET was == cmds[i].pc
        old == leads[cmds[i].req.leadId]
    IN \/ was \in {"list", "create"} /\ UNCHANGED <<leads, work>>
       \/ pc = "ended" /\ status = "error" /\ UNCHANGED <<leads, work>>
       \/ /\ was = "active" /\ pc = "status" /\ UNCHANGED work
          /\ row.status = old.status
       \/ /\ was = "status" /\ pc = (IF status = "confirmed" THEN "event" ELSE "answer")
          /\ row.active = old.active /\ row.status = StatusCell(status)
          /\ UNCHANGED work
       \/ /\ was = "event" /\ pc = "enqueue" /\ UNCHANGED work
          /\ row.active = old.active /\ row.status = old.status
       \/ /\ was = "enqueue" /\ UNCHANGED <<leads, work>>
          /\ \/ pc = "append"
             \/ pc = "answer" /\ \E j \in DOMAIN work : work[j].req = cmds[i].req
       \/ /\ was = "append" /\ pc = "answer" /\ UNCHANGED leads
          /\ work' = Append(work, Item(cmds[i].req))
       \/ /\ was = "answer" /\ pc = "ended" /\ status = cmds[i].status
          /\ UNCHANGED <<leads, work>>

Stage(i, pc, status, row) ==
    /\ Moves(i, pc, status) /\ Leg(i, pc, status, row)
    /\ leads' = leads \/ leads' = [leads EXCEPT ![cmds[i].req.leadId] = row]
    /\ leads' # leads => cmds[i].pc \in {"active", "status", "event"}

LEMMA ContinueStages ==
    ASSUME IInv, NEW i \in DOMAIN cmds, Continue(i) \/ Die(i)
    PROVE  i \in Running /\ \E pc, status, row : Stage(i, pc, status, row)
  <1> DEFINE old == leads[cmds[i].req.leadId]
             was == cmds[i].pc
             said == cmds[i].status
  <1>1. i \in Running
    BY DEF Continue, Die, Running, ListFails, ListBusy, ListFree, CreateEvent, SetActive,
           SetStatus, SetEvent, SetCell, SearchWork, AppendWork, Answer, At
  <1>2. said \in Statuses /\ old \in LeadRows
    BY <1>1, CommandFacts, RunningFacts
  <1>3. CASE Die(i)
    <2>1. End(i, "error") /\ "error" \in Statuses /\ UNCHANGED <<leads, work>>
      BY <1>3 DEF Die, Statuses
    <2>2. Moves(i, "ended", "error")
      BY <2>1, EndMoves
    <2>3. Stage(i, "ended", "error", old)
      BY <2>1, <2>2 DEF Stage, Leg
    <2>4. QED
      BY <1>1, <2>3
  <1>4. CASE ListFails(i) \/ ListBusy(i)
    <2>1. PICK status \in {"failed", "unavailable"} : End(i, status)
      BY <1>4 DEF ListFails, ListBusy
    <2>2. was = "list" /\ UNCHANGED <<leads, work>> /\ status \in Statuses
      BY <1>4 DEF ListFails, ListBusy, At, Statuses, Outcomes
    <2>3. Moves(i, "ended", status)
      BY <2>1, <2>2, EndMoves
    <2>4. Stage(i, "ended", status, old)
      BY <2>2, <2>3 DEF Stage, Leg
    <2>5. QED
      BY <1>1, <2>4
  <1>5. CASE ListFree(i)
    <2>1. Goto(i, "create") /\ was = "list" /\ UNCHANGED <<leads, work>> /\ "create" \in PCs
      BY <1>5 DEF ListFree, At, PCs
    <2>2. Moves(i, "create", said)
      BY <2>1, GotoMoves
    <2>3. Stage(i, "create", said, old)
      BY <2>1, <2>2 DEF Stage, Leg
    <2>4. QED
      BY <1>1, <2>3
  <1>6. CASE CreateEvent(i)
    <2>1. was = "create" /\ UNCHANGED <<leads, work>>
      BY <1>6 DEF CreateEvent, At
    <2>2. PICK status \in {"confirmed", "failed"} :
              cmds' = [cmds EXCEPT ![i] = [@ EXCEPT !.pc = "active", !.status = status]]
      BY <1>6 DEF CreateEvent
    <2> DEFINE c == [cmds[i] EXCEPT !.pc = "active", !.status = status]
    <2> status \in Statuses /\ "active" \in PCs
      BY DEF PCs, Statuses, Outcomes
    <2>3. /\ c \in Commands /\ c.req = cmds[i].req /\ c.raced = cmds[i].raced
          /\ c.pc = "active" /\ c.status = status
      BY CommandFacts DEF Commands
    <2>4. cmds' = [cmds EXCEPT ![i] = c]
      BY <2>2
    <2> HIDE DEF c
    <2>5. Moves(i, c.pc, c.status)
      BY <2>3, <2>4, ReplaceMoves
    <2>6. Stage(i, "active", status, old)
      BY <2>1, <2>3, <2>5 DEF Stage, Leg
    <2>7. QED
      BY <1>1, <2>6
  <1>7. CASE SetActive(i)
    <2> DEFINE row == [old EXCEPT !.active = cmds[i].req.id]
    <2>1. /\ was = "active" /\ Goto(i, "status") /\ "status" \in PCs /\ UNCHANGED work
          /\ leads' = [leads EXCEPT ![cmds[i].req.leadId] = row]
      BY <1>7 DEF SetActive, SetCell, At, Row, PCs
    <2>2. row.status = old.status
      BY <1>2 DEF LeadRows
    <2> HIDE DEF row
    <2>3. Moves(i, "status", said)
      BY <2>1, GotoMoves
    <2>4. Stage(i, "status", said, row)
      BY <2>1, <2>2, <2>3 DEF Stage, Leg
    <2>5. QED
      BY <1>1, <2>4
  <1>8. CASE SetStatus(i)
    <2> DEFINE row == [old EXCEPT !.status = StatusCell(said)]
               pc == IF said = "confirmed" THEN "event" ELSE "answer"
    <2>1. /\ was = "status" /\ Goto(i, pc) /\ pc \in PCs /\ UNCHANGED work
          /\ leads' = [leads EXCEPT ![cmds[i].req.leadId] = row]
      BY <1>8 DEF SetStatus, SetCell, At, Row, PCs
    <2>2. row.active = old.active /\ row.status = StatusCell(said)
      BY <1>2 DEF LeadRows
    <2> HIDE DEF row
    <2>3. Moves(i, pc, said)
      BY <2>1, GotoMoves
    <2>4. Stage(i, pc, said, row)
      BY <2>1, <2>2, <2>3 DEF Stage, Leg
    <2>5. QED
      BY <1>1, <2>4
  <1>9. CASE SetEvent(i)
    <2> DEFINE row == [old EXCEPT !.event = i]
    <2>1. /\ was = "event" /\ Goto(i, "enqueue") /\ "enqueue" \in PCs /\ UNCHANGED work
          /\ leads' = [leads EXCEPT ![cmds[i].req.leadId] = row]
      BY <1>9 DEF SetEvent, SetCell, At, Row, PCs
    <2>2. row.active = old.active /\ row.status = old.status
      BY <1>2 DEF LeadRows
    <2> HIDE DEF row
    <2>3. Moves(i, "enqueue", said)
      BY <2>1, GotoMoves
    <2>4. Stage(i, "enqueue", said, row)
      BY <2>1, <2>2, <2>3 DEF Stage, Leg
    <2>5. QED
      BY <1>1, <2>4
  <1>10. CASE SearchWork(i)
    <2> DEFINE pc == IF \E j \in DOMAIN work : work[j].req = cmds[i].req
                     THEN "answer" ELSE "append"
    <2>1. was = "enqueue" /\ Goto(i, pc) /\ pc \in PCs /\ UNCHANGED <<leads, work>>
      BY <1>10 DEF SearchWork, At, PCs
    <2>2. \/ pc = "append"
          \/ pc = "answer" /\ \E j \in DOMAIN work : work[j].req = cmds[i].req
      OBVIOUS
    <2> HIDE DEF pc
    <2>3. Moves(i, pc, said)
      BY <2>1, GotoMoves
    <2>4. Stage(i, pc, said, old)
      BY <2>1, <2>2, <2>3 DEF Stage, Leg
    <2>5. QED
      BY <1>1, <2>4
  <1>11. CASE AppendWork(i)
    <2>1. /\ was = "append" /\ Goto(i, "answer") /\ "answer" \in PCs /\ UNCHANGED leads
          /\ work' = Append(work, Item(cmds[i].req))
      BY <1>11 DEF AppendWork, At, PCs
    <2>2. Moves(i, "answer", said)
      BY <2>1, GotoMoves
    <2>3. Stage(i, "answer", said, old)
      BY <2>1, <2>2 DEF Stage, Leg
    <2>4. QED
      BY <1>1, <2>3
  <1>12. CASE Answer(i)
    <2>1. was = "answer" /\ Goto(i, "ended") /\ "ended" \in PCs /\ UNCHANGED <<leads, work>>
      BY <1>12 DEF Answer, At, PCs
    <2>2. Moves(i, "ended", said)
      BY <2>1, GotoMoves
    <2>3. Stage(i, "ended", said, old)
      BY <2>1, <2>2 DEF Stage, Leg
    <2>4. QED
      BY <1>1, <2>3
  <1>13. QED
    BY <1>3, <1>4, <1>5, <1>6, <1>7, <1>8, <1>9, <1>10, <1>11, <1>12 DEF Continue

(* A command that starts goes on only if the Lead it read has no booking.  *)
LEMMA StartJoins ==
    ASSUME IInv, NEW req \in Requests, Start(req)
    PROVE  /\ UNCHANGED <<leads, work>>
           /\ \E k, pc, status :
                 Joins(k, req, pc, status) /\ (pc # "ended" => ~ HasBooking(Row(req)))
  <1>1. PICK k : k = Len(cmds) + 1
    OBVIOUS
  <1>2. PICK pc \in PCs, status \in Statuses, replay \in BOOLEAN :
            Started(req, pc, status, replay) /\ (pc # "ended" => ~ HasBooking(Row(req)))
    BY DEF Start, Reject, Replay, AlreadyActive, OutsideWindow, NoCalendar, Proceed,
           PCs, Statuses, Outcomes
  <1>3. Joins(k, req, pc, status)
    BY <1>1, <1>2, StartedJoins
  <1>4. QED
    BY <1>2, <1>3 DEF Started

-----------------------------------------------------------------------------
(* While a confirmation is being sent: the Lead still has the booking, and *)
(* whoever may yet write to it was running when it was read; or one of     *)
(* those has been writing.  A command that starts finds the booking there, *)
(* and ends; so nobody joins them.                                         *)

Sending(item) ==
    \/ \E i \in item.rivals : MayHaveWritten(i)
    \/ StillConfirmed(item.req) /\ Commanding(item.req.leadId) \subseteq item.rivals

SendInv ==
    \A j \in DOMAIN work :
        /\ work[j].req.leadId \in LeadIds
        /\ work[j].rivals \subseteq DOMAIN cmds
        /\ work[j].state = "sending" => Sending(work[j])

LEMMA SendInvInit == Init => SendInv
  BY DEF Init, SendInv

LEMMA ItemFacts ==
    ASSUME IInv, NEW j \in DOMAIN work
    PROVE  work[j] \in Items /\ work[j].req \in Requests
  <1>1. work[j] \in Items
    BY DEF IInv, TypeOK
  <1>2. QED
    BY <1>1 DEF Items

LEMMA StartSends ==
    ASSUME IInv, SendInv, NEW req \in Requests, Start(req)
    PROVE  SendInv'
  <1>1. UNCHANGED <<leads, work>>
    BY StartJoins
  <1>2. PICK k, pc, status :
            Joins(k, req, pc, status) /\ (pc # "ended" => ~ HasBooking(Row(req)))
    BY StartJoins
  <1>3. /\ DOMAIN cmds' = DOMAIN cmds \cup {k} /\ k \notin DOMAIN cmds
        /\ \A i \in DOMAIN cmds :
              /\ cmds'[i].req = cmds[i].req /\ cmds'[i].pc = cmds[i].pc
              /\ cmds'[i].status = cmds[i].status
        /\ cmds'[k].req = req /\ cmds'[k].pc = pc
    BY <1>2 DEF Joins
  <1>4. \A i \in DOMAIN cmds : MayHaveWritten(i)' <=> MayHaveWritten(i)
    BY <1>3 DEF MayHaveWritten, Answered, At
  <1>5. ASSUME NEW j \in DOMAIN work, work[j].rivals \subseteq DOMAIN cmds, Sending(work[j])
        PROVE  Sending(work[j])'
    <2> DEFINE lead == work[j].req.leadId
    <2>1. CASE \E i \in work[j].rivals : MayHaveWritten(i)
      BY <1>1, <1>4, <1>5, <2>1 DEF Sending
    <2>2. CASE StillConfirmed(work[j].req) /\ Commanding(lead) \subseteq work[j].rivals
      <3>1. lead = req.leadId => HasBooking(Row(req))
        BY <2>2, ItemFacts, BookingAssumption DEF StillConfirmed, HasBooking, Row
      <3>2. Commanding(lead)' \subseteq Commanding(lead)
        BY <1>1, <1>2, <1>3, <3>1 DEF Commanding, Running
      <3>3. StillConfirmed(work[j].req)'
        BY <1>1, <2>2 DEF StillConfirmed, Row
      <3>4. QED
        BY <1>1, <2>2, <3>2, <3>3 DEF Sending
    <2>3. QED
      BY <1>5, <2>1, <2>2 DEF Sending
  <1>6. QED
    BY <1>1, <1>3, <1>5 DEF SendInv

(* What a command wrote, it has written.                                   *)
LEMMA WritingStays ==
    ASSUME IInv, NEW i \in DOMAIN cmds, NEW pc, NEW status, NEW row,
           Stage(i, pc, status, row)
    PROVE  /\ \A k \in DOMAIN cmds : MayHaveWritten(k) => MayHaveWritten(k)'
           /\ leads' # leads => MayHaveWritten(i)'
  <1>1. /\ i \in DOMAIN cmds' /\ cmds'[i].pc = pc /\ cmds'[i].status = status
        /\ \A k \in DOMAIN cmds : k # i => cmds'[k] = cmds[k]
        /\ Leg(i, pc, status, row)
        /\ leads' # leads => cmds[i].pc \in {"active", "status", "event"}
    BY DEF Stage, Moves
  <1>2. cmds[i].pc = "answer" => cmds[i].status \in Outcomes
    BY CommandFacts DEF Fits
  <1>3. MayHaveWritten(i) \/ leads' # leads => MayHaveWritten(i)'
    BY <1>1, <1>2 DEF Leg, MayHaveWritten, Answered, At, Outcomes
  <1>4. QED
    BY <1>1, <1>3 DEF MayHaveWritten, Answered, At

LEMMA ContinueSends ==
    ASSUME IInv, SendInv, NEW i \in DOMAIN cmds, Continue(i) \/ Die(i)
    PROVE  SendInv'
  <1>1. PICK pc, status, row : Stage(i, pc, status, row)
    BY ContinueStages
  <1>2. i \in Running /\ Moves(i, pc, status)
    BY <1>1, ContinueStages DEF Stage
  <1>3. /\ \A k \in DOMAIN cmds : MayHaveWritten(k) => MayHaveWritten(k)'
        /\ leads' # leads => MayHaveWritten(i)'
    BY <1>1, WritingStays
  <1>4. /\ DOMAIN cmds' = DOMAIN cmds
        /\ \A k \in DOMAIN cmds : cmds'[k].req = cmds[k].req
        /\ Running' \subseteq Running
    BY <1>2, MoveRaces DEF Moves
  <1>5. leads' = leads \/ leads' = [leads EXCEPT ![cmds[i].req.leadId] = row]
    BY <1>1 DEF Stage
  <1>6. ASSUME NEW item, item.req.leadId \in LeadIds, item.rivals \subseteq DOMAIN cmds,
               Sending(item)
        PROVE  (\E k \in item.rivals : MayHaveWritten(k)')
               \/ (StillConfirmed(item.req)' /\ Commanding(item.req.leadId)' \subseteq item.rivals)
    <2> DEFINE lead == item.req.leadId
    <2>1. CASE \E k \in item.rivals : MayHaveWritten(k)
      BY <1>3, <1>6, <2>1
    <2>2. CASE StillConfirmed(item.req) /\ Commanding(lead) \subseteq item.rivals
      <3>1. Commanding(lead)' \subseteq Commanding(lead)
        BY <1>4 DEF Commanding, Running
      <3>2. CASE leads' # leads /\ cmds[i].req.leadId = lead
        <4>1. i \in item.rivals
          BY <1>2, <2>2, <3>2 DEF Commanding
        <4>2. QED
          BY <1>3, <3>2, <4>1
      <3>3. CASE leads' = leads \/ cmds[i].req.leadId # lead
        <4>1. leads'[lead] = leads[lead]
          BY <1>5, <1>6, <3>3 DEF IInv, TypeOK
        <4>2. StillConfirmed(item.req)'
          BY <2>2, <4>1 DEF StillConfirmed, Row
        <4>3. QED
          BY <2>2, <3>1, <4>2
      <3>4. QED
        BY <3>2, <3>3
    <2>3. QED
      BY <1>6, <2>1, <2>2 DEF Sending
  <1>7. \A j \in DOMAIN work' :
            \/ j \in DOMAIN work /\ work'[j] = work[j]
            \/ /\ work'[j].rivals = {} /\ work'[j].state = "pending"
               /\ work'[j].req = cmds[i].req
    <2>1. work \in Seq(Items)
      BY DEF IInv, TypeOK
    <2>2. work' = work \/ work' = Append(work, Item(cmds[i].req))
      BY <1>1 DEF Stage, Leg
    <2>3. /\ Item(cmds[i].req).rivals = {} /\ Item(cmds[i].req).state = "pending"
          /\ Item(cmds[i].req).req = cmds[i].req
      BY DEF Item
    <2> HIDE DEF Item
    <2>4. QED
      BY <2>1, <2>2, <2>3
  <1>8. ASSUME NEW j \in DOMAIN work'
        PROVE  /\ work'[j].req.leadId \in LeadIds
               /\ work'[j].rivals \subseteq DOMAIN cmds
               /\ work'[j].state = "sending" => Sending(work[j])'
    <2>1. CASE /\ work'[j].rivals = {} /\ work'[j].state = "pending"
               /\ work'[j].req = cmds[i].req
      BY <1>2, <2>1, RunningFacts
    <2>2. CASE j \in DOMAIN work /\ work'[j] = work[j]
      BY <1>6, <2>2 DEF SendInv, Sending
    <2>3. QED
      BY <1>7, <2>1, <2>2
  <1>9. QED
    BY <1>4, <1>8 DEF SendInv

LEMMA DeliverSends ==
    ASSUME IInv, SendInv, Deliver
    PROVE  SendInv'
  <1>1. /\ UNCHANGED <<leads, cmds>> /\ DOMAIN work' = DOMAIN work
        /\ \A j \in DOMAIN work :
              /\ work'[j].req = work[j].req
              /\ \/ work'[j] = work[j]
                 \/ work'[j].rivals = {} /\ work'[j].state # "sending"
                 \/ /\ work'[j].rivals = Commanding(work[j].req.leadId)
                    /\ StillConfirmed(work[j].req)
    BY DeliverMarks
  <1>2. \A lead : Commanding(lead)' = Commanding(lead) /\ Commanding(lead) \subseteq DOMAIN cmds
    BY <1>1 DEF Commanding, Running
  <1>3. /\ \A i : MayHaveWritten(i)' <=> MayHaveWritten(i)
        /\ \A r : StillConfirmed(r)' <=> StillConfirmed(r)
    BY <1>1 DEF MayHaveWritten, Answered, At, StillConfirmed, Row
  <1>4. ASSUME NEW j \in DOMAIN work
        PROVE  /\ work'[j].req.leadId \in LeadIds
               /\ work'[j].rivals \subseteq DOMAIN cmds
               /\ work'[j].state = "sending" => Sending(work[j])'
    BY <1>1, <1>2, <1>3 DEF SendInv, Sending
  <1>5. QED
    BY <1>1, <1>4 DEF SendInv

LEMMA SendInvNext == IInv /\ SendInv /\ [Next]_vars => SendInv'
  <1> SUFFICES ASSUME IInv, SendInv, [Next]_vars PROVE SendInv'
    OBVIOUS
  <1>1. ASSUME UNCHANGED <<leads, work, cmds>> PROVE SendInv'
    BY <1>1 DEF SendInv, Sending, MayHaveWritten, Answered, At, StillConfirmed, Row,
                Commanding, Running
  <1>2. ASSUME NEW req \in Requests, Start(req) PROVE SendInv'
    BY <1>2, StartSends
  <1>3. ASSUME NEW i \in DOMAIN cmds, Continue(i) \/ Die(i) PROVE SendInv'
    BY <1>3, ContinueSends
  <1>4. CASE Deliver
    BY <1>4, DeliverSends
  <1>5. QED
    BY <1>1, <1>2, <1>3, <1>4 DEF Next, vars, PartnerClears

(* The confirmation and the Lead: between its reading and the sending the  *)
(* handler holds no lock against the commands, and yet no command that     *)
(* starts in between can take the booking from the Lead; only one that was *)
(* running at the reading can (handleSendBookingConfirmation).             *)
THEOREM BookingMailMatchesLead == Spec => []MailMatchesLead
  <1>1. SendInv => MailMatchesLead
    BY DEF SendInv, Sending, MailMatchesLead
  <1>2. QED
    BY <1>1, InductiveInvariant, SendInvInit, SendInvNext, PTL DEF Spec

-----------------------------------------------------------------------------
(* The booking a Lead records is promised a confirmation: there is one in  *)
(* the queue, or a command of that request will see to it, or died before  *)
(* it had.                                                                 *)

Promised(r) ==
    \/ \E j \in DOMAIN work : work[j].req = r
    \/ \E i \in DOMAIN cmds :
          /\ cmds[i].req = r
          /\ cmds[i].pc \in {"event", "enqueue", "append"} \/ Answered(i, "error")

QueueInv ==
    \A l \in LeadIds : ~ LeadRaced(l) =>
        \A r \in Requests :
            /\ r.leadId = l /\ leads[l].status = "booked" /\ leads[l].active = r.id
            => Promised(r)

LEMMA QueueInvInit == Init => QueueInv
  BY DEF Init, QueueInv, Blank

LEMMA JoinsRaces ==
    ASSUME IInv, NEW k, NEW req, NEW pc, NEW status, Joins(k, req, pc, status),
           NEW l, LeadRaced(l)
    PROVE  LeadRaced(l)'
  <1>1. PICK i \in DOMAIN cmds : \E j \in cmds[i].raced :
            cmds[i].req.leadId = l /\ cmds[j].req.leadId = l
    BY DEF LeadRaced
  <1>2. PICK j \in cmds[i].raced : cmds[i].req.leadId = l /\ cmds[j].req.leadId = l
    BY <1>1
  <1>3. j \in DOMAIN cmds
    BY CommandFacts
  <1>4. /\ i \in DOMAIN cmds' /\ j \in cmds'[i].raced
        /\ cmds'[i].req.leadId = l /\ cmds'[j].req.leadId = l
    BY <1>2, <1>3 DEF Joins
  <1>5. QED
    BY <1>4 DEF LeadRaced

LEMMA StartQueues ==
    ASSUME IInv, QueueInv, NEW req \in Requests, Start(req)
    PROVE  QueueInv'
  <1>1. UNCHANGED <<leads, work>>
    BY StartJoins
  <1>2. PICK k, pc, status : Joins(k, req, pc, status)
    BY StartJoins
  <1>3. \A l : LeadRaced(l) => LeadRaced(l)'
    BY <1>2, JoinsRaces
  <1>4. \A i \in DOMAIN cmds :
            /\ i \in DOMAIN cmds' /\ cmds'[i].req = cmds[i].req
            /\ cmds'[i].pc = cmds[i].pc /\ cmds'[i].status = cmds[i].status
    BY <1>2 DEF Joins
  <1>5. \A r : Promised(r) => Promised(r)'
    BY <1>1, <1>4 DEF Promised, Answered, At
  <1>6. QED
    BY <1>1, <1>3, <1>5 DEF QueueInv

(* A promise is kept, or broken by a death alone.                          *)
LEMMA StagePromises ==
    ASSUME IInv, NEW i \in Running, NEW pc, NEW status, NEW row,
           Stage(i, pc, status, row), NEW r, Promised(r)
    PROVE  Promised(r)'
  <1>1. /\ i \in DOMAIN cmds /\ DOMAIN cmds' = DOMAIN cmds /\ cmds[i].pc # "ended"
        /\ cmds'[i].pc = pc /\ cmds'[i].status = status /\ cmds'[i].req = cmds[i].req
        /\ \A k \in DOMAIN cmds : k # i => cmds'[k] = cmds[k]
        /\ Leg(i, pc, status, row)
    BY DEF Stage, Moves, Running
  <1>2. /\ \A j \in DOMAIN work : j \in DOMAIN work' /\ work'[j].req = work[j].req
        /\ work' = Append(work, Item(cmds[i].req)) =>
              \E j \in DOMAIN work' : work'[j].req = cmds[i].req
    <2>1. work \in Seq(Items) /\ Item(cmds[i].req).req = cmds[i].req
      BY DEF IInv, TypeOK, Item
    <2>2. work' = work \/ work' = Append(work, Item(cmds[i].req))
      BY <1>1 DEF Leg
    <2> HIDE DEF Item
    <2>3. CASE work' = Append(work, Item(cmds[i].req))
      <3>1. /\ DOMAIN work' = DOMAIN work \cup {Len(work) + 1}
            /\ \A j \in DOMAIN work : work'[j] = work[j]
            /\ work'[Len(work) + 1] = Item(cmds[i].req)
        BY <2>1, <2>3
      <3>2. QED
        BY <2>1, <3>1
    <2>4. CASE work' = work
      <3>1. \A j \in DOMAIN work : j \in DOMAIN work' /\ work'[j].req = work[j].req
        BY <2>4
      <3>2. QED
        BY <2>3, <3>1
    <2>5. QED
      BY <2>2, <2>3, <2>4
  <1>3. CASE \E j \in DOMAIN work : work[j].req = r
    BY <1>2, <1>3 DEF Promised
  <1>4. CASE \E k \in DOMAIN cmds : /\ k # i /\ cmds[k].req = r
                                    /\ \/ cmds[k].pc \in {"event", "enqueue", "append"}
                                       \/ Answered(k, "error")
    BY <1>1, <1>4 DEF Promised, Answered, At
  <1>5. CASE cmds[i].req = r /\ cmds[i].pc \in {"event", "enqueue", "append"}
    <2>1. \/ pc \in {"event", "enqueue", "append"}
          \/ pc = "ended" /\ status = "error"
          \/ \E j \in DOMAIN work : work[j].req = cmds[i].req
          \/ work' = Append(work, Item(cmds[i].req))
      BY <1>1, <1>5 DEF Leg
    <2>2. QED
      BY <1>1, <1>2, <1>5, <2>1 DEF Promised, Answered, At
  <1>6. QED
    BY <1>1, <1>3, <1>4, <1>5 DEF Promised, Answered, At

LEMMA ContinueQueues ==
    ASSUME IInv, QueueInv, NEW i \in DOMAIN cmds, Continue(i) \/ Die(i)
    PROVE  QueueInv'
  <1> DEFINE lead == cmds[i].req.leadId
  <1>1. PICK pc, status, row : Stage(i, pc, status, row)
    BY ContinueStages
  <1>2. i \in Running /\ Moves(i, pc, status)
    BY <1>1, ContinueStages DEF Stage
  <1>3. \A l : LeadRaced(l)' <=> LeadRaced(l)
    BY <1>2, MoveRaces
  <1>4. \A r : Promised(r) => Promised(r)'
    BY <1>1, <1>2, StagePromises
  <1>5. /\ lead \in LeadIds /\ leads \in [LeadIds -> LeadRows]
        /\ cmds[i].req \in Requests /\ i \in DOMAIN cmds'
        /\ cmds'[i].pc = pc /\ cmds'[i].req = cmds[i].req
        /\ status \in Statuses
    <2>1. i \in DOMAIN cmds' /\ cmds' \in Seq(Commands) /\ cmds'[i].status = status
      BY <1>2 DEF Moves
    <2>2. cmds'[i] \in Commands
      BY <2>1
    <2>3. status \in Statuses
      BY <2>1, <2>2 DEF Commands
    <2>4. QED
      BY <1>2, <2>3, RunningFacts, CommandFacts DEF IInv, TypeOK, Moves
  <1>6. /\ leads' = leads \/ leads' = [leads EXCEPT ![lead] = row]
        /\ leads' # leads => cmds[i].pc \in {"active", "status", "event"}
        /\ Leg(i, pc, status, row)
    BY <1>1 DEF Stage
  <1>7. ASSUME ~ LeadRaced(lead), leads' # leads, row.status = "booked"
        PROVE  \/ leads[lead].status = "booked" /\ row.active = leads[lead].active
               \/ pc = "event" /\ row.active = cmds[i].req.id
    <2>1. Cells(cmds[i].pc, cmds[i].status, cmds[i].req, leads[lead])
      BY <1>2, <1>7, CellsNow
    <2>2. CASE cmds[i].pc = "active"
      BY <1>6, <1>7, <2>1, <2>2 DEF Leg, Cells
    <2>3. CASE cmds[i].pc = "status"
      <3>1. leads[lead].active = cmds[i].req.id
        BY <2>1, <2>3 DEF Cells
      <3>2. /\ pc = (IF status = "confirmed" THEN "event" ELSE "answer")
            /\ row.active = leads[lead].active /\ row.status = StatusCell(status)
        BY <1>6, <1>7, <2>3 DEF Leg
      <3>3. status = "confirmed"
        BY <1>5, <1>7, <3>2 DEF StatusCell, Statuses, Outcomes
      <3>4. QED
        BY <3>1, <3>2, <3>3
    <2>4. CASE cmds[i].pc = "event"
      BY <1>6, <1>7, <2>1, <2>4 DEF Leg, Cells
    <2>5. QED
      BY <1>6, <1>7, <2>2, <2>3, <2>4
  <1>8. ASSUME NEW l \in LeadIds, ~ LeadRaced(l), NEW r \in Requests, r.leadId = l,
               leads'[l].status = "booked", leads'[l].active = r.id
        PROVE  Promised(r)'
    <2>1. CASE leads[l].status = "booked" /\ leads[l].active = r.id
      BY <1>4, <1>8, <2>1 DEF QueueInv
    <2>2. CASE ~ (leads[l].status = "booked" /\ leads[l].active = r.id)
      <3>1. l = lead /\ leads' # leads /\ leads'[l] = row
        BY <1>5, <1>6, <1>8, <2>2
      <3>2. pc = "event" /\ row.active = cmds[i].req.id
        BY <1>7, <1>8, <2>2, <3>1
      <3>3. r = cmds[i].req
        BY <1>5, <1>8, <3>1, <3>2, BookingAssumption
      <3>4. QED
        BY <1>5, <3>2, <3>3 DEF Promised
    <2>3. QED
      BY <2>1, <2>2
  <1>9. QED
    BY <1>3, <1>8 DEF QueueInv

LEMMA QueueInvNext == IInv /\ QueueInv /\ [Next]_vars => QueueInv'
  <1> SUFFICES ASSUME IInv, QueueInv, [Next]_vars PROVE QueueInv'
    OBVIOUS
  <1>1. ASSUME UNCHANGED <<leads, cmds>>, DOMAIN work' = DOMAIN work,
               \A j \in DOMAIN work : work'[j].req = work[j].req
        PROVE  QueueInv'
    BY <1>1 DEF QueueInv, Promised, Answered, At, LeadRaced
  <1>2. ASSUME NEW req \in Requests, Start(req) PROVE QueueInv'
    BY <1>2, StartQueues
  <1>3. ASSUME NEW i \in DOMAIN cmds, Continue(i) \/ Die(i) PROVE QueueInv'
    BY <1>3, ContinueQueues
  <1>4. CASE Deliver
    BY <1>1, <1>4, DeliverMarks
  <1>5. CASE PartnerClears \/ UNCHANGED vars
    BY <1>1, <1>5 DEF PartnerClears, vars
  <1>6. QED
    BY <1>2, <1>3, <1>4, <1>5 DEF Next

(* Who was told confirmed has a confirmation in the queue, unless a        *)
(* command for that very request died before it was there: for any other   *)
(* reason no booking is recorded and its mail forgotten (the cells, the    *)
(* enqueue and the replay of executeBookingCommand).                       *)
THEOREM BookingConfirmationQueued == Spec => []ConfirmationQueued
  <1>1. ASSUME IInv, QueueInv, NEW i \in DOMAIN cmds, Answered(i, "confirmed"),
               ~ LeadRaced(cmds[i].req.leadId)
        PROVE  \/ \E j \in DOMAIN work : work[j].req = cmds[i].req
               \/ \E k \in DOMAIN cmds : cmds[k].req = cmds[i].req /\ Answered(k, "error")
    <2> DEFINE r == cmds[i].req
    <2>1. r \in Requests /\ r.leadId \in LeadIds
      BY <1>1, CommandFacts, BookableLead DEF Answered, Fits
    <2>2. /\ leads[r.leadId].status = "booked" /\ leads[r.leadId].active = r.id
          /\ \A k \in Running : cmds[k].req.leadId # r.leadId
      BY <1>1, <2>1 DEF IInv, LeadInv
    <2>3. Promised(r)
      BY <1>1, <2>1, <2>2 DEF QueueInv
    <2>4. \A k \in DOMAIN cmds :
              cmds[k].req = r => cmds[k].pc \notin {"event", "enqueue", "append"}
      BY <2>2 DEF Running
    <2>5. QED
      BY <2>3, <2>4 DEF Promised
  <1>2. IInv /\ QueueInv => ConfirmationQueued
    BY <1>1 DEF ConfirmationQueued
  <1>3. QED
    BY <1>2, InductiveInvariant, QueueInvInit, QueueInvNext, PTL DEF Spec

-----------------------------------------------------------------------------
(* Scheduling.  The inductive invariant: the client's live envelope is one *)
(* of the visitor's own requests under its own id, and there is one        *)
(* whenever a call is awaited: an answer that names the id is about that   *)
(* request.                                                                *)

Envelopes == {[id |-> r.id, req |-> r] : r \in Own}

Clients ==
    [envelope : {A!NoEnvelope} \cup Envelopes,
     status : {"idle", "sending", "failed", "succeeded"},
     retryable : BOOLEAN, exhausted : BOOLEAN, inFlight : BOOLEAN]

ClientInv ==
    /\ client \in Clients
    /\ flight # NoCmd => client.envelope \in Envelopes

(* What was shown as scheduled, a command of the visitor's has confirmed.  *)
ToldInv ==
    \A r \in told : /\ r \in Own
                    /\ \E i \in DOMAIN cmds : Answered(i, "confirmed") /\ cmds[i].req = r

VInv == ClientInv /\ ToldInv

-----------------------------------------------------------------------------
(* The client.                                                             *)

LEMMA EnvelopeFacts ==
    ASSUME NEW e \in Envelopes
    PROVE  e.req \in Own /\ e.req \in Requests /\ e.id = e.req.id
  BY DEF Envelopes, Own

(* A live envelope is a request; without one there is nothing to send.     *)
LEMMA LiveEnvelope ==
    ASSUME NEW c \in Clients, A!Live(c)
    PROVE  c.envelope \in Envelopes
  BY DEF A!Live, Clients

LEMMA BegunClient ==
    ASSUME NEW e \in Envelopes
    PROVE  A!Begun(e) \in Clients /\ A!Begun(e).envelope = e
  BY DEF A!Begun, A!Idle, Clients

LEMMA SendingClient ==
    ASSUME NEW c \in Clients
    PROVE  A!Sending(c) \in Clients /\ A!Sending(c).envelope = c.envelope
  BY DEF A!Sending, Clients

LEMMA AppliedClient ==
    ASSUME NEW c \in Clients, NEW result, result.exhausted \in BOOLEAN
    PROVE  A!Applied(c, result) \in Clients
  <1>1. [A!Idle EXCEPT !.status = "succeeded"] \in Clients
    BY DEF A!Idle, Clients
  <1>2. (result.outcome = "retryable" /\ ~ result.exhausted) \in BOOLEAN
    OBVIOUS
  <1>3. [c EXCEPT !.status = "failed", !.inFlight = FALSE,
                  !.retryable = result.outcome = "retryable" /\ ~ result.exhausted,
                  !.exhausted = result.exhausted] \in Clients
    BY <1>2 DEF Clients
  <1>4. QED
    BY <1>1, <1>3 DEF A!Applied

(* What the client makes of a reply is a result; a success names this very *)
(* request and its confirmation.                                           *)
LEMMA ReadFacts ==
    ASSUME NEW body, NEW sent
    PROVE  /\ A!ReadBooking(body, sent).exhausted \in BOOLEAN
           /\ A!ReadBooking(body, sent).outcome = "ok" =>
                 /\ body.typed /\ body.status = "confirmed"
                 /\ body.ok => body.id = sent.id
  BY DEF A!ReadBooking, A!ClassifyBooking, A!NetworkFailure, A!Result

LEMMA NetworkFailureFacts ==
    A!NetworkFailure.exhausted \in BOOLEAN /\ A!NetworkFailure.outcome # "ok"
  BY DEF A!NetworkFailure, A!Result

-----------------------------------------------------------------------------
(* The backend goes on as the one of Booking does.                         *)

(* An answer, once given, stands.                                          *)
AnswersStand ==
    \A i \in DOMAIN cmds : At(i, "ended") =>
        /\ i \in DOMAIN cmds'
        /\ cmds'[i].pc = "ended"
        /\ cmds'[i].status = cmds[i].status /\ cmds'[i].req = cmds[i].req

LEMMA StartedStands ==
    ASSUME IInv, NEW req, NEW pc, NEW status, NEW replay,
           Started(req, pc, status, replay)
    PROVE  AnswersStand
  <1> DEFINE older == [i \in DOMAIN cmds |->
                          IF i \in Running
                          THEN [cmds[i] EXCEPT !.raced = @ \cup {Len(cmds) + 1}]
                          ELSE cmds[i]]
             newest == [req |-> req, pc |-> pc, status |-> status, replay |-> replay,
                        raced |-> Running]
  <1>1. cmds \in Seq(Commands)
    BY DEF IInv, TypeOK
  <1>2. older \in Seq({older[i] : i \in DOMAIN cmds}) /\ DOMAIN older = DOMAIN cmds
    BY <1>1
  <1>3. \A i \in DOMAIN cmds : At(i, "ended") => older[i] = cmds[i]
    BY DEF At, Running
  <1>4. cmds' = Append(older, newest)
    BY DEF Started
  <1> HIDE DEF older, newest
  <1>5. \A i \in DOMAIN cmds : i \in DOMAIN cmds' /\ cmds'[i] = older[i]
    BY <1>2, <1>4
  <1>6. QED
    BY <1>3, <1>5 DEF AnswersStand, At

LEMMA BackendAnswersStand ==
    ASSUME IInv, [Next]_vars
    PROVE  AnswersStand
  <1>1. ASSUME NEW req \in Requests, Start(req)
        PROVE  AnswersStand
    BY <1>1, StartedStands
       DEF Start, Reject, Replay, AlreadyActive, OutsideWindow, NoCalendar, Proceed
  <1>2. ASSUME NEW i \in DOMAIN cmds, Continue(i) \/ Die(i)
        PROVE  AnswersStand
    <2>1. cmds[i].pc # "ended"
      BY <1>2 DEF Continue, Die, Running, ListFails, ListBusy, ListFree, CreateEvent,
                  SetActive, SetStatus, SetEvent, SetCell, SearchWork, AppendWork, Answer, At
    <2>2. \E c : cmds' = [cmds EXCEPT ![i] = c]
      BY <1>2 DEF Continue, Die, ListFails, ListBusy, ListFree, CreateEvent, Goto, End,
                  SetActive, SetStatus, SetEvent, SetCell, SearchWork, AppendWork, Answer
    <2>3. QED
      BY <2>1, <2>2 DEF AnswersStand, At, IInv, TypeOK
  <1>3. ASSUME UNCHANGED cmds
        PROVE  AnswersStand
    BY <1>3 DEF AnswersStand, At
  <1>4. QED
    BY <1>1, <1>2, <1>3 
       DEF Next, vars, PartnerClears, Deliver, CheckLead, Withhold, Mail, NotMailed, Becomes

(* What has been shown stays confirmed.                                    *)
LEMMA ToldStands ==
    ASSUME ToldInv, AnswersStand, told' = told
    PROVE  ToldInv'
  BY DEF ToldInv, AnswersStand, Answered, At

-----------------------------------------------------------------------------
(* Every step of the visitor is a step of the backend, or none.            *)

(* A call that leaves: it starts a command, or it is lost on the way.      *)
LEMMA SendStep ==
    ASSUME IInv, VInv, NEW c \in Clients, c.envelope \in Envelopes, Send(c)
    PROVE  [Next]_vars /\ VInv'
  <1>1. c.envelope.req \in Requests
    BY EnvelopeFacts
  <1>2. [Next]_vars
    BY <1>1 DEF Send, Next, vars, backend
  <1>3. client' \in Clients /\ client'.envelope \in Envelopes
    BY SendingClient DEF Send
  <1>4. told' = told
    BY DEF Send
  <1>5. ToldInv'
    BY <1>2, <1>4, BackendAnswersStand, ToldStands DEF VInv
  <1>6. ClientInv'
    BY <1>3 DEF ClientInv
  <1>7. QED
    BY <1>2, <1>5, <1>6 DEF VInv

(* A result: nothing of the backend moves, and a success is backed by a    *)
(* command that confirmed this very request.                               *)
LEMMA ApplyStep ==
    ASSUME IInv, VInv, NEW result, Apply(result), flight # NoCmd,
           result.exhausted \in BOOLEAN,
           result.outcome = "ok" =>
              \E i \in DOMAIN cmds :
                  Answered(i, "confirmed") /\ cmds[i].req.id = client.envelope.id
    PROVE  [Next]_vars /\ VInv'
  <1>1. UNCHANGED backend
    BY DEF Apply
  <1>2. client' \in Clients /\ flight' = NoCmd
    BY AppliedClient DEF Apply, VInv, ClientInv
  <1>3. client.envelope \in Envelopes
    BY DEF VInv, ClientInv
  <1>4. ASSUME result.outcome = "ok"
        PROVE  \E i \in DOMAIN cmds :
                   Answered(i, "confirmed") /\ cmds[i].req = client.envelope.req
    <2>1. PICK i \in DOMAIN cmds :
              Answered(i, "confirmed") /\ cmds[i].req.id = client.envelope.id
      BY <1>4
    <2>2. cmds[i].req \in Requests
      BY CommandFacts
    <2>3. QED
      BY <1>3, <2>1, <2>2, EnvelopeFacts, BookingAssumption
  <1>5. \A r \in told' : r \in told \/ (result.outcome = "ok" /\ r = client.envelope.req)
    BY DEF Apply
  <1>6. cmds' = cmds
    BY <1>1 DEF backend
  <1>7. ToldInv'
    BY <1>3, <1>4, <1>5, <1>6, EnvelopeFacts DEF VInv, ToldInv, Answered, At
  <1>8. ClientInv'
    BY <1>2 DEF ClientInv
  <1>9. QED
    BY <1>1, <1>7, <1>8 DEF VInv, vars, backend

(* Nothing but the screen moves.                                           *)
LEMMA IdleStep ==
    ASSUME VInv, UNCHANGED <<backend, client, flight, told>>
    PROVE  [Next]_vars /\ VInv'
  BY DEF VInv, ClientInv, ToldInv, Answered, At, vars, backend

LEMMA PressStep ==
    ASSUME IInv, VInv, Press
    PROVE  [Next]_vars /\ VInv'
  <1>1. CASE ConfirmRefused
    BY <1>1, IdleStep DEF ConfirmRefused, Refused
  <1>2. ASSUME NEW req \in Requests, ConfirmNew(req)
        PROVE  [Next]_vars /\ VInv'
    <2> DEFINE e == [id |-> req.id, req |-> req]
    <2>1. e \in Envelopes /\ Send(A!Begun(e))
      BY <1>2 DEF ConfirmNew, Envelopes
    <2> HIDE DEF e
    <2>2. A!Begun(e) \in Clients /\ A!Begun(e).envelope \in Envelopes
      BY <2>1, BegunClient
    <2>3. QED
      BY <2>1, <2>2, SendStep
  <1>3. CASE ConfirmAgain \/ Retry
    <2>1. Send(client) /\ A!Live(client)
      BY <1>3 DEF ConfirmAgain, Retry, A!NeedsNew, A!RefusesRetry
    <2>2. client \in Clients
      BY DEF VInv, ClientInv
    <2>3. QED
      BY <2>1, <2>2, LiveEnvelope, SendStep
  <1>4. QED
    BY <1>1, <1>2, <1>3 DEF Press

LEMMA ResultStep ==
    ASSUME IInv, VInv, Receive \/ NeverArrived \/ TimeOut \/ AnsweredElsewhere
    PROVE  [Next]_vars /\ VInv'
  <1>1. cmds \in Seq(Commands) /\ MaxPosts \in Nat
    BY BookingAssumption DEF IInv, TypeOK
  <1>2. flight # NoCmd
    BY <1>1 DEF Receive, NeverArrived, TimeOut, AnsweredElsewhere, NoCmd, LostCmd
  <1>3. ASSUME Apply(A!NetworkFailure)
        PROVE  [Next]_vars /\ VInv'
    BY <1>2, <1>3, NetworkFailureFacts, ApplyStep
  <1>4. ASSUME NEW body, Apply(A!ReadBooking(body, Sent)),
               \/ \E i \in DOMAIN cmds : At(i, "ended") /\ body = BodyOf(i)
               \/ ~ body.typed
        PROVE  [Next]_vars /\ VInv'
    <2>1. ASSUME A!ReadBooking(body, Sent).outcome = "ok"
          PROVE  \E i \in DOMAIN cmds :
                     Answered(i, "confirmed") /\ cmds[i].req.id = client.envelope.id
      <3>1. /\ body.typed /\ body.status = "confirmed"
            /\ body.ok => body.id = Sent.id
        BY <2>1, ReadFacts
      <3>2. PICK i \in DOMAIN cmds : At(i, "ended") /\ body = BodyOf(i)
        BY <1>4, <3>1
      <3>3. QED
        BY <3>1, <3>2 DEF BodyOf, Answered, Sent
    <2>2. QED
      BY <1>2, <1>4, <2>1, ReadFacts, ApplyStep
  <1>5. ~ A!NoBody.typed /\ ~ A!Generic.typed
    BY DEF A!NoBody, A!Generic
  <1>6. CASE Receive
    BY <1>4, <1>5, <1>6 DEF Receive
  <1>7. CASE NeverArrived \/ TimeOut
    BY <1>3, <1>7 DEF NeverArrived, TimeOut
  <1>8. CASE AnsweredElsewhere
    BY <1>4, <1>5, <1>8 DEF AnsweredElsewhere
  <1>9. QED
    BY <1>6, <1>7, <1>8

(* Commands run on or die, partners clear, confirmations are mailed.       *)
LEMMA WorldStep ==
    ASSUME IInv, VInv, Serve \/ Fail \/ Others
    PROVE  [Next]_vars /\ VInv'
  <1>1. Next
    BY DEF Serve, Fail, Others, Next
  <1>2. UNCHANGED <<client, flight, told>>
    BY DEF Serve, Fail, Others, visitor
  <1>3. ToldInv'
    BY <1>1, <1>2, BackendAnswersStand, ToldStands DEF VInv
  <1>4. QED
    BY <1>1, <1>2, <1>3 DEF VInv, ClientInv

LEMMA InitVInv == SchedulingInit => Init /\ VInv
  <1>1. A!Idle \in Clients
    BY DEF A!Idle, Clients
  <1>2. QED
    BY <1>1 DEF SchedulingInit, VInv, ClientInv, ToldInv

LEMMA NextVInv ==
    IInv /\ VInv /\ [SchedulingNext]_schedulingVars => [Next]_vars /\ VInv'
  <1> SUFFICES ASSUME IInv, VInv, [SchedulingNext]_schedulingVars
               PROVE  [Next]_vars /\ VInv'
    OBVIOUS
  <1>1. CASE Pickers \/ UNCHANGED schedulingVars
    BY <1>1, IdleStep DEF Pickers, Choose, schedulingVars, visitor
  <1>2. CASE Press
    BY <1>2, PressStep
  <1>3. CASE Receive \/ NeverArrived \/ TimeOut \/ AnsweredElsewhere
    BY <1>3, ResultStep
  <1>4. CASE Serve \/ Fail \/ Others
    BY <1>4, WorldStep
  <1>5. QED
    BY <1>1, <1>2, <1>3, <1>4 DEF SchedulingNext

-----------------------------------------------------------------------------
(* The invariant of the composition: that of the backend, and the visitor's*)
(* own.                                                                    *)
THEOREM SchedulingInductiveInvariant == SchedulingSpec => [](IInv /\ VInv)
  <1>1. SchedulingInit => IInv /\ VInv
    BY InitVInv, InitIInv
  <1>2. IInv /\ VInv /\ [SchedulingNext]_schedulingVars => (IInv /\ VInv)'
    BY NextVInv, NextIInv
  <1>3. QED
    BY <1>1, <1>2, PTL DEF SchedulingSpec

(* Whatever the visitor, the client and the network do, the backend they   *)
(* drive behaves as Booking says: the theorems about it hold here as well. *)
THEOREM SchedulingDrivesBooking == SchedulingSpec => Spec
  <1>1. SchedulingInit => Init
    BY InitVInv
  <1>2. IInv /\ VInv /\ [SchedulingNext]_schedulingVars => [Next]_vars
    BY NextVInv
  <1>3. QED
    BY <1>1, <1>2, SchedulingInductiveInvariant, PTL DEF SchedulingSpec, Spec

(* Nobody is shown "your call is scheduled" for a request no event was     *)
(* created for, through timeouts, retries, deaths and answers of others,   *)
(* unless two commands of this visitor's overlapped.                       *)
THEOREM SchedulingScheduledIsHeld == SchedulingSpec => []ScheduledIsHeld
  <1>1. VInv /\ ConfirmedWasHeld => ScheduledIsHeld
    <2> SUFFICES ASSUME VInv, ConfirmedWasHeld, ~ LeadRaced(Visitor), NEW r \in told
                 PROVE  r \in held
      BY DEF ScheduledIsHeld
    <2>1. r.leadId = Visitor
      BY DEF VInv, ToldInv, Own
    <2>2. PICK i \in DOMAIN cmds : Answered(i, "confirmed") /\ cmds[i].req = r
      BY DEF VInv, ToldInv
    <2>3. QED
      BY <2>1, <2>2 DEF ConfirmedWasHeld
  <1>2. QED
    BY <1>1, SchedulingInductiveInvariant, SchedulingDrivesBooking,
       BookingConfirmedWasHeld, PTL
=============================================================================
