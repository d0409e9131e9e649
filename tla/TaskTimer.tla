------------------------------ MODULE TaskTimer ------------------------------
(***************************************************************************)
(* TaskTimer (src/tally/utility/task_timer.h): one worker thread runs the *)
(* timers; any thread may add (run_at / run_every / run_after, all        *)
(* add_impl) or remove them.  Under the mutex m the timer keeps            *)
(*   events       a vector of Event{valid, period, handler} indexed by id, *)
(*   time_events  a multiset of Time_event{next, ref} ordered by next,     *)
(*   free_ids     a stack of ids to reuse.                                 *)
(* The worker pops the earliest due Time_event, UNLOCKS m, calls          *)
(* events[ref].handler(ref), relocks, and then either reinserts a         *)
(* periodic timer or frees the id.  add_impl and remove each run wholly   *)
(* under m, so each is one action; the worker's turn is split where it    *)
(* drops the lock.                                                         *)
(*                                                                         *)
(* A handler is abstracted to the number of the add_impl call that        *)
(* installed it (0 stands for nullptr); time is an integer clock.  Ids    *)
(* are 0-based as in the code: Ev(id) is events[id].                       *)
(***************************************************************************)
EXTENDS Naturals, FiniteSets, SequencesExt

CONSTANTS
    Delays,     \* the delays d of run_after(d) / run_every(d, ..., period)
    Periods,    \* the periods; 0 is a one-shot timer (turbo::Duration())
    MaxTime,    \* bound on the clock
    MaxAdds     \* bound on add_impl calls

VARIABLES
    events,     \* events: <<[valid, period, handler]>>, events[id] at id + 1
    timeEvents, \* time_events, a sequence kept in the multiset's order
    freeIds,    \* free_ids, a stack whose top is the last element
    now,        \* turbo::Time::current_time()
    wpc,        \* worker: "loop" | "call" | "handler" | "exit" | "crashed"
    cur,        \* the worker's local te
    done,       \* done
    adds,       \* ghost: add_impl calls made, the handler of the last one
    fired       \* ghost: handlers the worker has invoked

vars == <<events, timeEvents, freeIds, now, wpc, cur, done, adds, fired>>

Ev(id) == events[id + 1]
Ids == 0 .. (Len(events) - 1)
NoTE == [next |-> 0, ref |-> 0]

\* Inserting at the front, before timers that are due earlier.
InsertFront(s, te) == <<te>> \o s

\* std::multiset::insert: after every element whose next is not greater.
Insert(s, te) ==
    LET k == Cardinality({i \in 1 .. Len(s) : s[i].next <= te.next})
    IN InsertAt(s, k + 1, te)

TypeOK ==
    /\ events \in Seq([valid : BOOLEAN, period : Periods, handler : 0 .. MaxAdds])
    /\ \A i \in 1 .. Len(timeEvents) : timeEvents[i].ref \in Ids
    /\ \A i \in 1 .. Len(freeIds) : freeIds[i] \in Ids
    /\ now \in 0 .. MaxTime
    /\ wpc \in {"loop", "call", "handler", "exit", "crashed"}
    /\ done \in BOOLEAN /\ adds \in 0 .. MaxAdds /\ fired \subseteq 1 .. MaxAdds

\* TaskTimer(): empty containers, done = false, the worker started.
Init ==
    /\ events = <<>> /\ timeEvents = <<>> /\ freeIds = <<>>
    /\ now = 0 /\ wpc = "loop" /\ cur = NoTE /\ done = FALSE
    /\ adds = 0 /\ fired = {}

-----------------------------------------------------------------------------
\* add_impl with a fresh id that skips one.
AddImplOffByOne(when, period) ==
    LET h == adds + 1
        e == [valid |-> TRUE, period |-> period, handler |-> h]
        id == IF freeIds = <<>> THEN Len(events) + 1 ELSE Last(freeIds)
    IN /\ events' = IF freeIds = <<>> THEN Append(events, e)
                                      ELSE [events EXCEPT ![id + 1] = e]
       /\ freeIds' = IF freeIds = <<>> THEN freeIds ELSE Front(freeIds)
       /\ timeEvents' = Insert(timeEvents, [next |-> when, ref |-> id])
       /\ adds' = h

(***************************************************************************)
(* add_impl(when, handler, period): take the top free id, or events.size() *)
(* when there is none, store the Event there and insert its Time_event.   *)
(***************************************************************************)
AddImpl(when, period) ==
    LET h == adds + 1
        e == [valid |-> TRUE, period |-> period, handler |-> h]
        id == IF freeIds = <<>> THEN Len(events) ELSE Last(freeIds)
    IN /\ events' = IF freeIds = <<>> THEN Append(events, e)
                                      ELSE [events EXCEPT ![id + 1] = e]
       /\ freeIds' = IF freeIds = <<>> THEN freeIds ELSE Front(freeIds)
       /\ timeEvents' = Insert(timeEvents, [next |-> when, ref |-> id])
       /\ adds' = h

\* run_after(d, h) and run_every(d, h, period): add_impl(now + d, ...).
Add ==
    /\ ~done /\ adds < MaxAdds
    /\ \E d \in Delays, p \in Periods : AddImpl(now + d, p)
    /\ UNCHANGED <<now, wpc, cur, done, fired>>

\* remove that frees the id even when no Time_event refers to it.
RemoveAlwaysFree(id) ==
    /\ id < Len(events)
    /\ events' = [events EXCEPT ![id + 1].valid = FALSE,
                                ![id + 1].handler = 0]
    /\ freeIds' = Append(freeIds, id)
    /\ timeEvents' = RemoveFirstMatch(timeEvents, LAMBDA te : te.ref = id)

(***************************************************************************)
(* remove(id): false for an id past the vector; otherwise invalidate the  *)
(* event, null its handler and, if a Time_event refers to it, free the id *)
(* and erase the Time_event.  It may run while the worker is between      *)
(* popping a Time_event and calling its handler, or inside the handler.   *)
(***************************************************************************)
RemoveImpl(id) ==
    /\ id < Len(events)
    /\ events' = [events EXCEPT ![id + 1].valid = FALSE,
                                ![id + 1].handler = 0]
    /\ IF \E i \in 1 .. Len(timeEvents) : timeEvents[i].ref = id
         THEN /\ freeIds' = Append(freeIds, id)
              /\ timeEvents' = RemoveFirstMatch(timeEvents, LAMBDA te : te.ref = id)
         ELSE UNCHANGED <<freeIds, timeEvents>>

\* A remove(id) call, by a client or by a handler; ids up to events.size().
RemoveId ==
    /\ ~done
    /\ \E id \in 0 .. Len(events) : RemoveImpl(id)
    /\ UNCHANGED <<now, wpc, cur, done, adds, fired>>

\* ~TaskTimer: done = true, then join the worker.
Stop ==
    /\ ~done /\ done' = TRUE
    /\ UNCHANGED <<events, timeEvents, freeIds, now, wpc, cur, adds, fired>>

\* Time passes.
Tick ==
    /\ now < MaxTime /\ now' = now + 1
    /\ UNCHANGED <<events, timeEvents, freeIds, wpc, cur, done, adds, fired>>

-----------------------------------------------------------------------------
(* run(): the worker.  Waiting (time_events empty, or not yet due) is no  *)
(* step: the worker blocks on cond until another action changes that.     *)

\* The earliest Time_event is due: erase it and unlock.
Fire ==
    /\ wpc = "loop" /\ ~done
    /\ timeEvents # <<>> /\ now >= Head(timeEvents).next
    /\ cur' = Head(timeEvents) /\ timeEvents' = Tail(timeEvents)
    /\ wpc' = "call"
    /\ UNCHANGED <<events, freeIds, now, done, adds, fired>>

(***************************************************************************)
(* events[te.ref].handler(te.ref), read without the lock.  A handler that *)
(* remove() has reset to nullptr makes the call throw                      *)
(* std::bad_function_call, which leaves run() and terminates the process. *)
(***************************************************************************)
Call ==
    /\ wpc = "call"
    /\ LET h == Ev(cur.ref).handler
       IN IF h = 0 THEN wpc' = "crashed" /\ UNCHANGED fired
                   ELSE wpc' = "handler" /\ fired' = fired \cup {h}
    /\ UNCHANGED <<events, timeEvents, freeIds, now, cur, done, adds>>

\* The handler returns and the worker relocks: a still-valid periodic timer
\* is reinserted period later; anything else is invalidated and its id freed.
Return ==
    /\ wpc = "handler"
    /\ IF Ev(cur.ref).valid /\ Ev(cur.ref).period > 0
         THEN /\ timeEvents' = Insert(timeEvents,
                                      [cur EXCEPT !.next = @ + Ev(cur.ref).period])
              /\ UNCHANGED <<events, freeIds>>
         ELSE /\ events' = [events EXCEPT ![cur.ref + 1].valid = FALSE,
                                          ![cur.ref + 1].handler = 0]
              /\ freeIds' = Append(freeIds, cur.ref)
              /\ UNCHANGED timeEvents
    /\ wpc' = "loop" /\ cur' = NoTE
    /\ UNCHANGED <<now, done, adds, fired>>

\* while (!done) ends.
Exit ==
    /\ wpc = "loop" /\ done /\ wpc' = "exit"
    /\ UNCHANGED <<events, timeEvents, freeIds, now, cur, done, adds, fired>>

Worker == Fire \/ Call \/ Return \/ Exit

Next == Add \/ RemoveId \/ Stop \/ Tick \/ Worker

\* The worker thread is scheduled whenever it can run, and the clock
\* advances; clients need not call anything.
Spec == Init /\ [][Next]_vars /\ WF_vars(Worker) /\ WF_vars(Tick)

-----------------------------------------------------------------------------
\* The number of places that hold id: free_ids, time_events, and the
\* worker's te while it is calling or inside the handler.
Holders(id) ==
    Cardinality({i \in 1 .. Len(freeIds) : freeIds[i] = id})
    + Cardinality({i \in 1 .. Len(timeEvents) : timeEvents[i].ref = id})
    + (IF wpc \in {"call", "handler", "crashed"} /\ cur.ref = id THEN 1 ELSE 0)

(***************************************************************************)
(* Every id of the events vector is in exactly one place: free_ids, one   *)
(* Time_event, or the worker's hands.  So add_impl never hands out an id  *)
(* still scheduled or still being run, and free_ids never holds an id     *)
(* twice.  It rests on remove() freeing an id only when it found a        *)
(* Time_event, on the worker freeing only one-shot or removed timers      *)
(* after the handler returns, and on ids being allocated from the stack   *)
(* or the vector's end.                                                    *)
(***************************************************************************)
IdAccounting == \A id \in Ids : Holders(id) = 1

Scheduled(h) ==
    \E i \in 1 .. Len(timeEvents) :
        Ev(timeEvents[i].ref).handler = h /\ timeEvents[i].next <= MaxTime
Installed(h) == \E id \in Ids : Ev(id).handler = h

(***************************************************************************)
(* A timer that is due within the clock's range eventually has its        *)
(* handler called, unless it is removed, the TaskTimer is destroyed or    *)
(* the process has terminated: run() always serves the earliest           *)
(* Time_event, and time_events is kept ordered by next.                    *)
(***************************************************************************)
DueTimerFires ==
    \A h \in 1 .. MaxAdds :
        Scheduled(h) ~> (h \in fired \/ ~Installed(h) \/ done \/ wpc = "crashed")

(***************************************************************************)
(* The worker never calls a handler remove() has reset to nullptr (which  *)
(* throws std::bad_function_call out of run() and ends the process).      *)
(***************************************************************************)
NoEmptyHandlerCall == wpc # "crashed"

=============================================================================
