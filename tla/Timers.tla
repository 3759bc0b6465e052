-------------------------------- MODULE Timers -------------------------------
(***************************************************************************)
(* The timers of all servers: EventMgr (src/common/event_manager.h),         *)
(* EventableObject and EventableObjectHolder                                 *)
(* (src/common/event_table_object.cpp).                                      *)
(*                                                                          *)
(* An event is held twice, by its object's m_events and by the holder's     *)
(* list, and freed when its count of references drops to zero.  Callbacks   *)
(* run while update() goes through the list; they add events to it, remove  *)
(* events, change their times and delete objects, their own included.       *)
(*                                                                          *)
(* There is one holder, WORLD_INSTANCE, as in every server; eventRelocate    *)
(* and EVENT_FLAG_DO_NOT_EXECUTE_IN_WORLD_CONTEXT are not used.              *)
(***************************************************************************)
EXTENDS Naturals, Integers, Sequences, FiniteSets

Seqs == INSTANCE SequencesExt

CONSTANTS
  Objects,
  Types,       \* types of events
  Times,       \* periods
  Diffs,       \* time_difference of an update
  MaxEvents    \* bound on the events that exist at a time

\* What is assumed of the constants: there is a longest update, as time_difference is a u32.
ASSUME TimersConstants ==
  /\ Times \subseteq Nat
  /\ Diffs \subseteq Nat \ {0}
  /\ \E d \in Diffs : \A e \in Diffs : e <= d
  /\ MaxEvents \in Nat

Ids == 1..MaxEvents
None == 0
Free == [ref |-> 0]

\* Not in the code: the longest update, and left, the time to the moment asked for.
MaxDiff == CHOOSE d \in Diffs : \A e \in Diffs : e <= d

VARIABLES
  event,       \* TimedEvent of each id: [obj, eventType, msTime, currTime, repeats, deletes, deleted, ref, left]
  alive,       \* objects that exist
  m_events,    \* the map of each object
  list,        \* the holder's list
  itr,         \* update: index of the next event; None for end()
  it2,         \* update: index of this one
  diff,        \* time_difference; 0 outside update
  running      \* the event whose callback runs

timerVars == <<event, alive, m_events, list, itr, it2, diff, running>>

TimersInit ==
  /\ event = [e \in Ids |-> Free]
  /\ alive = Objects
  /\ m_events = [o \in Objects |-> {}]
  /\ list = <<>>
  /\ itr = None
  /\ it2 = None
  /\ diff = 0
  /\ running = None

-----------------------------------------------------------------------------
\* TimedEvent::decRef without the mark
decRef_bug(ev) == IF ev.ref <= 1 THEN Free ELSE [ev EXCEPT !.ref = @ - 1]

\* TimedEvent::decRef: every release marks the event as deleted.
decRef(ev) == IF ev.ref <= 1 THEN Free ELSE [ev EXCEPT !.ref = @ - 1, !.deleted = TRUE]

ofType(o, t) == {e \in m_events[o] : event[e].eventType = t}

\* EventableObject::eventHasEvent
hasEvent(o, t) == \E e \in ofType(o, t) : ~event[e].deleted

\* The program runs: outside update, or in a callback.
userCode == diff = 0 \/ running # None

\* EventMgr::addEvent, EventableObject::eventAddEvent and EventableObjectHolder::addEvent
addEvent(o, t, time, repeats, deletes) ==
  /\ userCode
  /\ o \in alive
  /\ \E e \in Ids :
       /\ event[e] = Free
       /\ \A f \in Ids : f < e => event[f] # Free
       /\ event' = [event EXCEPT ![e] =
            [obj |-> o, eventType |-> t, msTime |-> time, currTime |-> time, repeats |-> repeats,
             deletes |-> deletes, deleted |-> FALSE, ref |-> 2, left |-> time]]
       /\ m_events' = [m_events EXCEPT ![o] = @ \cup {e}]
       /\ list' = Append(list, e)
  /\ UNCHANGED <<alive, itr, it2, diff, running>>

\* EventableObject::eventRemoveEvents
removeEvents(o, t) ==
  /\ userCode
  /\ o \in alive
  /\ ofType(o, t) # {}
  /\ event' = [e \in Ids |-> IF e \in ofType(o, t) THEN decRef(event[e]) ELSE event[e]]
  /\ m_events' = [m_events EXCEPT ![o] = @ \ ofType(o, t)]
  /\ UNCHANGED <<alive, list, itr, it2, diff, running>>

\* EventableObject::eventModifyTimeAndTimeLeft, which the servers call if hasEvent
modifyEventTimeAndTimeLeft(o, t, time) ==
  /\ userCode
  /\ o \in alive
  /\ hasEvent(o, t)
  /\ event' = [e \in Ids |-> IF e \in ofType(o, t)
                            THEN [event[e] EXCEPT !.msTime = time, !.currTime = time, !.left = time]
                            ELSE event[e]]
  /\ UNCHANGED <<alive, m_events, list, itr, it2, diff, running>>

\* The events of a deleted object are forgotten.
deleteObject_bug(o) ==
  /\ userCode
  /\ o \in alive
  /\ alive' = alive \ {o}
  /\ event' = [e \in Ids |-> IF e \in m_events[o] /\ event[e].deleted THEN decRef(event[e]) ELSE event[e]]
  /\ m_events' = [m_events EXCEPT ![o] = {}]
  /\ UNCHANGED <<list, itr, it2, diff, running>>

\* EventableObject::~EventableObject
deleteObject(o) ==
  /\ userCode
  /\ o \in alive
  /\ alive' = alive \ {o}
  /\ event' = [e \in Ids |-> IF e \in m_events[o] THEN decRef(event[e]) ELSE event[e]]
  /\ m_events' = [m_events EXCEPT ![o] = {}]
  /\ UNCHANGED <<list, itr, it2, diff, running>>

newObject(o) ==
  /\ userCode
  /\ o \notin alive
  /\ \A e \in Ids : event[e] # Free => event[e].obj # o
  /\ alive' = alive \cup {o}
  /\ UNCHANGED <<event, m_events, list, itr, it2, diff, running>>

-----------------------------------------------------------------------------
(* EventableObjectHolder::update *)

nextIndex(i) == IF i < Len(list) THEN i + 1 ELSE None

\* Releases the event at it2 and erases it; what follows moves up.
erase ==
  /\ event' = [event EXCEPT ![list[it2]] = decRef(@)]
  /\ list' = Seqs!RemoveAt(list, it2)
  /\ itr' = IF itr = None THEN None ELSE itr - 1

\* The clock of `left' goes on for all events.
update(d) ==
  /\ diff = 0
  /\ list # <<>>
  /\ diff' = d
  /\ itr' = 1
  /\ it2' = None
  /\ event' = [e \in Ids |-> IF event[e] = Free \/ event[e].deleted THEN event[e]
                            ELSE [event[e] EXCEPT !.left = @ - d]]
  /\ UNCHANGED <<alive, m_events, list, running>>

\* Takes the next event: it2 = itr++, and itr is end() from now on if this was the last one.
take ==
  /\ diff # 0
  /\ running = None
  /\ it2 = None
  /\ itr # None
  /\ it2' = itr
  /\ itr' = nextIndex(itr)
  /\ UNCHANGED <<event, alive, m_events, list, diff, running>>

this == event[list[it2]]

\* A deleted event is released.
skip ==
  /\ it2 # None /\ running = None
  /\ this.deleted
  /\ erase
  /\ it2' = None
  /\ UNCHANGED <<alive, m_events, diff, running>>

\* The time is not over yet.
pass ==
  /\ it2 # None /\ running = None
  /\ ~this.deleted
  /\ this.currTime > diff
  /\ event' = [event EXCEPT ![list[it2]].currTime = @ - diff]
  /\ it2' = None
  /\ UNCHANGED <<alive, m_events, list, itr, diff, running>>

\* The callback begins ...
execute ==
  /\ it2 # None /\ running = None
  /\ ~this.deleted
  /\ this.currTime <= diff
  /\ running' = list[it2]
  /\ UNCHANGED <<event, alive, m_events, list, itr, it2, diff>>

\* ... and is over: the event goes with its last repetition or when the callback has
\* removed it; otherwise its period begins again.  -1 repetitions are endless.
executed ==
  /\ running # None
  /\ LET rep == IF this.repeats # 0 THEN this.repeats - 1 ELSE 0
     IN  IF this.deletes \/ (this.repeats # 0 /\ rep = 0) \/ this.deleted
         THEN erase
         ELSE /\ event' = [event EXCEPT ![running].repeats = IF rep < 0 THEN -1 ELSE rep,
                                        ![running].currTime = this.msTime,
                                        ![running].left = this.msTime]
              /\ UNCHANGED <<list, itr>>
  /\ running' = None
  /\ it2' = None
  /\ UNCHANGED <<alive, m_events, diff>>

endUpdate ==
  /\ diff # 0
  /\ running = None
  /\ it2 = None
  /\ itr = None
  /\ diff' = 0
  /\ UNCHANGED <<event, alive, m_events, list, itr, it2, running>>

-----------------------------------------------------------------------------
TimersNext ==
  \/ \E o \in Objects, t \in Types :
       \/ \E time \in Times, repeats \in {-1, 1} : addEvent(o, t, time, repeats, FALSE)
       \/ \E time \in Times : addEvent(o, t, time, 1, TRUE)
       \/ removeEvents(o, t)
       \/ \E time \in Times : modifyEventTimeAndTimeLeft(o, t, time)
  \/ \E o \in Objects : deleteObject(o) \/ newObject(o)
  \/ \E d \in Diffs : update(d)
  \/ take \/ skip \/ pass \/ execute \/ executed \/ endUpdate

TimersSpec == TimersInit /\ [][TimersNext]_timerVars

-----------------------------------------------------------------------------
(* Properties *)

\* Every timer has as many references as it is held, so that no iterator, map or callback
\* meets a freed one and none is left over: addEvent, removals, deleted objects and update()
\* all count (TimedEvent::incRef, decRef).
RefsExact ==
  \A e \in Ids :
    LET inList == Cardinality({i \in DOMAIN list : list[i] = e})
        inMaps == Cardinality({o \in Objects : e \in m_events[o]})
    IN  /\ event[e].ref = inList + inMaps
        /\ inList <= 1 /\ inMaps <= 1

\* A callback that begins is of an event that is there, and about due.
CallsAlive ==
  running = None /\ running' # None =>
    LET ev == event[running']
    IN  ~ev.deleted /\ ev.obj \in alive /\ running' \in m_events[ev.obj] /\ ev.left <= MaxDiff

\* Outside update() the time of every event that was not removed lies ahead.
NotLate ==
  diff = 0 => \A e \in Ids : event[e] # Free /\ ~event[e].deleted => event[e].left > 0

\* A timer is called when it is due: only if it was not removed, its object exists and still
\* has it (also when another callback of the same update has just removed it), at most the
\* length of one update too early; and when update() is over no timer is overdue, whatever
\* the callbacks added, removed or changed while the list was gone through.
CalledWhenDue == [][CallsAlive /\ NotLate']_timerVars
=============================================================================
