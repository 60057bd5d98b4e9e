---------------------------- MODULE GTestPayload ----------------------------
(***************************************************************************)
(* MatcherBase<T>: matchers that share their implementation, a payload on  *)
(* the heap with a reference count, or hold a small one inside.  Threads   *)
(* construct, copy, move, assign, use and destroy matchers; the counts are *)
(* atomic, the matchers are not, so that a thread has a matcher it writes  *)
(* for itself, while many may read one.                                    *)
(***************************************************************************)
EXTENDS Naturals, FiniteSets

CONSTANTS
  Caller,
  Matcher,   \* the places where a matcher may be constructed
  Payload,   \* the places of the heap for a SharedPayload
  None       \* no matcher

ASSUME PayloadAssumption == IsFiniteSet(Matcher) /\ None \notin Matcher

VARIABLES
  vtable,    \* "none" without an object, "null", "inlined", or "shared" when it
             \* has a shared_destroy
  shared,    \* buffer_.shared of a matcher, meaningless unless shared
  ref,       \* of a payload
  heap,      \* the payloads allocated
  now,       \* what a thread is about to do
  member,    \* the member function it executes
  to, from   \* *this and other, if it has them

payloadVars == <<vtable, shared, ref, heap, now, member, to, from>>

IsShared(m) == vtable[m] = "shared"

-----------------------------------------------------------------------------
(* Who may call what: a matcher that is written is no other thread's.      *)

Idle(t)   == now[t] = "idle"
Uses(t)   == {to[t], from[t]}
Writes(t) == IF member[t] = "move" THEN Uses(t) ELSE {to[t]}

Mine(m)     == \A t \in Caller : m \notin Uses(t)
Readable(m) == \A t \in Caller : m \notin Writes(t)

Call(t, step, name, this, other) ==
  /\ now' = [now EXCEPT ![t] = step]
  /\ member' = [member EXCEPT ![t] = name]
  /\ to' = [to EXCEPT ![t] = this]
  /\ from' = [from EXCEPT ![t] = other]

Goto(t, step) == now' = [now EXCEPT ![t] = step] /\ UNCHANGED <<member, to, from>>

Return(t) == Call(t, "idle", "none", None, None)

\* A null matcher, or one that holds its implementation.
ConstructInside(t, m) ==
  /\ Idle(t) /\ Mine(m) /\ vtable[m] = "none"
  /\ \E kind \in {"null", "inlined"} : vtable' = [vtable EXCEPT ![m] = kind]
  /\ UNCHANGED <<shared, ref, heap, now, member, to, from>>

\* new Shared(...)
ConstructShared(t, m) ==
  /\ Idle(t) /\ Mine(m) /\ vtable[m] = "none"
  /\ \E p \in Payload \ heap :
       /\ heap' = heap \cup {p}
       /\ ref' = [ref EXCEPT ![p] = 1]
       /\ shared' = [shared EXCEPT ![m] = p]
  /\ vtable' = [vtable EXCEPT ![m] = "shared"]
  /\ UNCHANGED <<now, member, to, from>>

\* MatcherBase(const MatcherBase&), MatcherBase(MatcherBase&&)
ConstructFrom(t, m, other) ==
  /\ Idle(t) /\ Mine(m) /\ vtable[m] = "none" /\ vtable[other] # "none"
  /\ \/ Readable(other) /\ Call(t, "Take", "copy", m, other)
     \/ Mine(other) /\ Call(t, "Take", "move", m, other)
  /\ UNCHANGED <<vtable, shared, ref, heap>>

\* Mutant: without the test for self-assignment.
AssignSelf(t, m, other) ==
  /\ Idle(t) /\ Mine(m) /\ vtable[m] # "none" /\ vtable[other] # "none"
  /\ \/ Readable(other) /\ Call(t, "Destroy", "copy", m, other)
     \/ Mine(other) /\ Call(t, "Destroy", "move", m, other)
  /\ UNCHANGED <<vtable, shared, ref, heap>>

\* Both operator=, which do nothing when this == &other.
AssignFrom(t, m, other) ==
  /\ Idle(t) /\ Mine(m) /\ vtable[m] # "none" /\ vtable[other] # "none"
  /\ m # other
  /\ \/ Readable(other) /\ Call(t, "Destroy", "copy", m, other)
     \/ Mine(other) /\ Call(t, "Destroy", "move", m, other)
  /\ UNCHANGED <<vtable, shared, ref, heap>>

\* ~MatcherBase
Destruct(t, m) ==
  /\ Idle(t) /\ Mine(m) /\ vtable[m] # "none"
  /\ Call(t, "Destroy", "destruct", m, None)
  /\ UNCHANGED <<vtable, shared, ref, heap>>

\* Destroy(): Unref() tells one thread that the count was 1.
Unref(t) ==
  /\ now[t] = "Destroy"
  /\ IF IsShared(to[t])
       THEN /\ ref' = [ref EXCEPT ![shared[to[t]]] = @ - 1]
            /\ Goto(t, IF ref[shared[to[t]]] = 1 THEN "Delete" ELSE "Take")
       ELSE Goto(t, "Take") /\ UNCHANGED ref
  /\ UNCHANGED <<vtable, shared, heap>>

\* SharedPayload::Destroy
SharedDestroy(t) ==
  /\ now[t] = "Delete"
  /\ heap' = heap \ {shared[to[t]]}
  /\ Goto(t, "Take")
  /\ UNCHANGED <<vtable, shared, ref>>

\* The members are overwritten, or the object is gone.
Take(t) ==
  /\ now[t] = "Take"
  /\ IF member[t] = "destruct"
       THEN /\ vtable' = [vtable EXCEPT ![to[t]] = "none"]
            /\ UNCHANGED shared
       ELSE /\ vtable' = IF member[t] = "move"
                           THEN [vtable EXCEPT ![to[t]] = vtable[from[t]], ![from[t]] = "null"]
                           ELSE [vtable EXCEPT ![to[t]] = vtable[from[t]]]
            /\ shared' = [shared EXCEPT ![to[t]] = shared[from[t]]]
  /\ IF member[t] = "copy" /\ IsShared(from[t]) THEN Goto(t, "Ref") ELSE Return(t)
  /\ UNCHANGED <<ref, heap>>

Ref(t) ==
  /\ now[t] = "Ref"
  /\ ref' = [ref EXCEPT ![shared[to[t]]] = @ + 1]
  /\ Return(t)
  /\ UNCHANGED <<vtable, shared, heap>>

\* MatchAndExplain and DescribeTo: GTEST_CHECK_ aborts if the matcher is null,
\* while the other threads may run on until the program has ended; otherwise the
\* payload is read.
Use(t, m) ==
  /\ Idle(t) /\ Readable(m) /\ vtable[m] # "none"
  /\ IF vtable[m] = "null"
       THEN Goto(t, "aborted")
       ELSE Call(t, "Get", "match", None, m)
  /\ UNCHANGED <<vtable, shared, ref, heap>>

ReadPayload(t) ==
  /\ now[t] = "Get"
  /\ Return(t)
  /\ UNCHANGED <<vtable, shared, ref, heap>>

Aborted == (\A t \in Caller : now[t] = "aborted") /\ UNCHANGED payloadVars

PayloadInit ==
  /\ vtable = [m \in Matcher |-> "none"]
  /\ shared \in [Matcher -> Payload]
  /\ ref = [p \in Payload |-> 0]
  /\ heap = {}
  /\ now = [t \in Caller |-> "idle"]
  /\ member = [t \in Caller |-> "none"]
  /\ to = [t \in Caller |-> None] /\ from = to

PayloadNext ==
  \/ \E t \in Caller, m \in Matcher :
       \/ ConstructInside(t, m) \/ ConstructShared(t, m) \/ Destruct(t, m) \/ Use(t, m)
       \/ \E other \in Matcher : ConstructFrom(t, m, other) \/ AssignFrom(t, m, other)
  \/ \E t \in Caller : Unref(t) \/ SharedDestroy(t) \/ Take(t) \/ Ref(t) \/ ReadPayload(t)
  \/ Aborted

PayloadSpec == PayloadInit /\ [][PayloadNext]_payloadVars

PayloadTypeOK ==
  /\ vtable \in [Matcher -> {"none", "null", "inlined", "shared"}]
  /\ shared \in [Matcher -> Payload]
  /\ ref \in [Payload -> Nat]
  /\ heap \subseteq Payload
  /\ now \in [Caller -> {"idle", "Destroy", "Delete", "Take", "Ref", "Get", "aborted"}]
  /\ member \in [Caller -> {"none", "copy", "move", "destruct", "match"}]
  /\ to \in [Caller -> Matcher \cup {None}] /\ from \in [Caller -> Matcher \cup {None}]

-----------------------------------------------------------------------------
(* Properties                                                              *)

\* The payload that a thread's next step reads, counts or deletes.
Touches(t) ==
  IF now[t] \in {"Destroy", "Delete", "Ref"} /\ IsShared(to[t]) THEN {shared[to[t]]}
  ELSE IF now[t] = "Get" /\ IsShared(from[t]) THEN {shared[from[t]]} ELSE {}

\* A payload lives exactly as long as a matcher has it: whatever the threads do
\* at the same time, none touches a payload that was deleted, a matcher that no
\* thread is writing has a payload that exists, and a payload that exists is some
\* matcher's.  "The implementation of Matcher<T> is just a std::shared_ptr".
PayloadShared ==
  /\ \A t \in Caller : Touches(t) \subseteq heap
  /\ \A m \in Matcher : IsShared(m) /\ Readable(m) => shared[m] \in heap
  /\ \A p \in heap : \E m \in Matcher : IsShared(m) /\ shared[m] = p
=============================================================================
