--------------------------- MODULE MonotoneReads ---------------------------
(***************************************************************************)
(* What a data source promises to the requests that read it, whatever sits *)
(* between them and the upstream service: a read that succeeds returns the *)
(* upstream's state as of some moment, never one older than what a read    *)
(* that had already finished was given.  Readers are the HTTP requests of  *)
(* the dashboard server; a version is the time at which the upstream       *)
(* produced the data.                                                      *)
(***************************************************************************)
EXTENDS Integers

CONSTANTS
    Readers,        \* concurrent requests
    MaxTime         \* bound of the clock

VARIABLES
    now,            \* the clock
    active,         \* active[r]: r is inside a read
    floor,          \* floor[r]: the newest version anyone had when r began
    latest,         \* the newest version returned so far
    ret             \* ret[r]: what r's last read returned

vars == <<now, active, floor, latest, ret>>

Outcomes == [kind : {"ok", "fetchErr", "ctxErr"}, ver : 0..MaxTime]

Init ==
    /\ now = 0
    /\ active = [r \in Readers |-> FALSE]
    /\ floor = [r \in Readers |-> 0]
    /\ latest = 0
    /\ ret = [r \in Readers |-> [kind |-> "ctxErr", ver |-> 0]]

Begin(r) ==
    /\ ~active[r]
    /\ active' = [active EXCEPT ![r] = TRUE]
    /\ floor' = [floor EXCEPT ![r] = latest]
    /\ UNCHANGED <<now, latest, ret>>

Succeed(r) ==
    /\ active[r]
    /\ \E v \in floor[r]..now :
          /\ ret' = [ret EXCEPT ![r] = [kind |-> "ok", ver |-> v]]
          /\ latest' = IF v > latest THEN v ELSE latest
    /\ active' = [active EXCEPT ![r] = FALSE]
    /\ UNCHANGED <<now, floor>>

Fail(r) ==
    /\ active[r]
    /\ \E o \in Outcomes : o.kind # "ok" /\ ret' = [ret EXCEPT ![r] = o]
    /\ active' = [active EXCEPT ![r] = FALSE]
    /\ UNCHANGED <<now, floor, latest>>

Tick ==
    /\ now < MaxTime
    /\ now' = now + 1
    /\ UNCHANGED <<active, floor, latest, ret>>

Next == Tick \/ \E r \in Readers : Begin(r) \/ Succeed(r) \/ Fail(r)

Spec == Init /\ [][Next]_vars
=============================================================================
