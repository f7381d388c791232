------------------------------ MODULE IncidentLog ------------------------------
(***************************************************************************)
(* What the incidents table promises its readers (the uptime bar and the   *)
(* incident timeline of a service): a service's incidents follow one       *)
(* another, each is resolved before the next one starts, and none ends     *)
(* before it began.                                                        *)
(***************************************************************************)
EXTENDS Integers, Sequences, SequencesExt

CONSTANTS Service, MaxTime

Ongoing == -1

VARIABLE log   \* service -> the sequence of its incidents, oldest first

Incident == [started : 0..MaxTime, resolved : 0..MaxTime \cup {Ongoing}]

IsOpen(s) == log[s] # <<>> /\ Last(log[s]).resolved = Ongoing

Init == log = [s \in Service |-> <<>>]

\* An incident starts, and not before the previous one was resolved.
Open(s, at) ==
  /\ log[s] # <<>> => Last(log[s]).resolved \in 0..at
  /\ log' = [log EXCEPT ![s] = Append(@, [started |-> at, resolved |-> Ongoing])]

\* The open incident is resolved, and not before it started.
Resolve(s, at) ==
  /\ IsOpen(s)
  /\ Last(log[s]).started <= at
  /\ log' = [log EXCEPT ![s][Len(log[s])].resolved = at]

Next == \E s \in Service, at \in 0..MaxTime : Open(s, at) \/ Resolve(s, at)

Spec == Init /\ [][Next]_log
===============================================================================
