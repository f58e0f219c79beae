------------------------------ MODULE Reactor ------------------------------
(***************************************************************************)
(* What lib/selector.h promises to the handlers that register with it: a   *)
(* poll reports who is ready, and a handler is called only for an owner    *)
(* that the poll reported, at most once for each operation, and only while *)
(* that owner still waits for it. Owners are named here, not descriptors:  *)
(* the kernel gives the number of a closed one to the next connection, and *)
(* the promise is that nobody is served in the place of another.           *)
(***************************************************************************)
CONSTANTS Owners, Ops,
    Writer,  \* the owner whose interest any handler may change: the log
    Gone     \* what is no set of Ops: the owner is not registered

VARIABLES
    waits,     \* for each owner, the operations it waits for, or Gone
    reported   \* the reports of the last poll that were not passed yet

reactorVars == <<waits, reported>>

Waiting(o, op) == waits[o] # Gone /\ op \in waits[o]

ReactorInit ==
    /\ waits \in [Owners -> (SUBSET Ops) \cup {Gone}]
    /\ reported = {}

Poll ==
    /\ reported = {}
    /\ reported' \in SUBSET {r \in Owners \X Ops : Waiting(r[1], r[2])}
    /\ UNCHANGED waits

(* A handler changes its own owner and the log, and may register others.   *)
Call(o, op) ==
    /\ <<o, op>> \in reported /\ Waiting(o, op)
    /\ reported' \in SUBSET (reported \ {<<o, op>>})
    /\ waits' \in [Owners -> (SUBSET Ops) \cup {Gone}]
    /\ \A p \in Owners \ {o, Writer} : waits'[p] = waits[p] \/ waits[p] = Gone

(* The reports whose owners do not wait any more are passed over.          *)
Pass ==
    /\ \A r \in reported : ~Waiting(r[1], r[2])
    /\ reported' = {}
    /\ UNCHANGED waits

(* Whatever interrupts the loop logs.                                      *)
Interrupt ==
    /\ waits[Writer] # Gone
    /\ \E i \in SUBSET Ops : waits' = [waits EXCEPT ![Writer] = i]
    /\ UNCHANGED reported

Stop(o) ==
    /\ reported = {}
    /\ waits[o] # Gone
    /\ waits' \in [Owners -> (SUBSET Ops) \cup {Gone}]
    /\ waits'[o] = Gone
    /\ \A p \in Owners \ {o, Writer} : waits'[p] = waits[p]
    /\ UNCHANGED reported

ReactorNext ==
    \/ Poll \/ Pass \/ Interrupt
    \/ \E o \in Owners : Stop(o) \/ \E op \in Ops : Call(o, op)

ReactorSpec == ReactorInit /\ [][ReactorNext]_reactorVars
=============================================================================
