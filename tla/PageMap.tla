------------------------------ MODULE PageMap ------------------------------
(***************************************************************************)
(* What the VMM promises its callers: a bag of mappings, of at most Limit. *)
(* A page may be mapped several times over.                                *)
(***************************************************************************)
EXTENDS Integers

CONSTANTS
  Pages, Targets,    \* what callers map, and to what
  Stored(_),         \* the target that is kept of the one passed
  Admitted(_, _),    \* whether a page and a target can be mapped at all
  Limit

VARIABLES
  held,              \* of each page, how often each target is held
  room,              \* how many mappings more can be held
  call, ret, out     \* the last call and its answer

vars == <<held, room, call, ret, out>>

Kept     == {Stored(t) : t \in Targets}
Found(v) == {t \in Kept : held[v][t] > 0}

Init ==
  /\ held = [v \in Pages |-> [t \in Kept |-> 0]] /\ room = Limit
  /\ call = << >> /\ ret = FALSE

Map(v, t) ==
  /\ call' = <<"map", v, t>>
  /\ IF Admitted(v, t) /\ room > 0
     THEN ret' = TRUE /\ room' = room - 1 /\ held' = [held EXCEPT ![v][Stored(t)] = @ + 1]
     ELSE ret' = FALSE /\ UNCHANGED <<held, room>>

Query(v) ==
  /\ call' = <<"query", v>>
  /\ ret' = (Found(v) # {})
  /\ ret' => out' \in Found(v)
  /\ UNCHANGED <<held, room>>

Unmap(v) ==
  /\ call' = <<"unmap", v>>
  /\ \/ Found(v) = {} /\ ret' = FALSE /\ UNCHANGED <<held, room>>
     \/ \E t \in Found(v) :
          ret' = TRUE /\ room' = room + 1 /\ held' = [held EXCEPT ![v][t] = @ - 1]

Next == \E v \in Pages : Query(v) \/ Unmap(v) \/ \E t \in Targets : Map(v, t)

Spec == Init /\ [][Next]_vars
=============================================================================
