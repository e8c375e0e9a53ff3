------------------------------ MODULE KVStore ------------------------------
(***************************************************************************)
(* What the commands of include/cmd_.h promise: one map from keys to       *)
(* entries with an expiry time.  An expired entry is invisible to GET but  *)
(* leaves the map lazily: any command may evict it, and until one does     *)
(* EXPIRED can give it a new life and SET reports that it replaced it.     *)
(***************************************************************************)
EXTENDS Integers

CONSTANTS Key, Ptr, Absent, None, Expira, MaxTime

VARIABLES db,    \* each key's entry, or Absent
          now,   \* the clock
          call,  \* the command being executed
          ret    \* its result

vars == <<db, now, call, ret>>

NoCall  == [op |-> "none", key |-> None, expired |-> 0]
Late(e) == e.expired > 0 /\ now >= e.expired
Values  == {db[k].v : k \in {x \in Key : db[x] # Absent}}

\* The maps that lazy expiry may make of d.
Evictions(d) ==
  {[k \in Key |-> IF k \in E THEN Absent ELSE d[k]] :
     E \in SUBSET {x \in Key : d[x] # Absent /\ Late(d[x])}}

Running(op) == call.op = op
Return(r)   == call' = NoCall /\ ret' = r /\ UNCHANGED now

Init == /\ db = [k \in Key |-> Absent]
        /\ now = 1
        /\ call = NoCall
        /\ ret = "none"

Call == /\ Running("none")
        /\ \E op \in {"SET", "GET", "DEL", "EXPIRED"}, k \in Key, e \in Expira :
             call' = [op |-> op, key |-> k, expired |-> e]
        /\ ret' = "none"
        /\ UNCHANGED <<db, now>>

\* The new value is none of those in the map.
Set == /\ Running("SET")
       /\ \E p \in Ptr \ Values :
            db' = [db EXCEPT ![call.key] = [v |-> p, expired |-> call.expired]]
       /\ \E r \in IF db[call.key] = Absent
                     THEN {"OK", "REMOVED", "EXPIRED_"} ELSE {"REPLACED"} : Return(r)

SetFails == /\ Running("SET")
            /\ db' = db
            /\ Return("ENOMEM")

Get == /\ Running("GET")
       /\ LET e == db[call.key] IN
            Return(IF e = Absent \/ Late(e) THEN None ELSE e.v)
       /\ db' \in Evictions(db)

Del == /\ Running("DEL")
       /\ db' \in {[d EXCEPT ![call.key] = Absent] : d \in Evictions(db)}
       /\ Return("OK")

Expire == /\ Running("EXPIRED")
          /\ LET k == call.key IN
               db' \in {IF d[k] = Absent THEN d
                          ELSE [d EXCEPT ![k] = [d[k] EXCEPT !.expired = call.expired]] :
                        d \in Evictions(db)}
          /\ Return("OK")

Tick == now < MaxTime /\ now' = now + 1 /\ UNCHANGED <<db, call, ret>>

Next == Call \/ Set \/ SetFails \/ Get \/ Del \/ Expire \/ Tick

Spec == Init /\ [][Next]_vars

=============================================================================
