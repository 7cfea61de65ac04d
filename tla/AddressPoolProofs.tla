-------------------------- MODULE AddressPoolProofs --------------------------
(***************************************************************************)
(* The abstract pool keeps what it promises.                               *)
(***************************************************************************)
EXTENDS AddressPool, TLAPS

(* An address has one holder and a user one address, in force and saved.   *)
THEOREM PoolExclusive == Spec => [](Exclusive(pool) /\ Exclusive(saved))
<1> DEFINE Inv == Exclusive(pool) /\ Exclusive(saved)
<1>1. Init => Inv
  BY DEF Init, Exclusive
<1>2. Inv /\ [Next]_poolVars => Inv'
  <2> SUFFICES ASSUME Inv, [Next]_poolVars PROVE Inv'
    OBVIOUS
  <2>1. \A P, Q : P \subseteq Q /\ Exclusive(Q) => Exclusive(P)
    BY DEF Exclusive
  <2>2. CASE Assign
    BY <2>2 DEF Assign, Exclusive
  <2>3. CASE Renew
    <3>1. PICK l \in pool, t \in 0 .. MaxTime :
            pool' = (pool \ {l}) \cup {[l EXCEPT !.until = t]}
      BY <2>3 DEF Renew
    <3> DEFINE m == [l EXCEPT !.until = t]
    <3>2. m.addr = l.addr /\ m.user = l.user
      OBVIOUS
    <3> HIDE DEF m
    <3>3. \A k \in pool \ {l} : k.addr # m.addr /\ k.user # m.user
      BY <3>2 DEF Exclusive
    <3>4. Exclusive((pool \ {l}) \cup {m})
      BY <3>3 DEF Exclusive
    <3> QED BY <2>3, <3>1, <3>4 DEF Renew, m, Exclusive
  <2>4. CASE Reclaim
    BY <2>1, <2>4 DEF Reclaim, Exclusive
  <2>5. CASE Save
    BY <2>1, <2>5 DEF Save, Exclusive
  <2>6. CASE Stop
    BY <2>1, <2>6 DEF Stop, Exclusive
  <2>7. CASE Restart
    <3>1. pool' \subseteq saved /\ saved' = saved
      BY <2>7 DEF Restart, Unexpired
    <3> QED BY <2>1, <3>1 DEF Exclusive
  <2>8. CASE Advance \/ Fail \/ UNCHANGED poolVars
    BY <2>8 DEF Advance, Fail, poolVars, Exclusive
  <2> QED BY <2>2, <2>3, <2>4, <2>5, <2>6, <2>7, <2>8 DEF Next
<1> QED BY <1>1, <1>2, PTL DEF Spec
=============================================================================
