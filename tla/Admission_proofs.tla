------------------------- MODULE Admission_proofs -------------------------
(***************************************************************************)
(* What stands before the router and beside it, for every value of the     *)
(* constants: each component of MCAdmission with the inductive invariant of *)
(* its own specification and the property the run checks of it.  The ingress *)
(* and the budgets have modules of their own.                              *)
(***************************************************************************)
EXTENDS MCAdmission, TLAPS

(***************************************************************************)
(* The rate of a consumer (RateBucket)                                     *)
(***************************************************************************)
\* Until the row is made nothing has happened; then it has a first stamp.
RowInv == IF updated = Bucket!NoRow
          THEN first = Bucket!NoRow /\ tokens = Capacity /\ granted = 0 /\ setBack = 0
          ELSE first # Bucket!NoRow

\* All of it.
BucketInv == Bucket!TypeOK /\ RowInv /\ QuotaSharedUnlessSetBack

(***************************************************************************)
(* Arithmetic of the bucket.                                               *)
(***************************************************************************)
\* Of two numbers one is the larger, and one the smaller.
LEMMA Extremes ==
  ASSUME NEW a \in Int, NEW b \in Int
  PROVE  /\ Bucket!Larger(a, b) \in {a, b} /\ Bucket!Larger(a, b) >= a /\ Bucket!Larger(a, b) >= b
         /\ Bucket!Smaller(a, b) \in {a, b} /\ Bucket!Smaller(a, b) <= a /\ Bucket!Smaller(a, b) <= b
BY DEF Bucket!Larger, Bucket!Smaller

\* A refill is proportional to its time, and stretches of time add up.
LEMMA RefillAdds ==
  ASSUME NEW a \in Int, NEW b \in Int
  PROVE  /\ Rate * a \in Int /\ Rate * b \in Int
         /\ Rate * (a + b) = Rate * a + Rate * b
         /\ a * Rate = Rate * a
         /\ a >= 0 => Rate * a >= 0
BY BucketAssumption, SMT DEF BucketAssumption

\* One token more is worth one token more.
LEMMA TokenAdds ==
  ASSUME NEW n \in Nat
  PROVE  n * Unit \in Nat /\ (n + 1) * Unit = n * Unit + Unit
BY BucketAssumption, SMT DEF BucketAssumption

\* What a bucket holds after a refill: no more than it can, and no more than the
\* time since the row was written has added.
LEMMA RefillBounds ==
  ASSUME Bucket!TypeOK, NEW from \in 0..Horizon, NEW at \in 0..Horizon
  PROVE  /\ Bucket!Refilled(from, at) \in 0..Capacity
         /\ Bucket!Refilled(from, at) <= tokens + Rate * Bucket!Larger(0, at - from)
<1> DEFINE gap == Bucket!Larger(0, at - from)
<1>1. from \in Int /\ at \in Int /\ tokens \in Int /\ Capacity \in Int
      /\ tokens >= 0 /\ tokens <= Capacity /\ Capacity >= 0
  BY BucketAssumption DEF Bucket!TypeOK, BucketAssumption
<1>2. gap \in Int /\ gap >= 0
  BY <1>1, Extremes
<1>3. Rate * gap \in Int /\ Rate * gap >= 0 /\ gap * Rate = Rate * gap
  BY <1>2, RefillAdds
<1>4. Bucket!Refilled(from, at) = Bucket!Smaller(Capacity, tokens + Rate * gap)
  BY <1>3 DEF Bucket!Refilled
<1> HIDE DEF gap
<1>5. tokens + Rate * gap \in Int /\ tokens + Rate * gap >= 0
  BY <1>1, <1>3
<1>6. Bucket!Refilled(from, at) \in {Capacity, tokens + Rate * gap}
      /\ Bucket!Refilled(from, at) <= Capacity /\ Bucket!Refilled(from, at) <= tokens + Rate * gap
  BY <1>1, <1>4, <1>5, Extremes
<1>7. Bucket!Refilled(from, at) \in 0..Capacity
  BY <1>1, <1>5, <1>6
<1> QED
  BY <1>6, <1>7 DEF gap

(***************************************************************************)
(* The steps.                                                              *)
(***************************************************************************)
\* A bucket begins full and well typed.
THEOREM BucketInit == Bucket!Init => BucketInv
<1> SUFFICES ASSUME Bucket!Init PROVE BucketInv
  OBVIOUS
<1>1. Bucket!TypeOK /\ RowInv
  BY BucketAssumption DEF Bucket!Init, Bucket!TypeOK, RowInv, Bucket!Idle, Bucket!NoRow, BucketAssumption
<1>2. Rate * 0 = 0 /\ 0 * Unit = 0
  BY BucketAssumption, SMT DEF BucketAssumption
<1>3. QuotaSharedUnlessSetBack
  BY <1>2, BucketAssumption DEF Bucket!Init, Bucket!NoRow, QuotaSharedUnlessSetBack, BucketAssumption
<1> QED
  BY <1>1, <1>3 DEF BucketInv

\* A transaction takes a token or none of what the refilled bucket holds, and
\* the time it refilled is the time it moves updated_at or sets it back.
LEMMA ConsumeKeeps ==
  ASSUME BucketInv, NEW w \in Workers, Bucket!Consume(w)
  PROVE  BucketInv'
<1> DEFINE at == stamp[w]
           from == IF updated = Bucket!NoRow THEN at ELSE updated
           held == Bucket!Refilled(from, at)
           taken == IF held >= Unit THEN 1 ELSE 0
           gap == Bucket!Larger(0, at - from)
           back == Bucket!Larger(0, from - at)
<1>1. Bucket!TypeOK /\ RowInv /\ QuotaSharedUnlessSetBack
  BY DEF BucketInv
<1>2. at \in 0..Horizon /\ from \in 0..Horizon
  BY <1>1 DEF Bucket!Consume, Bucket!TypeOK, Bucket!Idle, Bucket!NoRow
<1>3. /\ tokens' = held - taken * Unit /\ updated' = at
      /\ granted' = granted + taken /\ setBack' = setBack + back
      /\ first' = IF updated = Bucket!NoRow THEN at ELSE first
      /\ stamp' = [stamp EXCEPT ![w] = Bucket!Idle] /\ clock' = clock
  BY DEF Bucket!Consume, Bucket!Written
<1>4. held \in 0..Capacity /\ held <= tokens + Rate * gap
  BY <1>1, <1>2, RefillBounds
<1>5. gap \in Nat /\ back \in Nat /\ at + back = from + gap
  BY <1>2 DEF Bucket!Larger
<1>6. Capacity \in Nat /\ Unit \in Nat \ {0} /\ Rate \in Nat /\ Horizon \in Nat
  BY BucketAssumption DEF BucketAssumption
<1>7. /\ clock \in 0..Horizon /\ tokens \in 0..Capacity /\ granted \in Nat /\ setBack \in Nat
      /\ first \in Int /\ updated \in Int
  BY <1>1 DEF Bucket!TypeOK, Bucket!NoRow
<1> HIDE DEF held, gap, back
<1>8. /\ taken \in {0, 1}
      /\ taken = 0 => tokens' = held /\ granted' = granted
      /\ taken = 1 => tokens' = held - Unit /\ granted' = granted + 1 /\ held >= Unit
  BY <1>3, <1>4, <1>6, <1>7
<1> HIDE DEF taken
<1>9. tokens' \in 0..Capacity /\ granted' \in Nat
  BY <1>4, <1>6, <1>7, <1>8
<1>10. granted * Unit \in Nat /\ (granted + 1) * Unit = granted * Unit + Unit
  BY <1>7, TokenAdds
<1>11. granted' * Unit + tokens' = granted * Unit + held
  BY <1>4, <1>6, <1>7, <1>8, <1>10
<1>12. Bucket!TypeOK'
  <2>1. setBack' \in Nat /\ updated' \in 0..Horizon \cup {Bucket!NoRow}
    BY <1>2, <1>3, <1>5, <1>7
  <2>2. first' \in 0..Horizon \cup {Bucket!NoRow}
    BY <1>1, <1>2, <1>3 DEF Bucket!TypeOK
  <2>3. stamp' \in [Workers -> 0..Horizon \cup {Bucket!Idle}]
    BY <1>1, <1>3 DEF Bucket!TypeOK
  <2> QED
    BY <1>3, <1>7, <1>9, <2>1, <2>2, <2>3 DEF Bucket!TypeOK
<1>13. RowInv'
  <2>1. updated' # Bucket!NoRow
    BY <1>2, <1>3 DEF Bucket!NoRow
  <2>2. first' # Bucket!NoRow
    BY <1>1, <1>2, <1>3 DEF RowInv, Bucket!NoRow
  <2> QED
    BY <2>1, <2>2 DEF RowInv
<1>14. QuotaSharedUnlessSetBack'
  <2> DEFINE old == updated - first + setBack
             new == updated' - first' + setBack'
  <2>1. old \in Int /\ new = old + gap
    <3>1. CASE updated = Bucket!NoRow
      <4>1. first = Bucket!NoRow /\ setBack = 0 /\ from = at
        BY <1>1, <3>1 DEF RowInv
      <4> QED
        BY <1>2, <1>3, <1>5, <1>7, <3>1, <4>1
    <3>2. CASE updated # Bucket!NoRow
      <4>1. from = updated /\ first' = first
        BY <1>3, <3>2
      <4> QED
        BY <1>2, <1>3, <1>5, <1>7, <4>1
    <3> QED
      BY <3>1, <3>2
  <2>2. /\ granted * Unit + tokens <= Capacity + Rate * old
        /\ QuotaSharedUnlessSetBack' <=> granted' * Unit + tokens' <= Capacity + Rate * new
    BY <1>1 DEF QuotaSharedUnlessSetBack
  <2> HIDE DEF old, new
  <2>3. Rate * new = Rate * old + Rate * gap /\ Rate * old \in Int /\ Rate * gap \in Int
    <3>1. gap \in Int
      BY <1>5
    <3>2. /\ Rate * (old + gap) = Rate * old + Rate * gap
          /\ Rate * old \in Int /\ Rate * gap \in Int
      BY <2>1, <3>1, RefillAdds
    <3> QED
      BY <2>1, <3>2, Zenon
  <2>4. granted * Unit + held <= Capacity + Rate * new
    BY <1>4, <1>6, <1>7, <1>10, <2>2, <2>3
  <2> QED
    BY <1>11, <2>2, <2>4
<1> QED
  BY <1>12, <1>13, <1>14 DEF BucketInv

\* Every step keeps the invariant.
THEOREM BucketStep == BucketInv /\ [Bucket!Next]_(Bucket!vars) => BucketInv'
<1> SUFFICES ASSUME BucketInv, [Bucket!Next]_(Bucket!vars) PROVE BucketInv'
  OBVIOUS
<1>1. CASE Bucket!Tick
  <2>1. clock' \in 0..Horizon
    BY <1>1, BucketAssumption DEF Bucket!Tick, BucketInv, Bucket!TypeOK, BucketAssumption
  <2> QED
    BY <1>1, <2>1 DEF Bucket!Tick, BucketInv, Bucket!TypeOK, RowInv, QuotaSharedUnlessSetBack
<1>2. ASSUME NEW w \in Workers, Bucket!Ask(w) PROVE BucketInv'
  <2>1. stamp' \in [Workers -> 0..Horizon \cup {Bucket!Idle}]
    BY <1>2 DEF Bucket!Ask, BucketInv, Bucket!TypeOK
  <2> QED
    BY <1>2, <2>1 DEF Bucket!Ask, BucketInv, Bucket!TypeOK, RowInv, QuotaSharedUnlessSetBack
<1>3. ASSUME NEW w \in Workers, Bucket!StoreFails(w) PROVE BucketInv'
  <2>1. stamp' \in [Workers -> 0..Horizon \cup {Bucket!Idle}]
    BY <1>3 DEF Bucket!StoreFails, BucketInv, Bucket!TypeOK
  <2> QED
    BY <1>3, <2>1 DEF Bucket!StoreFails, BucketInv, Bucket!TypeOK, RowInv, QuotaSharedUnlessSetBack
<1>4. ASSUME NEW w \in Workers, Bucket!Consume(w) PROVE BucketInv'
  BY <1>4, ConsumeKeeps
<1>5. CASE UNCHANGED Bucket!vars
  BY <1>5 DEF Bucket!vars, BucketInv, Bucket!TypeOK, RowInv, QuotaSharedUnlessSetBack
<1> QED
  BY <1>1, <1>2, <1>3, <1>4, <1>5 DEF Bucket!Next

\* The inductive invariant: types, the row's beginning, and the quota.
THEOREM BucketInvariant == Bucket!Spec => []BucketInv
BY BucketInit, BucketStep, PTL DEF Bucket!Spec

\* However many replicas take tokens, and in whatever order their transactions
\* commit, they admit one bucket and its refill, but for the time set back.
THEOREM QuotaIsShared == Bucket!Spec => []QuotaSharedUnlessSetBack
<1>1. BucketInv => QuotaSharedUnlessSetBack
  BY DEF BucketInv
<1> QED
  BY BucketInvariant, <1>1, PTL

\* The row and its stamps stay well typed.
THEOREM BucketTyped == Bucket!Spec => []Bucket!TypeOK
<1>1. BucketInv => Bucket!TypeOK
  BY DEF BucketInv
<1> QED
  BY BucketInvariant, <1>1, PTL

(***************************************************************************)
(* The keys of consumers (KeyAdmin)                                        *)
(***************************************************************************)
\* What the operator may have been told last of a key.
Verdicts == {"none", "issued", "revoked", "rotated"}
\* The changes the dashboard makes to a consumer's record.
Works == {"create", "rotate", "revoke", "enable", "disable"}

\* What the variables may hold.
KeysTyped ==
    /\ clock \in Nat /\ rec \in Keyring!Record /\ digests \subseteq ApiKeys
    /\ hashes \in [AdminReplicas -> SUBSET ApiKeys] /\ mirror \in [AdminReplicas -> SUBSET ApiKeys]
    /\ edit \in [AdminReplicas -> {Keyring!NoEdit} \cup
                    [kind : Works, key : ApiKeys, read : BOOLEAN, flag : BOOLEAN, copy : Keyring!Record]]
    /\ said \in [ApiKeys -> Verdicts] /\ saidLive \in BOOLEAN

\* No replica knows the key, nor does the record.
Unheard(k) == rec.state[k] = "none" /\ \A p \in AdminReplicas : k \notin hashes[p] \cup mirror[p]

\* What the operator was told of a key is in the record and, for a key that is to
\* work, in the table of digests.
KeyKept(k) ==
    /\ rec.state[k] = "none" => rec.until[k] = Keyring!Never
    /\ said[k] = "none" => Unheard(k)
    /\ said[k] = "revoked" => rec.state[k] = "revoked"
    /\ said[k] = "rotated" => rec.state[k] = "active" /\ rec.until[k] # Keyring!Never
    /\ said[k] = "issued" =>
          /\ k \in digests /\ rec.until[k] = Keyring!Never
          /\ \/ rec.state[k] = "active"
             \/ rec.state[k] = "none" /\ \A p \in AdminReplicas : k \in hashes[p] /\ k \in mirror[p]

\* A key that is about to be saved for the first time is new to the copy.
NewUnheard == \A p \in AdminReplicas :
    edit[p] # Keyring!NoEdit /\ edit[p].kind \in {"create", "rotate"} /\ edit[p].key \notin lost
        => edit[p].copy.state[edit[p].key] = "none"

\* All of it.
KeysInv ==
    /\ KeysTyped /\ NewUnheard
    /\ \A k \in ApiKeys \ lost : KeyKept(k)
    /\ "status" \notin lost => rec.live = saidLive

\* Only the provisioned keys are known at first.
LEMMA KeysStart == Keyring!Init => KeysInv
<1> SUFFICES ASSUME Keyring!Init PROVE KeysInv
  OBVIOUS
<1> USE KeyringAssumption DEF Keyring!Init, Keyring!Blank, Keyring!Never
<1>0. Keyring!Blank \in Keyring!Record
  BY DEF Keyring!Record, Keyring!States
<1>1. KeysTyped
  BY <1>0 DEF KeysTyped, Verdicts
<1>2. NewUnheard
  BY DEF NewUnheard
<1>3. \A k \in ApiKeys : KeyKept(k)
  BY DEF KeyKept, Unheard
<1>4. rec.live = saidLive
  OBVIOUS
<1> QED
  BY <1>1, <1>2, <1>3, <1>4 DEF KeysInv

\* Writing a copy back keeps every key but those whose change it undoes.
LEMMA SavedKeys ==
  ASSUME KeysInv, NEW p \in AdminReplicas, Keyring!Save(p)
  PROVE  KeysInv'
<1>0. PICK e : e = edit[p]
  OBVIOUS
<1>1. e \in [kind : Works, key : ApiKeys, read : BOOLEAN, flag : BOOLEAN, copy : Keyring!Record]
  BY <1>0 DEF Keyring!Save, KeysInv, KeysTyped
<1>2. /\ e.kind \in Works /\ e.key \in ApiKeys /\ e.copy \in Keyring!Record
      /\ e.copy.state \in [ApiKeys -> Keyring!States] /\ e.copy.until \in [ApiKeys -> Int]
      /\ e.copy.live \in BOOLEAN
  BY <1>1 DEF Keyring!Record
<1>3. KeysTyped /\ NewUnheard /\ clock \in Nat
  BY DEF KeysInv, KeysTyped
<1>4. /\ edit' = [edit EXCEPT ![p] = Keyring!NoEdit]
      /\ rec' = Keyring!Edited(e) /\ digests' = Keyring!WithKey(e, digests)
      /\ hashes' = [hashes EXCEPT ![p] = Keyring!WithKey(e, hashes[p])]
      /\ mirror' = [mirror EXCEPT ![p] = hashes'[p]] \/ mirror' = mirror
      /\ said' = Keyring!Told(e) /\ clock' = clock
      /\ saidLive' = IF e.kind \in {"enable", "disable"} THEN rec'.live ELSE saidLive
  BY <1>0 DEF Keyring!Save
<1>5. /\ lost \subseteq lost'
      /\ \A k \in ApiKeys \ lost' : /\ Keyring!View(p, rec).state[k] = e.copy.state[k]
                                    /\ rec.until[k] = e.copy.until[k]
      /\ "status" \notin lost' => rec.live = e.copy.live
  BY <1>0 DEF Keyring!Save
<1>6. \A S \in SUBSET ApiKeys : Keyring!WithKey(e, S) \in SUBSET ApiKeys
  BY <1>2 DEF Keyring!WithKey
<1>7. rec' \in Keyring!Record
  <2>1. CASE e.kind \in {"create", "rotate"}
    <3> DEFINE u == [j \in ApiKeys |-> IF e.kind = "rotate" /\ Keyring!Rotated(e.copy, j) THEN clock + RotationGrace
                                       ELSE e.copy.until[j]]
    <3>1. u \in [ApiKeys -> Int]
      BY <1>2, <1>3, KeyringAssumption
    <3>2. rec' = [e.copy EXCEPT !.state[e.key] = "active", !.until = u]
      BY <1>4, <2>1 DEF Keyring!Edited, Keyring!Issued
    <3> HIDE DEF u
    <3> QED
      BY <1>2, <3>1, <3>2 DEF Keyring!Record, Keyring!States
  <2>2. CASE e.kind = "revoke"
    BY <1>2, <1>4, <2>2 DEF Keyring!Edited, Keyring!Revoked, Keyring!Record, Keyring!States
  <2>3. CASE e.kind \in {"enable", "disable"}
    BY <1>2, <1>4, <2>3 DEF Keyring!Edited, Keyring!WithStatus, Keyring!Record
  <2> QED
    BY <1>2, <2>1, <2>2, <2>3 DEF Works
<1>8. KeysTyped'
  <2>1. said' \in [ApiKeys -> Verdicts]
    BY <1>3, <1>4 DEF Keyring!Told, Verdicts, KeysTyped
  <2>2. digests' \subseteq ApiKeys /\ hashes' \in [AdminReplicas -> SUBSET ApiKeys]
    BY <1>3, <1>4, <1>6 DEF KeysTyped
  <2>3. mirror' \in [AdminReplicas -> SUBSET ApiKeys]
    BY <1>3, <1>4, <2>2 DEF KeysTyped
  <2>4. saidLive' \in BOOLEAN
    BY <1>3, <1>4, <1>7 DEF KeysTyped, Keyring!Record
  <2>5. edit' \in [AdminReplicas -> {Keyring!NoEdit} \cup
                    [kind : Works, key : ApiKeys, read : BOOLEAN, flag : BOOLEAN, copy : Keyring!Record]]
    BY <1>3, <1>4 DEF KeysTyped
  <2> QED
    BY <1>3, <1>4, <1>7, <2>1, <2>2, <2>3, <2>4, <2>5 DEF KeysTyped
<1>9. NewUnheard'
  <2>1. edit'[p] = Keyring!NoEdit /\ \A q \in AdminReplicas : q # p => edit'[q] = edit[q]
    BY <1>3, <1>4 DEF KeysTyped
  <2> QED
    BY <2>1, <1>3, <1>5 DEF NewUnheard
<1>10. ASSUME NEW k \in ApiKeys \ lost' PROVE KeyKept(k)'
  <2>1. KeyKept(k)
    BY <1>5 DEF KeysInv
  <2>2. /\ e.copy.until[k] = rec.until[k]
        /\ e.copy.state[k] = IF rec.state[k] = "none" /\ k \in hashes[p] THEN "active" ELSE rec.state[k]
    BY <1>3, <1>5 DEF Keyring!View, KeysTyped, Keyring!Record
  <2>3. rec.state[k] \in Keyring!States /\ rec.until[k] \in Int /\ said[k] \in Verdicts
    BY <1>3 DEF KeysTyped, Keyring!Record
  <2>4. k # e.key => /\ (k \in digests' <=> k \in digests)
                     /\ \A q \in AdminReplicas : k \in hashes'[q] <=> k \in hashes[q]
    BY <1>3, <1>4 DEF Keyring!WithKey, KeysTyped
  <2>5. k # e.key =>
          \A q \in AdminReplicas :
             /\ k \notin hashes[q] \cup mirror[q] => k \notin hashes'[q] \cup mirror'[q]
             /\ k \in hashes[q] \cap mirror[q] => k \in hashes'[q] \cap mirror'[q]
    BY <2>4, <1>3, <1>4, <1>8 DEF KeysTyped
  <2>6. CASE k = e.key /\ e.kind = "revoke"
    <3>1. rec'.state[k] = "revoked" /\ said'[k] = "revoked"
      BY <1>2, <1>4, <2>6 DEF Keyring!Edited, Keyring!Revoked, Keyring!Told, Keyring!Record
    <3> QED
      BY <3>1 DEF KeyKept
  <2>7. CASE k = e.key /\ e.kind \in {"create", "rotate"}
    <3>1. e.copy.state[k] = "none"
      BY <1>0, <1>1, <1>3, <1>5, <2>7 DEF NewUnheard, Keyring!NoEdit
    <3>2. rec.state[k] = "none" /\ e.copy.until[k] = Keyring!Never
      BY <2>1, <2>2, <3>1 DEF KeyKept
    <3>3. /\ rec'.state[k] = "active" /\ rec'.until[k] = e.copy.until[k]
      BY <1>2, <1>4, <2>7, <3>1 DEF Keyring!Edited, Keyring!Issued, Keyring!Rotated, Keyring!Record
    <3>4. said'[k] = "issued" /\ k \in digests'
      <4>1. said'[k] = "issued"
        BY <1>4, <2>7 DEF Keyring!Told
      <4>2. Keyring!WithKey(e, digests) = digests \cup {e.key}
        BY <2>7 DEF Keyring!WithKey
      <4> QED
        BY <1>4, <2>7, <4>1, <4>2
    <3> QED
      BY <3>2, <3>3, <3>4 DEF KeyKept
  <2>8. CASE (k = e.key /\ e.kind \in {"enable", "disable"}) \/ k # e.key
    <3> DEFINE timed == e.kind = "rotate" /\ Keyring!Rotated(e.copy, k)
    <3>1. /\ rec'.state[k] = e.copy.state[k]
          /\ rec'.until[k] = IF timed THEN clock + RotationGrace ELSE e.copy.until[k]
      <4>1. CASE e.kind \in {"create", "rotate"}
        BY <1>2, <1>4, <2>8, <4>1 DEF Keyring!Edited, Keyring!Issued, Keyring!Record
      <4>2. CASE e.kind = "revoke"
        BY <1>2, <1>4, <2>8, <4>2 DEF Keyring!Edited, Keyring!Revoked, Keyring!Record
      <4>3. CASE e.kind \in {"enable", "disable"}
        BY <1>2, <1>4, <2>8, <4>3 DEF Keyring!Edited, Keyring!WithStatus, Keyring!Record
      <4> QED
        BY <1>2, <4>1, <4>2, <4>3 DEF Works
    <3>2. said'[k] = IF e.kind = "rotate" /\ said[k] = "issued" /\ Keyring!Rotated(e.copy, k)
                     THEN "rotated" ELSE said[k]
      BY <1>4, <2>8 DEF Keyring!Told
    <3>3. timed => e.copy.state[k] = "active" /\ rec.until[k] = Keyring!Never
      BY <2>2 DEF Keyring!Rotated
    <3>4. /\ (k \in digests' <=> k \in digests)
          /\ \A q \in AdminReplicas : /\ k \notin hashes[q] \cup mirror[q] => k \notin hashes'[q] \cup mirror'[q]
                                      /\ k \in hashes[q] \cap mirror[q] => k \in hashes'[q] \cap mirror'[q]
      <4>1. CASE k # e.key
        <5>1. (k \in digests' <=> k \in digests)
          BY <2>4, <4>1
        <5>2. ASSUME NEW q \in AdminReplicas
              PROVE  /\ k \notin hashes[q] \cup mirror[q] => k \notin hashes'[q] \cup mirror'[q]
                     /\ k \in hashes[q] \cap mirror[q] => k \in hashes'[q] \cap mirror'[q]
          BY <2>5, <4>1
        <5> QED
          BY <5>1, <5>2, Zenon
      <4>2. CASE e.kind \in {"enable", "disable"}
        <5>1. digests' = digests /\ hashes' = hashes
          BY <1>3, <1>4, <4>2 DEF Keyring!WithKey, KeysTyped
        <5> QED
          BY <5>1, <1>3, <1>4 DEF KeysTyped
      <4> QED
        BY <2>8, <4>1, <4>2
    <3>5. clock + RotationGrace # Keyring!Never
      BY <1>3, KeyringAssumption DEF Keyring!Never
    <3>6. rec'.state[k] = "none" => rec'.until[k] = Keyring!Never
      BY <2>1, <2>2, <3>1, <3>3 DEF KeyKept
    <3>7. CASE said[k] = "none"
      <4>1. rec.state[k] = "none" /\ \A q \in AdminReplicas : k \notin hashes[q] \cup mirror[q]
        BY <2>1, <3>7 DEF KeyKept, Unheard
      <4>2. rec'.state[k] = "none" /\ said'[k] = "none"
        BY <2>2, <3>1, <3>2, <3>7, <4>1
      <4> QED
        BY <3>4, <3>6, <4>1, <4>2 DEF KeyKept, Unheard
    <3>8. CASE said[k] = "revoked"
      <4>1. rec'.state[k] = "revoked" /\ said'[k] = "revoked"
        BY <2>1, <2>2, <3>1, <3>2, <3>8 DEF KeyKept
      <4> QED
        BY <4>1 DEF KeyKept
    <3>9. CASE said[k] = "rotated"
      <4>1. rec'.state[k] = "active" /\ said'[k] = "rotated" /\ rec'.until[k] # Keyring!Never
        BY <2>1, <2>2, <3>1, <3>2, <3>3, <3>9 DEF KeyKept
      <4> QED
        BY <4>1 DEF KeyKept
    <3>10. CASE said[k] = "issued"
      <4>1. /\ k \in digests /\ rec.until[k] = Keyring!Never
            /\ \/ rec.state[k] = "active"
               \/ rec.state[k] = "none" /\ \A q \in AdminReplicas : k \in hashes[q] /\ k \in mirror[q]
        BY <2>1, <3>10 DEF KeyKept
      <4>2. rec'.state[k] = "active"
        BY <2>2, <3>1, <4>1
      <4>3. timed => said'[k] = "rotated" /\ rec'.until[k] # Keyring!Never
        BY <3>1, <3>2, <3>5, <3>10
      <4>4. ~timed => said'[k] = "issued" /\ rec'.until[k] = Keyring!Never
        BY <2>2, <3>1, <3>2, <3>10, <4>1
      <4> QED
        BY <3>4, <4>1, <4>2, <4>3, <4>4 DEF KeyKept
    <3> QED
      BY <2>3, <3>7, <3>8, <3>9, <3>10 DEF Verdicts
  <2> QED
    BY <1>2, <2>6, <2>7, <2>8 DEF Works
<1>11. ASSUME "status" \notin lost' PROVE rec'.live = saidLive'
  <2>1. rec.live = e.copy.live /\ rec.live = saidLive
    BY <1>5, <1>11 DEF KeysInv
  <2>2. CASE e.kind \in {"enable", "disable"}
    BY <1>4, <2>2
  <2>3. CASE e.kind = "revoke"
    BY <1>2, <1>4, <2>1, <2>3 DEF Keyring!Edited, Keyring!Revoked, Keyring!Record
  <2>4. CASE e.kind \in {"create", "rotate"}
    BY <1>2, <1>4, <2>1, <2>4 DEF Keyring!Edited, Keyring!Issued, Keyring!Record
  <2> QED
    BY <1>2, <2>2, <2>3, <2>4 DEF Works
<1> QED
  BY <1>8, <1>9, <1>10, <1>11 DEF KeysInv

\* The handlers, the readers' refreshes, restarts and the clock.
LEMMA KeysStep == KeysInv /\ [Keyring!Next]_(Keyring!vars) => KeysInv'
<1> SUFFICES ASSUME KeysInv, [Keyring!Next]_(Keyring!vars) PROVE KeysInv'
  OBVIOUS
<1>0. KeysTyped /\ NewUnheard /\ KeyringAssumption
  BY KeyringAssumption DEF KeysInv, KeyringAssumption
<1> USE DEF Keyring!store, Keyring!local, Keyring!ghosts
<1>1. CASE Keyring!Tick
  <2>1. KeysTyped'
    BY <1>0, <1>1 DEF Keyring!Tick, KeysTyped
  <2>2. NewUnheard' /\ (\A k \in ApiKeys \ lost' : KeyKept(k)') /\ ("status" \notin lost' => rec'.live = saidLive')
    BY <1>0, <1>1 DEF Keyring!Tick, KeysInv, NewUnheard, KeyKept, Unheard
  <2> QED
    BY <2>1, <2>2 DEF KeysInv
<1>2. ASSUME NEW p \in AdminReplicas, NEW w \in Keyring!Kinds, Keyring!Load(p, w[1], w[2]) PROVE KeysInv'
  <2>1. w[1] \in Works /\ w[2] \in ApiKeys
    BY KeyringAssumption DEF Keyring!Kinds, Works
  <2>2. PICK ok \in BOOLEAN, r \in {rec, Keyring!Blank} :
          edit' = [edit EXCEPT ![p] = [kind |-> w[1], key |-> w[2], read |-> ok, flag |-> ok,
                                       copy |-> Keyring!View(p, r)]]
    BY <1>2 DEF Keyring!Load
  <2>3. Keyring!Blank \in Keyring!Record
    BY DEF Keyring!Record, Keyring!States, Keyring!Blank, Keyring!Never
  <2>4. /\ Keyring!View(p, r) \in Keyring!Record
        /\ \A k \in ApiKeys : Keyring!View(p, r).state[k] = IF r.state[k] = "none" /\ k \in hashes[p] THEN "active" ELSE r.state[k]
    BY <1>0, <2>3 DEF Keyring!View, KeysTyped, Keyring!Record, Keyring!States
  <2>5. edit'[p] = [kind |-> w[1], key |-> w[2], read |-> ok, flag |-> ok, copy |-> Keyring!View(p, r)]
        /\ \A q \in AdminReplicas : q # p => edit'[q] = edit[q]
    BY <1>0, <2>2 DEF KeysTyped
  <2>6. UNCHANGED <<clock, rec, digests, hashes, mirror, said, saidLive, lost>>
    BY <1>2 DEF Keyring!Load
  <2>7. KeysTyped'
    BY <1>0, <2>1, <2>2, <2>4, <2>6 DEF KeysTyped
  <2>8. NewUnheard'
    <3> SUFFICES ASSUME w[1] \in {"create", "rotate"}, w[2] \notin lost
                 PROVE  Keyring!View(p, r).state[w[2]] = "none"
      BY <1>0, <2>5, <2>6 DEF NewUnheard
    <3>1. said[w[2]] = "none"
      BY <1>2 DEF Keyring!Load
    <3>2. rec.state[w[2]] = "none" /\ w[2] \notin hashes[p]
      BY <2>1, <3>1 DEF KeysInv, KeyKept, Unheard
    <3> QED
      BY <2>1, <2>4, <3>2 DEF Keyring!Blank
  <2>9. (\A k \in ApiKeys \ lost' : KeyKept(k)') /\ ("status" \notin lost' => rec'.live = saidLive')
    BY <2>6 DEF KeysInv, KeyKept, Unheard
  <2> QED
    BY <2>7, <2>8, <2>9 DEF KeysInv
<1>3. ASSUME NEW p \in AdminReplicas, Keyring!LoadElsewhere(p) \/ Keyring!Refuse(p) PROVE KeysInv'
  <2>1. UNCHANGED <<clock, rec, digests, hashes, mirror, said, saidLive, lost>>
    BY <1>3 DEF Keyring!LoadElsewhere, Keyring!Refuse
  <2>2. KeysTyped'
    <3>1. CASE Keyring!Refuse(p)
      BY <1>0, <2>1, <3>1 DEF Keyring!Refuse, KeysTyped
    <3>2. CASE Keyring!LoadElsewhere(p)
      <4>1. edit[p] \in [kind : Works, key : ApiKeys, read : BOOLEAN, flag : BOOLEAN, copy : Keyring!Record]
        BY <1>0, <3>2 DEF Keyring!LoadElsewhere, KeysTyped
      <4>2. (~edit[p].flag) \in BOOLEAN
        OBVIOUS
      <4>3. edit' = [edit EXCEPT ![p] = [edit[p] EXCEPT !.flag = ~edit[p].flag]]
        BY <3>2 DEF Keyring!LoadElsewhere
      <4>4. [edit[p] EXCEPT !.flag = ~edit[p].flag]
              \in [kind : Works, key : ApiKeys, read : BOOLEAN, flag : BOOLEAN, copy : Keyring!Record]
        BY <4>1, <4>2
      <4> QED
        BY <1>0, <2>1, <4>3, <4>4 DEF KeysTyped
    <3> QED
      BY <1>3, <3>1, <3>2
  <2>3. NewUnheard'
    <3>1. \A q \in AdminReplicas : edit'[q] # Keyring!NoEdit =>
             edit[q] # Keyring!NoEdit /\ edit'[q].kind = edit[q].kind
             /\ edit'[q].key = edit[q].key /\ edit'[q].copy = edit[q].copy
      <4>1. CASE Keyring!Refuse(p)
        BY <1>0, <4>1 DEF Keyring!Refuse, KeysTyped
      <4>2. CASE Keyring!LoadElsewhere(p)
        BY <1>0, <4>2 DEF Keyring!LoadElsewhere, KeysTyped
      <4> QED
        BY <1>3, <4>1, <4>2
    <3> QED
      BY <1>0, <2>1, <3>1 DEF NewUnheard
  <2>4. (\A k \in ApiKeys \ lost' : KeyKept(k)') /\ ("status" \notin lost' => rec'.live = saidLive')
    BY <2>1 DEF KeysInv, KeyKept, Unheard
  <2> QED
    BY <2>2, <2>3, <2>4 DEF KeysInv
<1>4. ASSUME NEW p \in AdminReplicas, Keyring!Restart(p) PROVE KeysInv'
  <2>1. KeysTyped'
    BY <1>0, <1>4 DEF Keyring!Restart, KeysTyped
  <2>2. NewUnheard'
    BY <1>0, <1>4 DEF Keyring!Restart, KeysTyped, NewUnheard
  <2>3. ASSUME NEW k \in ApiKeys \ lost' PROVE KeyKept(k)'
    <3>1. KeyKept(k) /\ UNCHANGED <<rec, said, mirror>> /\ digests \subseteq digests'
      BY <1>4 DEF KeysInv, Keyring!Restart
    <3>2. \A q \in AdminReplicas : hashes'[q] = hashes[q] \/ hashes'[q] = mirror[q]
      BY <1>0, <1>4 DEF Keyring!Restart, KeysTyped
    <3>3. Unheard(k) => Unheard(k)'
      BY <3>1, <3>2 DEF Unheard
    <3>4. (\A q \in AdminReplicas : k \in hashes[q] /\ k \in mirror[q]) =>
            \A q \in AdminReplicas : k \in hashes'[q] /\ k \in mirror'[q]
      BY <3>1, <3>2
    <3> QED
      BY <3>1, <3>3, <3>4 DEF KeyKept
  <2>4. "status" \notin lost' => rec'.live = saidLive'
    BY <1>4 DEF Keyring!Restart, KeysInv
  <2> QED
    BY <2>1, <2>2, <2>3, <2>4 DEF KeysInv
<1>5. CASE UNCHANGED Keyring!vars
  <2>1. KeysTyped'
    BY <1>0, <1>5 DEF Keyring!vars, KeysTyped
  <2>2. NewUnheard' /\ (\A k \in ApiKeys \ lost' : KeyKept(k)') /\ ("status" \notin lost' => rec'.live = saidLive')
    BY <1>5 DEF Keyring!vars, KeysInv, NewUnheard, KeyKept, Unheard
  <2> QED
    BY <2>1, <2>2 DEF KeysInv
<1> QED
  BY <1>1, <1>2, <1>3, <1>4, <1>5, SavedKeys DEF Keyring!Next

\* The invariant is more than the property.
LEMMA KeysHeld == KeysInv => Keyring!VerdictsHoldUnlessLost
<1> SUFFICES ASSUME KeysInv, NEW p \in AdminReplicas, NEW k \in ApiKeys \ lost
             PROVE  /\ said[k] = "revoked" => ~Keyring!Accepts(p, k)
                    /\ said[k] = "rotated" /\ clock >= rec.until[k] => ~Keyring!Accepts(p, k)
                    /\ said[k] = "issued" /\ "status" \notin lost => (Keyring!Accepts(p, k) <=> saidLive)
  BY DEF Keyring!VerdictsHoldUnlessLost
<1>1. KeyKept(k) /\ ("status" \notin lost => rec.live = saidLive)
  BY DEF KeysInv
<1>2. /\ Keyring!View(p, rec).state[k] = IF rec.state[k] = "none" /\ k \in hashes[p] THEN "active" ELSE rec.state[k]
      /\ Keyring!View(p, rec).until[k] = rec.until[k]
      /\ rec.until[k] \in Int /\ clock \in Nat
  BY DEF KeysInv, KeysTyped, Keyring!View, Keyring!Record
<1>3. said[k] = "revoked" => ~Keyring!KeyAllows(Keyring!View(p, rec), k)
  BY <1>1, <1>2 DEF KeyKept, Keyring!KeyAllows
<1>4. said[k] = "rotated" /\ clock >= rec.until[k] => ~Keyring!KeyAllows(Keyring!View(p, rec), k)
  BY <1>1, <1>2 DEF KeyKept, Keyring!KeyAllows
<1>5. said[k] = "issued" => Keyring!KeyAllows(Keyring!View(p, rec), k) /\ k \in digests
  BY <1>1, <1>2 DEF KeyKept, Keyring!KeyAllows
<1>6. said[k] = "revoked" => ~Keyring!Accepts(p, k)
  BY <1>3, Zenon DEF Keyring!Accepts, Keyring!Resolves
<1>7. said[k] = "rotated" /\ clock >= rec.until[k] => ~Keyring!Accepts(p, k)
  BY <1>4, Zenon DEF Keyring!Accepts, Keyring!Resolves
<1>8. said[k] = "issued" => (Keyring!Accepts(p, k) <=> rec.live)
  BY <1>5, Zenon DEF Keyring!Accepts, Keyring!Resolves
<1>9. said[k] = "issued" /\ "status" \notin lost => (Keyring!Accepts(p, k) <=> saidLive)
  BY <1>1, <1>8, Zenon
<1> QED
  BY <1>6, <1>7, <1>9, Zenon

\* What the operator was last told of a key is what every replica answers: a
\* revoked key is refused, a rotated one once its grace is over, an issued one is
\* accepted if and only if its consumer is enabled; excused when another handler's
\* write lost it (auth_proxy.py, _caller_auth and dashboard_create_key).
THEOREM VerdictsOfKeys == Keyring!Spec => []Keyring!VerdictsHoldUnlessLost
BY KeysStart, KeysStep, KeysHeld, PTL DEF Keyring!Spec

(***************************************************************************)
(* The verdicts of the control plane (ControlPlane)                        *)
(***************************************************************************)
\* What a cache holds of a verdict.
Entries == [version : -1..MaxVersion, at : Nat]
\* What a request is at.
Lookups == {Control!Idle} \cup [at : {"following"}]
             \cup [at : {"asked"}, from : Nat, old : Entries]
             \cup [at : {"answered"}, from : Nat, old : Entries, version : 0..MaxVersion]

\* A verdict on a key is stamped when its call returns, one on an environment
\* when it begins.
Delay == IF topic = "key" THEN ResolveTime ELSE 0
\* The request has a call to the control plane of its own.
UnderWay(r) == req[r].at \in {"asked", "answered"}

\* What the variables may hold.
ControlTyped ==
    /\ clock \in 0..ResolveHorizon /\ truth \in 0..MaxVersion
    /\ since \in [0..MaxVersion -> Nat] /\ topic \in {"key", "env"}
    /\ cache \in Entries /\ req \in [Resolvers -> Lookups]
    /\ served \in [newest : Nat, older : BOOLEAN, late : Int]

\* No request outlives its call.
CallsShort == \A r \in Resolvers : UnderWay(r) =>
                  req[r].from <= clock /\ clock <= req[r].from + ResolveTime

(* An entry is no younger than its stamp says, but for a call.             *)
EntryDated(e) ==
    e # Control!NoEntry => /\ e.version \in 0..truth /\ e.at <= clock
                           /\ since[e.version] >= e.at - Delay

\* The cached entry and what requests remember of it are dated so.
Dated ==
    /\ \A v \in 0..MaxVersion : v >= truth => since[v] = ResolveHorizon
    /\ EntryDated(cache)
    /\ \A r \in Resolvers : UnderWay(r) => EntryDated(req[r].old)
    /\ \A r \in Resolvers : req[r].at = "answered" =>
          req[r].version <= truth /\ since[req[r].version] >= req[r].from

(* While a key is asked about, its cache is what the leader saw, or empty.  *)
OneLeader == topic = "key" =>
    \A r \in Resolvers : UnderWay(r) =>
        /\ leader = r /\ cache \in {req[r].old, Control!NoEntry}
        /\ ~Control!Fresh(req[r].old)

\* Whatever a request may still be answered with is no older than what was served.
NewestAhead == topic = "key" =>
    /\ ~served.older /\ served.newest <= truth
    /\ cache # Control!NoEntry => served.newest <= cache.version
    /\ \A r \in Resolvers :
          /\ UnderWay(r) /\ req[r].old # Control!NoEntry => served.newest <= req[r].old.version
          /\ req[r].at = "answered" => served.newest <= req[r].version

\* All of it.
ControlInv == ControlTyped /\ CallsShort /\ Dated /\ OneLeader /\ NewestAhead
                /\ Control!RevocationTakesHold

\* Nothing is cached or served at first.
LEMMA ControlStart == Control!Init => ControlInv
<1> SUFFICES ASSUME Control!Init PROVE ControlInv
  OBVIOUS
<1> USE ControlAssumption DEF Control!Init, Control!NoEntry, Control!Idle, UnderWay
<1>1. ControlTyped
  BY DEF ControlTyped, Entries, Lookups
<1>2. CallsShort
  BY DEF CallsShort
<1>3. Dated
  BY DEF Dated, EntryDated
<1>4. OneLeader
  BY DEF OneLeader
<1>5. NewestAhead
  BY DEF NewestAhead
<1>6. Control!RevocationTakesHold
  BY DEF Control!RevocationTakesHold
<1> QED
  BY <1>1, <1>2, <1>3, <1>4, <1>5, <1>6 DEF ControlInv

(* A verdict that is not older than the newest served, and whose version was *)
(* current not too long ago, keeps what was served in order and in time.    *)
LEMMA VerdictServed ==
  ASSUME ControlTyped, Control!RevocationTakesHold, UNCHANGED topic,
         NEW e \in Entries, e.version \in 0..MaxVersion, Control!Serve(e),
         clock - since[e.version] <= ResolveTTL + ResolveGrace + ResolveTime + Delay
  PROVE  /\ served' \in [newest : Nat, older : BOOLEAN, late : Int]
         /\ Control!RevocationTakesHold'
         /\ served.newest <= e.version => served'.newest = e.version /\ served'.older = served.older
<1> USE ControlAssumption
<1>1. /\ served.newest \in Nat /\ served.older \in BOOLEAN /\ served.late \in Int /\ clock \in Nat
      /\ e.version \in Nat /\ since[e.version] \in Nat
  BY DEF ControlTyped
<1>2. (served.older \/ e.version < served.newest) \in BOOLEAN
  OBVIOUS
<1> DEFINE n == IF e.version > served.newest THEN e.version ELSE served.newest
           b == served.older \/ e.version < served.newest
           l == IF clock - since[e.version] > served.late THEN clock - since[e.version]
                ELSE served.late
<1>2a. n \in Nat /\ b \in BOOLEAN /\ l \in Int
  BY <1>1, <1>2
<1>2b. served' = [served EXCEPT !.newest = n, !.older = b, !.late = l]
  BY Zenon DEF Control!Serve
<1>3. /\ served'.newest = n /\ served'.older = b /\ served'.late = l
      /\ served' \in [newest : Nat, older : BOOLEAN, late : Int]
  <2>1. served \in [newest : Nat, older : BOOLEAN, late : Int]
    BY DEF ControlTyped
  <2> HIDE DEF n, b, l
  <2> QED
    BY <1>2a, <1>2b, <2>1
<1>4. Control!RevocationTakesHold'
  BY <1>1, <1>3 DEF Control!RevocationTakesHold, Delay
<1>5. served.newest <= e.version => served'.newest = e.version
  BY <1>1, <1>3
<1>6. served.newest <= e.version => ~(e.version < served.newest)
  BY <1>1
<1>7. served.newest <= e.version => served'.older = served.older
  BY <1>1, <1>3, <1>6, Zenon
<1> QED
  BY <1>3, <1>4, <1>5, <1>7

(* What ends a request, or leaves it, keeps what is known of the others.     *)
LEMMA CallsEnded ==
  ASSUME ControlInv, UNCHANGED <<clock, truth, since, topic, cache, served>>,
         req' \in [Resolvers -> Lookups],
         \A x \in Resolvers : UnderWay(x)' => UnderWay(x) /\ req'[x] = req[x],
         topic = "key" => \A x \in Resolvers : UnderWay(x)' => leader' = x
  PROVE  ControlInv'
<1>0. ControlTyped /\ CallsShort /\ Dated /\ OneLeader /\ NewestAhead
  BY DEF ControlInv
<1>1. ControlTyped'
  BY <1>0 DEF ControlTyped
<1>2. CallsShort'
  BY <1>0 DEF CallsShort
<1>3. Dated'
  BY <1>0 DEF Dated, EntryDated, Delay, UnderWay
<1>4. OneLeader'
  BY <1>0 DEF OneLeader, Control!Fresh, Control!EntryTTL
<1>5. NewestAhead'
  BY <1>0 DEF NewestAhead, UnderWay
<1>6. Control!RevocationTakesHold'
  BY DEF ControlInv, Control!RevocationTakesHold
<1> QED
  BY <1>1, <1>2, <1>3, <1>4, <1>5, <1>6 DEF ControlInv

\* What such a request remembers.
LEMMA UnderWayTyped ==
  ASSUME ControlTyped, NEW r \in Resolvers, UnderWay(r)
  PROVE  /\ req[r].from \in Nat /\ req[r].old \in Entries
         /\ req[r].at = "answered" => req[r].version \in 0..MaxVersion
BY DEF ControlTyped, Lookups, UnderWay, Control!Idle

(* The requests after one has ended for itself and its followers.           *)
LEMMA EndedForAll ==
  ASSUME ControlTyped, OneLeader, NEW r \in Resolvers, Control!EndOf(r), UNCHANGED topic
  PROVE  /\ req' \in [Resolvers -> Lookups]
         /\ \A x \in Resolvers : UnderWay(x)' => UnderWay(x) /\ req'[x] = req[x]
         /\ topic = "key" /\ leader = r => \A x \in Resolvers : ~UnderWay(x)'
<1>1. req' = [x \in Resolvers |-> IF x = r \/ req[x].at = "following" THEN Control!Idle ELSE req[x]]
  BY DEF Control!EndOf
<1>2. req' \in [Resolvers -> Lookups]
  BY <1>1 DEF ControlTyped, Lookups
<1>3. \A x \in Resolvers : UnderWay(x)' => UnderWay(x) /\ req'[x] = req[x] /\ x # r
  BY <1>1 DEF UnderWay, Control!Idle
<1>4. topic = "key" => \A x \in Resolvers : UnderWay(x) => leader = x
  BY DEF OneLeader
<1> QED
  BY <1>2, <1>3, <1>4

\* Lookups, calls and their failures, evictions, changes and the clock.
LEMMA ControlStep == ControlInv /\ [Control!Next]_(Control!vars) => ControlInv'
<1> SUFFICES ASSUME ControlInv, [Control!Next]_(Control!vars) PROVE ControlInv'
  OBVIOUS
<1> USE ControlAssumption
<1>0. /\ ControlTyped /\ CallsShort /\ Dated /\ OneLeader /\ NewestAhead
      /\ Control!RevocationTakesHold
  BY DEF ControlInv
<1>t. /\ clock \in Nat /\ truth \in Nat /\ cache \in Entries /\ topic \in {"key", "env"}
      /\ Delay \in Nat /\ (topic = "key" => Delay = ResolveTime)
      /\ (topic # "key" => Delay = 0)
  BY <1>0 DEF ControlTyped, Delay
<1>e. \A e \in Entries : /\ e.version \in Int /\ e.at \in Nat
                         /\ e.version \in 0..truth => e.version \in 0..MaxVersion
  BY <1>0 DEF Entries, ControlTyped
<1>n. Control!NoEntry \in Entries
  BY DEF Entries, Control!NoEntry
<1>1. CASE Control!Evict
  <2>1. /\ topic = "key" /\ cache' = Control!NoEntry
        /\ UNCHANGED <<clock, truth, since, topic, leader, req, served>>
    BY <1>1 DEF Control!Evict
  <2>2. ControlTyped'
    BY <1>0, <1>n, <2>1 DEF ControlTyped
  <2>3. CallsShort'
    BY <1>0, <2>1 DEF CallsShort, UnderWay
  <2>4. Dated'
    BY <1>0, <2>1 DEF Dated, EntryDated, Delay, UnderWay
  <2>5. OneLeader'
    BY <1>0, <2>1 DEF OneLeader, UnderWay, Control!Fresh, Control!EntryTTL
  <2>6. NewestAhead'
    BY <1>0, <2>1 DEF NewestAhead, UnderWay
  <2>7. Control!RevocationTakesHold'
    BY <1>0, <2>1 DEF Control!RevocationTakesHold
  <2> QED
    BY <2>2, <2>3, <2>4, <2>5, <2>6, <2>7 DEF ControlInv
<1>2. CASE Control!Change
  <2>1. /\ truth < MaxVersion /\ truth' = truth + 1
        /\ since' = [since EXCEPT ![truth] = clock]
        /\ UNCHANGED <<clock, topic, cache, leader, req, served>>
    BY <1>2 DEF Control!Change
  <2>2. ControlTyped'
    BY <1>0, <1>t, <2>1 DEF ControlTyped
  <2>3. CallsShort'
    BY <1>0, <2>1 DEF CallsShort, UnderWay
  <2>4. \A v \in 0..MaxVersion : since'[v] = IF v = truth THEN clock ELSE since[v]
    BY <1>0, <2>1 DEF ControlTyped
  <2>5. \A e \in Entries : EntryDated(e) => EntryDated(e)'
    BY <1>0, <1>e, <1>t, <2>1, <2>4 DEF EntryDated, Delay, ControlTyped
  <2>6. \A r \in Resolvers : UnderWay(r) => req[r].old \in Entries
    BY <1>0, UnderWayTyped
  <2>7. ASSUME NEW r \in Resolvers, req[r].at = "answered"
        PROVE  req[r].version <= truth' /\ since'[req[r].version] >= req[r].from
    <3>1. /\ req[r].version \in 0..MaxVersion /\ req[r].from \in Nat /\ req[r].from <= clock
          /\ req[r].version <= truth /\ since[req[r].version] >= req[r].from
      BY <1>0, <2>7, UnderWayTyped DEF Dated, CallsShort, UnderWay
    <3> QED
      BY <3>1, <2>1, <2>4, <1>t
  <2>8. \A v \in 0..MaxVersion : v >= truth' => since'[v] = ResolveHorizon
    BY <1>0, <1>t, <2>1, <2>4 DEF Dated
  <2>9. Dated'
    BY <1>0, <1>t, <2>1, <2>5, <2>6, <2>7, <2>8 DEF Dated, UnderWay
  <2>10. OneLeader'
    BY <1>0, <2>1 DEF OneLeader, UnderWay, Control!Fresh, Control!EntryTTL
  <2>11. NewestAhead'
    BY <1>0, <1>t, <2>1 DEF NewestAhead, UnderWay, ControlTyped
  <2>12. Control!RevocationTakesHold'
    BY <1>0, <2>1 DEF Control!RevocationTakesHold
  <2> QED
    BY <2>2, <2>3, <2>9, <2>10, <2>11, <2>12 DEF ControlInv
<1>3. CASE Control!Tick
  <2>1. /\ clock < ResolveHorizon /\ clock' = clock + 1
        /\ \A r \in Resolvers : UnderWay(r) => clock - req[r].from < ResolveTime
        /\ UNCHANGED <<truth, since, topic, cache, leader, req, served>>
    BY <1>3 DEF Control!Tick, UnderWay
  <2>2. ControlTyped'
    BY <1>0, <1>t, <2>1 DEF ControlTyped
  <2>3. \A r \in Resolvers : UnderWay(r) => req[r].from \in Nat /\ req[r].old \in Entries
    BY <1>0, UnderWayTyped
  <2>4. CallsShort'
    BY <1>0, <1>t, <2>1, <2>3 DEF CallsShort, UnderWay
  <2>5. \A e \in Entries : EntryDated(e) => EntryDated(e)'
    BY <1>e, <1>t, <2>1 DEF EntryDated, Delay
  <2>6. Dated'
    BY <1>0, <1>t, <2>1, <2>3, <2>5 DEF Dated, UnderWay
  <2>7. \A e \in Entries : ~Control!Fresh(e) => ~Control!Fresh(e)'
    <3> SUFFICES ASSUME NEW e \in Entries, ~Control!Fresh(e), e # Control!NoEntry
                 PROVE  ~(clock' - e.at <= Control!EntryTTL(e)')
      BY DEF Control!Fresh
    <3>1. Control!EntryTTL(e)' = Control!EntryTTL(e) /\ Control!EntryTTL(e) \in Nat
      BY <2>1 DEF Control!EntryTTL
    <3>2. ~(clock - e.at <= Control!EntryTTL(e))
      BY DEF Control!Fresh
    <3> QED
      BY <3>1, <3>2, <2>1, <1>t, <1>e
  <2>8. OneLeader'
    BY <1>0, <2>1, <2>3, <2>7 DEF OneLeader, UnderWay
  <2>9. NewestAhead'
    BY <1>0, <2>1 DEF NewestAhead, UnderWay
  <2>10. Control!RevocationTakesHold'
    BY <1>0, <2>1 DEF Control!RevocationTakesHold
  <2> QED
    BY <2>2, <2>4, <2>6, <2>8, <2>9, <2>10 DEF ControlInv
<1>4. ASSUME NEW r \in Resolvers, Control!Hit(r) PROVE ControlInv'
  <2>1. /\ Control!Fresh(cache) /\ Control!Serve(cache)
        /\ UNCHANGED <<clock, truth, since, topic, cache, leader, req>>
    BY <1>4 DEF Control!Hit
  <2>2. cache # Control!NoEntry /\ clock - cache.at <= ResolveTTL + ResolveGrace
    BY <2>1, <1>t, <1>e DEF Control!Fresh, Control!EntryTTL
  <2>3. cache.version \in 0..truth /\ cache.version \in 0..MaxVersion
        /\ since[cache.version] >= cache.at - Delay
    BY <1>0, <1>e, <1>t, <2>2 DEF Dated, EntryDated
  <2>4. since[cache.version] \in Nat
    BY <1>0, <2>3 DEF ControlTyped
  <2>5. clock - since[cache.version] <= ResolveTTL + ResolveGrace + ResolveTime + Delay
    BY <2>2, <2>3, <2>4, <1>t, <1>e
  <2>6. /\ served' \in [newest : Nat, older : BOOLEAN, late : Int]
        /\ Control!RevocationTakesHold'
        /\ served.newest <= cache.version =>
              served'.newest = cache.version /\ served'.older = served.older
    BY <1>0, <1>t, <2>1, <2>3, <2>5, VerdictServed
  <2>7. ControlTyped' /\ CallsShort'
    BY <1>0, <2>1, <2>6 DEF ControlTyped, CallsShort, UnderWay
  <2>8. Dated'
    BY <1>0, <2>1 DEF Dated, EntryDated, Delay, UnderWay
  <2>9. OneLeader'
    BY <1>0, <2>1 DEF OneLeader, UnderWay, Control!Fresh, Control!EntryTTL
  <2>10. topic = "key" => \A x \in Resolvers : ~UnderWay(x)
    BY <1>0, <2>1, <2>2 DEF OneLeader
  <2>11. topic = "key" => \A x \in Resolvers : req[x].at # "answered"
    BY <2>10 DEF UnderWay
  <2>12. topic = "key" => served.newest <= cache.version /\ ~served.older
    BY <1>0, <2>2 DEF NewestAhead
  <2>13. topic = "key" => served'.newest = cache.version /\ ~served'.older
    BY <2>6, <2>12, Zenon
  <2>14. NewestAhead'
    BY <2>1, <2>3, <2>10, <2>11, <2>13, <1>t DEF NewestAhead, UnderWay
  <2> QED
    BY <2>6, <2>7, <2>8, <2>9, <2>14 DEF ControlInv
<1>5. ASSUME NEW r \in Resolvers, Control!Lookup(r) PROVE ControlInv'
  <2>1. UNCHANGED <<clock, truth, since, topic, cache, served>> /\ ~Control!Fresh(cache)
        /\ req[r] = Control!Idle
    BY <1>5 DEF Control!Lookup
  <2>2. CASE ~Control!Leads
    <3>1. req' = [req EXCEPT ![r] = [at |-> "following"]] /\ leader' = leader
      BY <1>5, <2>2 DEF Control!Lookup
    <3>2. req' \in [Resolvers -> Lookups]
      BY <1>0, <3>1 DEF ControlTyped, Lookups
    <3>3. \A x \in Resolvers : UnderWay(x)' => UnderWay(x) /\ req'[x] = req[x]
      BY <1>0, <3>1 DEF ControlTyped, UnderWay
    <3>4. topic = "key" => \A x \in Resolvers : UnderWay(x)' => leader' = x
      BY <1>0, <3>1, <3>3 DEF OneLeader
    <3> QED
      BY <2>1, <3>2, <3>3, <3>4, CallsEnded
  <2>3. CASE Control!Leads
    <3>1. /\ req' = [req EXCEPT ![r] = [at |-> "asked", from |-> clock, old |-> cache]]
          /\ topic = "key" => leader' = r
      BY <1>5, <2>3 DEF Control!Lookup, Control!Asked
    <3>2. req'[r] = [at |-> "asked", from |-> clock, old |-> cache]
          /\ \A x \in Resolvers : x # r => req'[x] = req[x]
      BY <1>0, <3>1 DEF ControlTyped
    <3>3. [at |-> "asked", from |-> clock, old |-> cache] \in Lookups
      BY <1>t DEF Lookups
    <3>4. ControlTyped'
      BY <1>0, <2>1, <3>1, <3>3 DEF ControlTyped
    <3>5. topic = "key" => \A x \in Resolvers : ~UnderWay(x)
      <4>1. topic = "key" => leader = Control!Nobody
        BY <2>3 DEF Control!Leads
      <4> QED
        BY <1>0, <4>1 DEF OneLeader
    <3>6. CallsShort'
      BY <1>0, <1>t, <2>1, <3>2 DEF CallsShort, UnderWay
    <3>7. \A x \in Resolvers : /\ UnderWay(x)' => x = r \/ (UnderWay(x) /\ req'[x] = req[x])
                               /\ req'[x].at = "answered" => req'[x] = req[x]
      BY <3>2 DEF UnderWay
    <3>8. Dated'
      BY <1>0, <2>1, <3>2, <3>7 DEF Dated, EntryDated, Delay
    <3>9. OneLeader'
      BY <2>1, <3>1, <3>2, <3>5, <3>7 DEF OneLeader, Control!Fresh, Control!EntryTTL
    <3>10. NewestAhead'
      BY <1>0, <2>1, <3>2, <3>5, <3>7 DEF NewestAhead
    <3>11. Control!RevocationTakesHold'
      BY <1>0, <2>1 DEF Control!RevocationTakesHold
    <3> QED
      BY <3>4, <3>6, <3>8, <3>9, <3>10, <3>11 DEF ControlInv
  <2> QED
    BY <2>2, <2>3
<1>6. ASSUME NEW r \in Resolvers, Control!Handle(r) PROVE ControlInv'
  <2> DEFINE a == [at |-> "answered", from |-> req[r].from, old |-> req[r].old, version |-> truth]
  <2>1. /\ req[r].at = "asked" /\ UnderWay(r) /\ req' = [req EXCEPT ![r] = a]
        /\ UNCHANGED <<clock, truth, since, topic, cache, leader, served>>
    BY <1>6 DEF Control!Handle, UnderWay
  <2>2. req[r].from \in Nat /\ req[r].old \in Entries /\ truth \in 0..MaxVersion
    BY <1>0, <2>1, UnderWayTyped DEF ControlTyped
  <2>3. a \in Lookups
    BY <2>2 DEF Lookups
  <2>4. req'[r] = a /\ \A x \in Resolvers : x # r => req'[x] = req[x]
    BY <1>0, <2>1 DEF ControlTyped
  <2>5. /\ req'[r].at = "answered" /\ req'[r].from = req[r].from
        /\ req'[r].old = req[r].old /\ req'[r].version = truth
    BY <2>4
  <2> HIDE DEF a
  <2>6. ControlTyped'
    BY <1>0, <2>1, <2>3 DEF ControlTyped
  <2>7. \A x \in Resolvers : UnderWay(x)' => UnderWay(x) /\ req'[x].from = req[x].from /\ req'[x].old = req[x].old
    BY <2>1, <2>4, <2>5 DEF UnderWay
  <2>8. CallsShort'
    BY <1>0, <2>1, <2>7 DEF CallsShort
  <2>9. since[truth] >= req[r].from
    <3>1. since[truth] = ResolveHorizon /\ req[r].from <= clock /\ clock <= ResolveHorizon
      BY <1>0, <2>1, <2>2 DEF Dated, CallsShort, ControlTyped
    <3> QED
      BY <3>1, <2>2, <1>t
  <2>10. \A x \in Resolvers : req'[x].at = "answered" =>
            req'[x].version <= truth /\ since[req'[x].version] >= req'[x].from
    BY <1>0, <1>t, <2>4, <2>5, <2>9 DEF Dated
  <2>11. Dated'
    BY <1>0, <2>1, <2>7, <2>10 DEF Dated, EntryDated, Delay
  <2>12. OneLeader'
    BY <1>0, <2>1, <2>7 DEF OneLeader, Control!Fresh, Control!EntryTTL
  <2>13. NewestAhead'
    BY <1>0, <2>1, <2>4, <2>5, <2>7 DEF NewestAhead
  <2>14. Control!RevocationTakesHold'
    BY <1>0, <2>1 DEF Control!RevocationTakesHold
  <2> QED
    BY <2>6, <2>8, <2>11, <2>12, <2>13, <2>14 DEF ControlInv
<1>7. ASSUME NEW r \in Resolvers, Control!Answered(r) PROVE ControlInv'
  <2>1. /\ req[r].at = "answered" /\ UnderWay(r)
        /\ cache' = [version |-> req[r].version, at |-> Control!Stamp(req[r].from)]
        /\ Control!EndOf(r) /\ UNCHANGED <<clock, truth, since, topic>>
    BY <1>7 DEF Control!Answered, UnderWay
  <2>2. /\ req[r].from \in Nat /\ req[r].version \in 0..MaxVersion /\ req[r].version <= truth
        /\ since[req[r].version] >= req[r].from /\ since[req[r].version] \in Nat
        /\ req[r].from <= clock /\ clock <= req[r].from + ResolveTime
    <3>1. req[r].from \in Nat /\ req[r].version \in 0..MaxVersion
      BY <1>0, <2>1, UnderWayTyped
    <3> QED
      BY <1>0, <2>1, <3>1 DEF Dated, CallsShort, ControlTyped
  <2>3. /\ cache'.version = req[r].version
        /\ cache'.at = IF topic = "key" THEN clock ELSE req[r].from
        /\ cache' \in Entries
    BY <2>1, <2>2, <1>t DEF Control!Stamp, Entries
  <2>4. EntryDated(cache)'
    BY <2>1, <2>2, <2>3, <1>t DEF EntryDated, Delay
  <2>5. clock - since[cache'.version] <= ResolveTTL + ResolveGrace + ResolveTime + Delay
    BY <2>2, <2>3, <1>t
  <2>6. PICK e \in Entries : e = cache'
    BY <2>3
  <2>7. Control!Serve(e)
    BY <1>7, <2>6 DEF Control!Answered, Control!Serve
  <2>8. /\ served' \in [newest : Nat, older : BOOLEAN, late : Int]
        /\ Control!RevocationTakesHold'
        /\ served.newest <= e.version => served'.newest = e.version /\ served'.older = served.older
    BY <1>0, <2>1, <2>2, <2>3, <2>5, <2>6, <2>7, VerdictServed
  <2>9. /\ req' \in [Resolvers -> Lookups]
        /\ \A x \in Resolvers : UnderWay(x)' => UnderWay(x) /\ req'[x] = req[x]
        /\ topic = "key" => \A x \in Resolvers : ~UnderWay(x)'
    BY <1>0, <2>1, EndedForAll DEF OneLeader
  <2>10. ControlTyped'
    BY <1>0, <2>1, <2>3, <2>8, <2>9 DEF ControlTyped
  <2>11. CallsShort'
    BY <1>0, <2>1, <2>9 DEF CallsShort
  <2>12. \A x \in Resolvers : req'[x].at = "answered" => req'[x] = req[x]
    BY <2>9 DEF UnderWay
  <2>13. \A x \in Resolvers : UnderWay(x)' => EntryDated(req[x].old)
    BY <1>0, <2>9 DEF Dated
  <2>14. Dated'
    BY <1>0, <2>1, <2>4, <2>9, <2>12, <2>13 DEF Dated, EntryDated, Delay
  <2>15. OneLeader'
    BY <2>1, <2>9 DEF OneLeader
  <2>16. topic = "key" => served.newest <= e.version /\ ~served.older
    BY <1>0, <2>1, <2>3, <2>6 DEF NewestAhead
  <2>17. topic = "key" => served'.newest = e.version /\ ~served'.older
    BY <2>8, <2>16, Zenon
  <2>18. topic = "key" => \A x \in Resolvers : req'[x].at # "answered"
    BY <2>9 DEF UnderWay
  <2>19. NewestAhead'
    BY <2>1, <2>2, <2>3, <2>6, <2>9, <2>17, <2>18, <1>t DEF NewestAhead
  <2> QED
    BY <2>8, <2>10, <2>11, <2>14, <2>15, <2>19 DEF ControlInv
<1>8. ASSUME NEW r \in Resolvers, Control!Unreachable(r) PROVE ControlInv'
  <2> DEFINE e == req[r].old
  <2>1. UnderWay(r) /\ Control!EndOf(r) /\ UNCHANGED <<clock, truth, since, topic>>
    BY <1>8 DEF Control!Unreachable, UnderWay
  <2>2. req[r].from \in Nat /\ e \in Entries
        /\ req[r].from <= clock /\ clock <= req[r].from + ResolveTime
    BY <1>0, <2>1, UnderWayTyped DEF CallsShort
  <2>3. /\ req' \in [Resolvers -> Lookups]
        /\ \A x \in Resolvers : UnderWay(x)' => UnderWay(x) /\ req'[x] = req[x]
        /\ topic = "key" => \A x \in Resolvers : ~UnderWay(x)'
    BY <1>0, <2>1, EndedForAll DEF OneLeader
  <2>4. cache' = cache \/ cache' = Control!NoEntry
    BY <1>8 DEF Control!Unreachable
  <2>5. \A x \in Resolvers : req'[x].at = "answered" => req'[x] = req[x]
    BY <2>3 DEF UnderWay
  <2>6. topic = "key" => \A x \in Resolvers : req'[x].at # "answered"
    BY <2>3 DEF UnderWay
  <2>7. EntryDated(cache)'
    BY <1>0, <2>1, <2>4 DEF Dated, EntryDated, Delay
  <2>8. \A x \in Resolvers : UnderWay(x)' => EntryDated(req[x].old)
    BY <1>0, <2>3 DEF Dated
  <2>9. Dated'
    BY <1>0, <2>1, <2>3, <2>5, <2>7, <2>8 DEF Dated, EntryDated, Delay
  <2>10. CallsShort'
    BY <1>0, <2>1, <2>3 DEF CallsShort
  <2>11. OneLeader'
    BY <2>1, <2>3 DEF OneLeader
  <2>12. cache' \in Entries
    BY <1>t, <1>n, <2>4
  <2>13. CASE Control!InGrace(e, req[r].from)
    <3>1. Control!Serve(e) /\ cache' = cache
      BY <1>8, <2>13 DEF Control!Unreachable
    <3>2. e # Control!NoEntry /\ req[r].from - e.at <= ResolveTTL + ResolveGrace
      BY <2>13 DEF Control!InGrace
    <3>3. e.version \in 0..truth /\ e.version \in 0..MaxVersion /\ since[e.version] >= e.at - Delay
      BY <1>0, <1>e, <2>1, <2>2, <3>2 DEF Dated, EntryDated
    <3>4. since[e.version] \in Nat /\ e.at \in Nat
      BY <1>0, <1>e, <2>2, <3>3 DEF ControlTyped
    <3>5. clock - since[e.version] <= ResolveTTL + ResolveGrace + ResolveTime + Delay
      BY <2>2, <3>2, <3>3, <3>4, <1>t
    <3>6. PICK f \in Entries : f = e
      BY <2>2
    <3>7. /\ served' \in [newest : Nat, older : BOOLEAN, late : Int]
          /\ Control!RevocationTakesHold'
          /\ served.newest <= f.version => served'.newest = f.version /\ served'.older = served.older
      BY <1>0, <2>1, <3>1, <3>3, <3>5, <3>6, VerdictServed
    <3>8. ControlTyped'
      BY <1>0, <2>1, <2>3, <2>12, <3>7 DEF ControlTyped
    <3>9. topic = "key" => served.newest <= f.version /\ ~served.older
      BY <1>0, <2>1, <3>2, <3>6 DEF NewestAhead
    <3>10. topic = "key" => served'.newest = f.version /\ ~served'.older
      BY <3>7, <3>9, Zenon
    <3>11. topic = "key" => cache \in {f, Control!NoEntry}
      BY <1>0, <2>1, <3>6 DEF OneLeader
    <3>12. f.version <= truth /\ f.version \in Nat
      BY <3>3, <3>6, <1>t
    <3>13. NewestAhead'
      BY <2>1, <2>3, <2>6, <3>1, <3>10, <3>11, <3>12 DEF NewestAhead
    <3> QED
      BY <2>9, <2>10, <2>11, <3>7, <3>8, <3>13 DEF ControlInv
  <2>14. CASE ~Control!InGrace(e, req[r].from)
    <3>1. served' = served
      BY <1>8, <2>14 DEF Control!Unreachable
    <3>2. ControlTyped'
      BY <1>0, <2>1, <2>3, <2>12, <3>1 DEF ControlTyped
    <3>3. NewestAhead'
      BY <1>0, <2>1, <2>3, <2>4, <2>6, <3>1 DEF NewestAhead
    <3>4. Control!RevocationTakesHold'
      BY <1>0, <2>1, <3>1 DEF Control!RevocationTakesHold
    <3> QED
      BY <2>9, <2>10, <2>11, <3>2, <3>3, <3>4 DEF ControlInv
  <2> QED
    BY <2>13, <2>14
<1>9. ASSUME NEW r \in Resolvers, Control!Cancel(r) PROVE ControlInv'
  <2>1. UNCHANGED <<clock, truth, since, topic, cache, served>>
    BY <1>9 DEF Control!Cancel
  <2>2. CASE leader = r
    <3>1. Control!EndOf(r)
      BY <1>9, <2>2 DEF Control!Cancel
    <3>2. /\ req' \in [Resolvers -> Lookups]
          /\ \A x \in Resolvers : UnderWay(x)' => UnderWay(x) /\ req'[x] = req[x]
          /\ topic = "key" => \A x \in Resolvers : ~UnderWay(x)'
      BY <1>0, <2>1, <2>2, <3>1, EndedForAll
    <3> QED
      BY <2>1, <3>2, CallsEnded
  <2>3. CASE leader # r
    <3>1. req' = [req EXCEPT ![r] = Control!Idle] /\ leader' = leader
      BY <1>9, <2>3 DEF Control!Cancel
    <3>2. req' \in [Resolvers -> Lookups]
      BY <1>0, <3>1 DEF ControlTyped, Lookups
    <3>3. \A x \in Resolvers : UnderWay(x)' => UnderWay(x) /\ req'[x] = req[x]
      BY <1>0, <3>1 DEF ControlTyped, UnderWay, Control!Idle
    <3>4. topic = "key" => \A x \in Resolvers : UnderWay(x)' => leader' = x
      BY <1>0, <3>1, <3>3 DEF OneLeader
    <3> QED
      BY <2>1, <3>2, <3>3, <3>4, CallsEnded
  <2> QED
    BY <2>2, <2>3
<1>10. CASE UNCHANGED Control!vars
  <2>1. UNCHANGED <<clock, truth, since, topic, cache, leader, req, served>>
    BY <1>10 DEF Control!vars
  <2>2. /\ req' \in [Resolvers -> Lookups]
        /\ \A x \in Resolvers : UnderWay(x)' => UnderWay(x) /\ req'[x] = req[x]
        /\ topic = "key" => \A x \in Resolvers : UnderWay(x)' => leader' = x
    BY <1>0, <2>1 DEF ControlTyped, OneLeader, UnderWay
  <2> QED
    BY <2>1, <2>2, CallsEnded
<1> QED
  BY <1>1, <1>2, <1>3, <1>4, <1>5, <1>6, <1>7, <1>8, <1>9, <1>10 DEF Control!Next

\* A verdict on a key is never followed by an older one, and one that was revoked
\* is served no longer than its time to live, the grace for a control plane that
\* does not answer, and two calls (control_plane_client.py, resolve_key and
\* tenant_env).
THEOREM VerdictsOfControl ==
  Control!Spec => [](Control!VerdictNeverGoesBack /\ Control!RevocationTakesHold)
<1>1. ControlInv => Control!VerdictNeverGoesBack /\ Control!RevocationTakesHold
  BY DEF ControlInv, NewestAhead, Control!VerdictNeverGoesBack
<1> QED
  BY <1>1, ControlStart, ControlStep, PTL DEF Control!Spec

\* What an operator was told of a key is what every replica answers, and a verdict
\* of the control plane is never followed by an older one nor served for too long
\* (auth_proxy.py, control_plane_client.py).
THEOREM VerdictsHeld == Keyring!Spec /\ Control!Spec => []VerdictsHold
BY VerdictsOfKeys, VerdictsOfControl, PTL DEF VerdictsHold

(***************************************************************************)
(* The configuration (OperatorConfig)                                      *)
(***************************************************************************)
\* What a request that changes knobs remembers at each stage.
KnobTasks == [stage : {"write"}, kind : {"knob"}, name : Knobs, val : KnobValues \cup {None},
              seen : Config!Settings]
               \cup [stage : {"apply"}, kind : {"knob"}]
               \cup [stage : {"keep"}, kind : {"knob"}, seen : Config!Settings]
\* One that adds a provider.
AddTasks == [stage : {"list", "apply"}, kind : {"add"}, name : Providers, env : KeyVariables,
             val : KeyValues]
              \cup [stage : {"write"}, kind : {"add"}, name : Providers, env : KeyVariables,
                    val : KeyValues, seen : Config!Catalogs]
\* One that replaces a key.
KeyTasks == [stage : {"apply"}, kind : {"key"}, name : Providers, val : KeyValues]
\* One that was not made or has ended.
NoTasks == [stage : {"free", "done"}]

\* What the variables may hold.
ConfigTyped ==
    /\ knobs \in Config!Settings /\ overlay \in Config!Catalogs /\ keyfile \in Config!Secrets
    /\ router \in [up : BOOLEAN, knobs : Config!Settings, catalog : Config!Catalogs,
                   keys : Config!Secrets]
    /\ request \in [Changes -> NoTasks \cup KnobTasks \cup AddTasks \cup KeyTasks]
    /\ told \in [knobs : Config!Settings, listed : SUBSET Providers]
    /\ clobbered \in BOOLEAN /\ doubted \in BOOLEAN
    /\ ~router.up => router.catalog = Config!Merged(Config!Unlisted)

\* The request is adding a provider, whose key is in the file.
Adding(r) == request[r].stage \in {"list", "write", "apply"} /\ request[r].kind = "add"
\* The request is to tell the router of a key.
Keying(r) == request[r].stage = "apply" /\ request[r].kind = "key"
\* The request is to reload the router's knobs.
Pending(r) == request[r].stage \in {"apply", "keep"} /\ request[r].kind = "knob"
\* The request may yet change the router's providers or keys.
Equipping(r) == Adding(r) \/ Keying(r)

\* Every provider in the list has a key in the file.
Keyed(listed) == \A p \in Providers : listed[p] # None => keyfile[listed[p]] # None

(* Every provider that is listed, or about to be, has a key in the file.     *)
ListedKeyed ==
    /\ Keyed(overlay) /\ \A p \in told.listed : ConfigFile[p] = None
    /\ \A r \in Changes :
          /\ Adding(r) => keyfile[request[r].env] # None /\ ConfigFile[request[r].name] = None
          /\ Adding(r) /\ request[r].stage = "write" => Keyed(request[r].seen)

\* The router's knobs are those stored, but for a reload under way.
KnobsFollow ==
    /\ (\A r \in Changes : ~Pending(r)) => router.knobs = knobs
    /\ \A r \in Changes : request[r].stage = "keep" =>
          request[r].seen = knobs \/ \E q \in Changes \ {r} : Pending(q)

\* The router has the stored keys and, once it serves, the stored providers.
InStep ==
    /\ router.keys = keyfile
    /\ router.up => router.catalog = Config!Merged(overlay)

(* The only change of providers or keys under way explains every difference. *)
Variable(r) == IF request[r].kind = "key" THEN Config!Merged(overlay)[request[r].name]
               ELSE request[r].env
\* The provider is stored and the router is to be told.
Applying(r) == request[r].kind = "add" /\ request[r].stage = "apply"
\* Providers and keys differ from what is stored by this request's only.
Explains(r) ==
    /\ Variable(r) \in KeyVariables
    /\ keyfile = [router.keys EXCEPT ![Variable(r)] = request[r].val]
    /\ router.up => \A p \in Providers :
          router.catalog[p] = Config!Merged(overlay)[p] \/ (Applying(r) /\ p = request[r].name)
    /\ Applying(r) => overlay[request[r].name] = request[r].env

\* Providers and keys are in step, but for a request under way.
RouterFollows ==
    /\ (\A r \in Changes : ~Equipping(r)) => InStep
    /\ \A r \in Changes : Equipping(r) /\ (\A q \in Changes \ {r} : ~Equipping(q)) => Explains(r)

\* All of it.
ConfigInv ==
    /\ ConfigTyped /\ ListedKeyed /\ Config!SavedKept
    /\ ~doubted /\ ~clobbered => KnobsFollow /\ RouterFollows

(* What each request remembers, by its kind and its stage.                  *)
LEMMA TasksTyped ==
  ASSUME ConfigTyped, NEW r \in Changes
  PROVE  /\ Adding(r) => /\ request[r].name \in Providers /\ request[r].env \in KeyVariables
                         /\ request[r].val \in KeyValues
                         /\ request[r].stage = "write" => request[r].seen \in Config!Catalogs
         /\ Keying(r) => request[r].name \in Providers /\ request[r].val \in KeyValues
         /\ request[r].stage = "keep" => request[r].kind = "knob" /\ request[r].seen \in Config!Settings
         /\ request[r].stage = "write" /\ request[r].kind = "knob" =>
               request[r].name \in Knobs /\ request[r].seen \in Config!Settings
                 /\ request[r].val \in KnobValues \cup {None}
         /\ request[r].stage = "list" => request[r].kind = "add"
BY DEF ConfigTyped, NoTasks, KnobTasks, AddTasks, KeyTasks, Adding, Keying

\* The requests under way, by what they change.
LEMMA InFlightKinds ==
  ASSUME ConfigTyped, NEW r \in Changes
  PROVE  /\ Equipping(r) <=> r \in Config!InFlight /\ request[r].kind \in {"add", "key"}
         /\ Pending(r) => r \in Config!InFlight /\ request[r].kind = "knob"
         /\ r \notin Config!InFlight => request[r].stage \in {"free", "done"}
BY DEF ConfigTyped, NoTasks, KnobTasks, AddTasks, KeyTasks, Adding, Keying, Equipping, Pending,
       Config!InFlight

\* The router starts with what is stored.
LEMMA ConfigStart == Config!Init => ConfigInv
<1> SUFFICES ASSUME Config!Init PROVE ConfigInv
  OBVIOUS
<1> USE ConfigAssumption DEF Config!Init, Config!Unset, Config!Unlisted, Config!Keyless, Config!Free
<1>1. ConfigTyped
  BY DEF ConfigTyped, Config!Settings, Config!Catalogs, Config!Secrets, Config!Merged,
         Config!Installed, NoTasks
<1>2. ListedKeyed
  BY DEF ListedKeyed, Keyed, Adding
<1>3. Config!SavedKept
  BY DEF Config!SavedKept
<1>4. KnobsFollow
  BY DEF KnobsFollow
<1>5. RouterFollows
  BY DEF RouterFollows, InStep, Equipping, Adding, Keying
<1> QED
  BY <1>1, <1>2, <1>3, <1>4, <1>5 DEF ConfigInv

\* With no request under way, the invariant is the property.
LEMMA ConfigAgrees == ConfigInv => Config!ConfigHolds
<1> SUFFICES ASSUME ConfigInv PROVE Config!ConfigHolds
  OBVIOUS
<1>1. Config!RouterAgrees
  <2> SUFFICES ASSUME router.up, Config!InFlight = {}, ~doubted, ~clobbered
               PROVE  /\ router.knobs = knobs /\ router.catalog = Config!Merged(overlay)
                      /\ told.listed \subseteq Config!Routable
                      /\ \A p \in Providers : router.catalog[p] # None =>
                            router.keys[router.catalog[p]] = keyfile[router.catalog[p]]
    BY DEF Config!RouterAgrees
  <2>1. ConfigTyped /\ KnobsFollow /\ RouterFollows /\ ListedKeyed
    BY DEF ConfigInv
  <2>2. \A r \in Changes : ~Pending(r) /\ ~Equipping(r)
    BY <2>1, InFlightKinds
  <2>3. router.knobs = knobs /\ InStep
    BY <2>1, <2>2 DEF KnobsFollow, RouterFollows
  <2>4. router.keys = keyfile /\ router.catalog = Config!Merged(overlay)
    BY <2>3 DEF InStep
  <2>5. ASSUME NEW p \in told.listed PROVE p \in Config!Routable
    <3>1. p \in Providers /\ overlay[p] # None /\ ConfigFile[p] = None
      BY <2>1 DEF ConfigInv, Config!SavedKept, ListedKeyed, ConfigTyped
    <3>2. router.catalog[p] = overlay[p] /\ keyfile[overlay[p]] # None
      BY <2>1, <2>4, <3>1 DEF Config!Merged, Config!Installed, ListedKeyed, Keyed
    <3> QED
      BY <2>4, <3>1, <3>2 DEF Config!Routable
  <2> QED
    BY <2>3, <2>4, <2>5
<1> QED
  BY <1>1 DEF ConfigInv, Config!ConfigHolds

\* A step of one request leaves the others where they were.
LEMMA OneMoved ==
  ASSUME ConfigTyped, NEW r \in Changes, NEW t, request' = [request EXCEPT ![r] = t]
  PROVE  /\ request'[r] = t /\ \A x \in Changes : x # r => request'[x] = request[x]
         /\ t \in NoTasks \cup KnobTasks \cup AddTasks \cup KeyTasks =>
              request' \in [Changes -> NoTasks \cup KnobTasks \cup AddTasks \cup KeyTasks]
BY DEF ConfigTyped

(* What moves no request that changes knobs leaves their copies in step.     *)
LEMMA KnobsStay ==
  ASSUME KnobsFollow, NEW r \in Changes, \A x \in Changes : x # r => request'[x] = request[x],
         Pending(r)' <=> Pending(r), request'[r].stage # "keep",
         knobs' = knobs, router'.knobs = router.knobs
  PROVE  KnobsFollow'
<1>1. \A x \in Changes : Pending(x)' <=> Pending(x)
  BY DEF Pending
<1>2. (\A x \in Changes : ~Pending(x)') => router'.knobs = knobs'
  BY <1>1 DEF KnobsFollow
<1>3. ASSUME NEW x \in Changes, request'[x].stage = "keep"
      PROVE  request'[x].seen = knobs' \/ \E q \in Changes \ {x} : Pending(q)'
  BY <1>1, <1>3 DEF KnobsFollow
<1> QED
  BY <1>2, <1>3 DEF KnobsFollow

(* What moves no request that changes providers or keys leaves them in step. *)
LEMMA RouterStays ==
  ASSUME RouterFollows, NEW r \in Changes, \A x \in Changes : x # r => request'[x] = request[x],
         ~Equipping(r), ~Equipping(r)', UNCHANGED <<overlay, keyfile>>,
         router'.up = router.up, router'.catalog = router.catalog, router'.keys = router.keys
  PROVE  RouterFollows'
<1>1. \A x \in Changes : Equipping(x)' <=> Equipping(x)
  BY DEF Equipping, Adding, Keying
<1>2. (\A x \in Changes : ~Equipping(x)') => InStep'
  BY <1>1 DEF RouterFollows, InStep, Config!Merged
<1>3. ASSUME NEW x \in Changes, Equipping(x)', \A q \in Changes \ {x} : ~Equipping(q)'
      PROVE  Explains(x)'
  <2>1. Explains(x) /\ request'[x] = request[x]
    BY <1>1, <1>3 DEF RouterFollows
  <2> QED
    BY <2>1 DEF Explains, Variable, Applying, Config!Merged
<1> QED
  BY <1>2, <1>3 DEF RouterFollows

(* The pair of providers and keys after a step of the one request that is at *)
(* work on them.                                                            *)
LEMMA RouterMoved ==
  ASSUME NEW r \in Changes, \A x \in Changes : x # r => request'[x] = request[x],
         Equipping(r)', (\A q \in Changes \ {r} : ~Equipping(q)) => Explains(r)'
  PROVE  RouterFollows'
<1>1. \A x \in Changes : x # r => (Equipping(x)' <=> Equipping(x))
  BY DEF Equipping, Adding, Keying
<1>2. ASSUME NEW x \in Changes, Equipping(x)', \A q \in Changes \ {x} : ~Equipping(q)'
      PROVE  Explains(x)'
  <2>1. x = r
    BY <1>2
  <2> QED
    BY <1>1, <1>2, <2>1
<1> QED
  BY <1>2 DEF RouterFollows

\* What leaves the stored providers and keys alone leaves each with its key.
LEMMA ListedStays ==
  ASSUME ListedKeyed, NEW r \in Changes, \A x \in Changes : x # r => request'[x] = request[x],
         ~Adding(r)', UNCHANGED <<overlay, keyfile>>, told'.listed = told.listed
  PROVE  ListedKeyed'
<1>1. \A x \in Changes : Adding(x)' => Adding(x) /\ request'[x] = request[x]
  BY DEF Adding
<1>2. Keyed(overlay)' /\ \A p \in told'.listed : ConfigFile[p] = None
  BY DEF ListedKeyed, Keyed
<1>3. ASSUME NEW x \in Changes, Adding(x)'
      PROVE  /\ keyfile'[request'[x].env] # None /\ ConfigFile[request'[x].name] = None
             /\ request'[x].stage = "write" => Keyed(request[x].seen)'
  <2>1. Adding(x) /\ request'[x] = request[x]
    BY <1>1, <1>3
  <2> QED
    BY <2>1 DEF ListedKeyed, Keyed
<1> QED
  BY <1>2, <1>3 DEF ListedKeyed

\* Nothing happened that excuses a difference.
Calm == ~doubted /\ ~clobbered

\* The steps of a request that changes knobs.
LEMMA KnobStep ==
  ASSUME ConfigInv, NEW r \in Changes,
         \/ \E k \in Knobs, v \in KnobValues \cup {None} : Config!SetKnob(r, k, v)
         \/ Config!WriteKnobs(r) \/ Config!ReloadRead(r) \/ Config!ReloadKeep(r)
  PROVE  ConfigInv'
<1> USE ConfigAssumption
<1>0. /\ ConfigTyped /\ ListedKeyed /\ Config!SavedKept
      /\ Calm => KnobsFollow /\ RouterFollows
  BY DEF ConfigInv, Calm
<1>u. Config!Unset \in Config!Settings
  BY DEF Config!Unset, Config!Settings
(* What all steps of a change of knobs have in common.                      *)
<1>a. ASSUME UNCHANGED <<overlay, keyfile>>, told'.listed = told.listed,
             router'.up = router.up, router'.catalog = router.catalog, router'.keys = router.keys,
             NEW t \in NoTasks \cup KnobTasks, request' = [request EXCEPT ![r] = t],
             ~Equipping(r), Calm' => Calm, ConfigTyped',
             Config!SavedKept', Calm' => KnobsFollow'
      PROVE  ConfigInv'
  <2>1. request'[r] = t /\ \A x \in Changes : x # r => request'[x] = request[x]
    BY <1>0, <1>a, OneMoved
  <2>2. ~Equipping(r)' /\ ~Adding(r)'
    BY <1>a, <2>1 DEF Equipping, Adding, Keying, NoTasks, KnobTasks
  <2>3. ListedKeyed'
    BY <1>0, <1>a, <2>1, <2>2, ListedStays
  <2>4. Calm' => RouterFollows'
    BY <1>0, <1>a, <2>1, <2>2, RouterStays
  <2> QED
    BY <1>a, <2>3, <2>4 DEF ConfigInv, Calm
<1>1. ASSUME NEW k \in Knobs, NEW v \in KnobValues \cup {None}, Config!SetKnob(r, k, v)
      PROVE  ConfigInv'
  <2>1. PICK seen \in {knobs, Config!Unset} :
          request' = [request EXCEPT ![r] = [stage |-> "write", kind |-> "knob", name |-> k,
                                             val |-> v, seen |-> seen]]
    BY <1>1 DEF Config!SetKnob, Config!Step, Config!Reads
  <2> DEFINE t == [stage |-> "write", kind |-> "knob", name |-> k, val |-> v, seen |-> seen]
  <2>2. t \in KnobTasks
    BY <1>0, <1>u DEF KnobTasks, ConfigTyped
  <2>3. /\ UNCHANGED <<knobs, overlay, keyfile, router, told, clobbered, doubted>>
        /\ request[r] = Config!Free
    BY <1>1 DEF Config!SetKnob
  <2>4. request'[r] = t /\ \A x \in Changes : x # r => request'[x] = request[x]
    BY <1>0, <2>1, OneMoved
  <2>5. ~Equipping(r) /\ ~Pending(r) /\ ~Pending(r)' /\ request'[r].stage # "keep"
    BY <2>3, <2>4 DEF Equipping, Adding, Keying, Pending, Config!Free
  <2> HIDE DEF t
  <2>6. ConfigTyped'
    BY <1>0, <2>1, <2>2, <2>3 DEF ConfigTyped, t
  <2>7. Config!SavedKept'
    BY <1>0, <2>3 DEF Config!SavedKept
  <2>8. Calm' => Calm
    BY <2>3, Zenon DEF Calm
  <2>9. Calm' => KnobsFollow'
    BY <1>0, <2>3, <2>4, <2>5, <2>8, KnobsStay
  <2> QED
    BY <2>1, <2>2, <2>3, <2>5, <2>6, <2>7, <2>8, <2>9, <1>a DEF t
<1>2. CASE Config!WriteKnobs(r)
  <2>1. /\ request[r].stage = "write" /\ request[r].kind = "knob"
        /\ UNCHANGED <<overlay, keyfile, router, doubted>>
    BY <1>2 DEF Config!WriteKnobs
  <2>2. /\ request[r].name \in Knobs /\ request[r].seen \in Config!Settings
        /\ request[r].val \in KnobValues \cup {None}
    BY <1>0, <2>1, TasksTyped
  <2>3. ~Equipping(r) /\ ~Pending(r)
    BY <2>1 DEF Equipping, Adding, Keying, Pending
  <2>4. CASE /\ request' = [request EXCEPT ![r] = [stage |-> "done"]]
             /\ UNCHANGED <<knobs, told, clobbered>>
    <3>1. [stage |-> "done"] \in NoTasks
      BY DEF NoTasks
    <3>2. request'[r] = [stage |-> "done"] /\ \A x \in Changes : x # r => request'[x] = request[x]
      BY <1>0, <2>4, OneMoved
    <3>3. ~Pending(r)' /\ request'[r].stage # "keep"
      BY <3>2 DEF Pending
    <3>4. ConfigTyped'
      BY <1>0, <2>1, <2>4, <3>1 DEF ConfigTyped
    <3>5. Config!SavedKept'
      BY <1>0, <2>1, <2>4 DEF Config!SavedKept
    <3>6. Calm' => Calm
      BY <2>1, <2>4, Zenon DEF Calm
    <3>7. Calm' => KnobsFollow'
      BY <1>0, <2>1, <2>3, <2>4, <3>2, <3>3, <3>6, KnobsStay
    <3> QED
      BY <2>1, <2>3, <2>4, <3>1, <3>4, <3>5, <3>6, <3>7, <1>a
  <2>5. CASE /\ knobs' = Config!Changed(request[r].seen, request[r].name, request[r].val)
             /\ told' = [told EXCEPT !.knobs[request[r].name] = request[r].val]
             /\ clobbered' = (clobbered \/ request[r].seen # knobs)
             /\ request' = [request EXCEPT ![r] = [stage |-> "apply", kind |-> "knob"]]
    <3>1. [stage |-> "apply", kind |-> "knob"] \in KnobTasks
      BY DEF KnobTasks
    <3>2. /\ request'[r] = [stage |-> "apply", kind |-> "knob"]
          /\ \A x \in Changes : x # r => request'[x] = request[x]
      BY <1>0, <2>5, OneMoved
    <3>3. Pending(r)' /\ request'[r].stage # "keep"
      BY <3>2 DEF Pending
    <3>4. /\ knobs' = [request[r].seen EXCEPT ![request[r].name] = request[r].val]
          /\ knobs' \in Config!Settings
      BY <2>2, <2>5 DEF Config!Changed, Config!Settings
    <3>5. /\ told'.listed = told.listed
          /\ told'.knobs = [told.knobs EXCEPT ![request[r].name] = request[r].val]
          /\ told' \in [knobs : Config!Settings, listed : SUBSET Providers]
      BY <1>0, <2>2, <2>5 DEF ConfigTyped, Config!Settings
    <3>6. (clobbered \/ request[r].seen # knobs) \in BOOLEAN
      OBVIOUS
    <3>7. ConfigTyped'
      BY <1>0, <2>1, <2>5, <3>1, <3>4, <3>5, <3>6 DEF ConfigTyped
    <3>8. ~clobbered' => ~clobbered /\ request[r].seen = knobs
      BY <2>5, Zenon
    <3>9. Config!SavedKept'
      BY <1>0, <2>1, <3>4, <3>5, <3>8 DEF Config!SavedKept
    <3>10. Calm' => Calm
      BY <2>1, <3>8, Zenon DEF Calm
    <3>11. KnobsFollow'
      <4>1. \A x \in Changes : request'[x].stage = "keep" => \E q \in Changes \ {x} : Pending(q)'
        BY <3>3
      <4> QED
        BY <3>3, <4>1 DEF KnobsFollow
    <3> QED
      BY <2>1, <2>3, <2>5, <3>1, <3>5, <3>7, <3>9, <3>10, <3>11, <1>a
  <2> QED
    BY <1>2, <2>4, <2>5 DEF Config!WriteKnobs, Config!Step, Config!Finish
<1>3. CASE Config!ReloadRead(r)
  <2>1. PICK seen \in {knobs, Config!Unset} :
          /\ request' = [request EXCEPT ![r] = [stage |-> "keep", kind |-> "knob", seen |-> seen]]
          /\ doubted' = (doubted \/ seen # knobs)
    BY <1>3 DEF Config!ReloadRead, Config!Step, Config!Reads
  <2> DEFINE t == [stage |-> "keep", kind |-> "knob", seen |-> seen]
  <2>2. t \in KnobTasks
    BY <1>0, <1>u DEF KnobTasks, ConfigTyped
  <2>3. /\ UNCHANGED <<knobs, overlay, keyfile, router, told, clobbered>>
        /\ request[r].stage = "apply" /\ request[r].kind = "knob"
    BY <1>3 DEF Config!ReloadRead
  <2>4. request'[r] = t /\ \A x \in Changes : x # r => request'[x] = request[x]
    BY <1>0, <2>1, OneMoved
  <2>5. ~Equipping(r) /\ Pending(r) /\ Pending(r)' /\ request'[r].seen = seen
    BY <2>3, <2>4 DEF Equipping, Adding, Keying, Pending
  <2> HIDE DEF t
  <2>6. (doubted \/ seen # knobs) \in BOOLEAN
    OBVIOUS
  <2>7. ConfigTyped'
    BY <1>0, <2>1, <2>2, <2>3, <2>6 DEF ConfigTyped, t
  <2>8. Config!SavedKept'
    BY <1>0, <2>3 DEF Config!SavedKept
  <2>9. Calm' => Calm /\ seen = knobs
    BY <2>1, <2>3, Zenon DEF Calm
  <2>10. ASSUME Calm' PROVE KnobsFollow'
    <3>1. KnobsFollow /\ seen = knobs
      BY <1>0, <2>9, <2>10
    <3>2. \A x \in Changes : Pending(x)' <=> Pending(x)
      BY <2>4, <2>5 DEF Pending
    <3>3. ASSUME NEW x \in Changes, request'[x].stage = "keep"
          PROVE  request'[x].seen = knobs' \/ \E q \in Changes \ {x} : Pending(q)'
      BY <2>3, <2>4, <2>5, <3>1, <3>2, <3>3 DEF KnobsFollow
    <3> QED
      BY <2>5, <3>3 DEF KnobsFollow
  <2> QED
    BY <2>1, <2>2, <2>3, <2>5, <2>7, <2>8, <2>9, <2>10, <1>a DEF t
<1>4. CASE Config!ReloadKeep(r)
  <2>1. /\ request[r].stage = "keep" /\ router' = [router EXCEPT !.knobs = request[r].seen]
        /\ doubted' = (doubted \/ Config!Overlaps(r, {"knob"}))
        /\ request' = [request EXCEPT ![r] = [stage |-> "done"]]
        /\ UNCHANGED <<knobs, overlay, keyfile, told, clobbered>>
    BY <1>4 DEF Config!ReloadKeep, Config!Finish
  <2>2. request[r].kind = "knob" /\ request[r].seen \in Config!Settings
    BY <1>0, <2>1, TasksTyped
  <2>3. [stage |-> "done"] \in NoTasks
    BY DEF NoTasks
  <2>4. request'[r] = [stage |-> "done"] /\ \A x \in Changes : x # r => request'[x] = request[x]
    BY <1>0, <2>1, OneMoved
  <2>5. ~Equipping(r) /\ ~Pending(r)' /\ request'[r].stage # "keep"
    BY <2>1, <2>2, <2>4 DEF Equipping, Adding, Keying, Pending
  <2>6. /\ router'.up = router.up /\ router'.catalog = router.catalog /\ router'.keys = router.keys
        /\ router'.knobs = request[r].seen
        /\ router' \in [up : BOOLEAN, knobs : Config!Settings, catalog : Config!Catalogs,
                        keys : Config!Secrets]
    BY <1>0, <2>1, <2>2 DEF ConfigTyped
  <2>7. (doubted \/ Config!Overlaps(r, {"knob"})) \in BOOLEAN
    OBVIOUS
  <2>8. ConfigTyped'
    BY <1>0, <2>1, <2>3, <2>6, <2>7 DEF ConfigTyped
  <2>9. Config!SavedKept'
    BY <1>0, <2>1 DEF Config!SavedKept
  <2>10. Calm' => Calm /\ ~Config!Overlaps(r, {"knob"})
    BY <2>1, Zenon DEF Calm
  <2>11. ASSUME Calm' PROVE KnobsFollow'
    <3>1. \A q \in Changes \ {r} : ~Pending(q) /\ request[q].stage # "keep"
      BY <1>0, <2>10, <2>11, InFlightKinds, TasksTyped DEF Config!Overlaps, Pending
    <3>2. request[r].seen = knobs
      BY <1>0, <2>1, <2>10, <2>11, <3>1 DEF KnobsFollow
    <3>3. \A q \in Changes : request'[q].stage # "keep"
      BY <2>4, <2>5, <3>1
    <3> QED
      BY <2>1, <2>6, <3>2, <3>3 DEF KnobsFollow
  <2> QED
    BY <2>1, <2>3, <2>5, <2>6, <2>8, <2>9, <2>10, <2>11, <1>a
<1> QED
  BY <1>1, <1>2, <1>3, <1>4

(* A key added to the file takes no provider's key away.                    *)
LEMMA ListedMoved ==
  ASSUME ListedKeyed, NEW r \in Changes, \A x \in Changes : x # r => request'[x] = request[x],
         ConfigTyped, \A e \in KeyVariables : keyfile[e] # None => keyfile'[e] # None,
         overlay' = overlay, told'.listed = told.listed,
         Adding(r)' => /\ keyfile'[request'[r].env] # None /\ ConfigFile[request'[r].name] = None
                       /\ request'[r].stage = "write" => Keyed(request[r].seen)'
  PROVE  ListedKeyed'
<1> USE ConfigAssumption
<1>1. Keyed(overlay)' /\ \A p \in told'.listed : ConfigFile[p] = None
  BY DEF ListedKeyed, Keyed, ConfigTyped, Config!Catalogs
<1>2. ASSUME NEW x \in Changes, Adding(x)'
      PROVE  /\ keyfile'[request'[x].env] # None /\ ConfigFile[request'[x].name] = None
             /\ request'[x].stage = "write" => Keyed(request[x].seen)'
  <2>1. CASE x = r
    BY <1>2, <2>1
  <2>2. CASE x # r
    <3>1. Adding(x) /\ request'[x] = request[x]
      BY <1>2, <2>2 DEF Adding
    <3>2. request[x].env \in KeyVariables
      BY <3>1, TasksTyped
    <3>3. request[x].stage = "write" => request[x].seen \in Config!Catalogs /\ Keyed(request[x].seen)
      BY <3>1, TasksTyped DEF ListedKeyed
    <3>4. request'[x].stage = "write" => Keyed(request[x].seen)'
      BY <3>1, <3>3 DEF Keyed, Config!Catalogs
    <3> QED
      BY <3>1, <3>2, <3>4 DEF ListedKeyed
  <2> QED
    BY <2>1, <2>2
<1> QED
  BY <1>1, <1>2 DEF ListedKeyed

(* What the steps of a change of providers or keys have in common.          *)
LEMMA EquipCommon ==
  ASSUME ConfigInv, NEW r \in Changes, NEW t \in NoTasks \cup AddTasks \cup KeyTasks,
         request' = [request EXCEPT ![r] = t], ~Pending(r),
         knobs' = knobs, router'.knobs = router.knobs,
         ConfigTyped', Config!SavedKept', ListedKeyed', Calm' => Calm, Calm' => RouterFollows'
  PROVE  ConfigInv'
<1>1. request'[r] = t /\ \A x \in Changes : x # r => request'[x] = request[x]
  BY OneMoved DEF ConfigInv
<1>2. ~Pending(r)' /\ request'[r].stage # "keep"
  BY <1>1 DEF Pending, NoTasks, AddTasks, KeyTasks
<1>3. Calm' => KnobsFollow'
  BY <1>1, <1>2, KnobsStay DEF ConfigInv, Calm
<1> QED
  BY <1>3 DEF ConfigInv, Calm

\* A provider's key is put into the file, or the file cannot be written.
LEMMA AddStep ==
  ASSUME ConfigInv, NEW r \in Changes, NEW p \in Providers, NEW e \in KeyVariables,
         NEW key \in KeyValues, Config!AddProvider(r, p, e, key)
  PROVE  ConfigInv'
<1> USE ConfigAssumption
<1>0. /\ ConfigTyped /\ ListedKeyed /\ Config!SavedKept
      /\ Calm => KnobsFollow /\ RouterFollows
  BY DEF ConfigInv, Calm
<1>1. /\ request[r] = Config!Free
      /\ UNCHANGED <<knobs, overlay, router, told, clobbered, doubted>>
  BY DEF Config!AddProvider
<1>2. ConfigFile[p] = None
  BY DEF Config!AddProvider, Config!NewTo, Config!Merged, Config!Installed
<1>3. ~Pending(r) /\ ~Equipping(r)
  BY <1>1 DEF Pending, Equipping, Adding, Keying, Config!Free
<1>4. Config!SavedKept'
  BY <1>0, <1>1 DEF Config!SavedKept
<1>5. Calm' => Calm
  BY <1>1, Zenon DEF Calm
<1>6. CASE /\ keyfile' = [keyfile EXCEPT ![e] = key]
           /\ request' = [request EXCEPT ![r] = [stage |-> "list", kind |-> "add", name |-> p,
                                                 env |-> e, val |-> key]]
  <2> DEFINE t == [stage |-> "list", kind |-> "add", name |-> p, env |-> e, val |-> key]
  <2>1. t \in AddTasks
    BY DEF AddTasks
  <2>2. request'[r] = t /\ \A x \in Changes : x # r => request'[x] = request[x]
    BY <1>0, <1>6, OneMoved
  <2>3. Equipping(r)' /\ Adding(r)' /\ ~Applying(r)' /\ Variable(r)' = e
    BY <2>2 DEF Equipping, Adding, Applying, Variable
  <2>4. request'[r].env = e /\ request'[r].name = p /\ request'[r].stage # "write"
        /\ request'[r].val = key
    BY <2>2
  <2> HIDE DEF t
  <2>5. keyfile' \in Config!Secrets /\ keyfile'[e] = key
    BY <1>0, <1>6 DEF ConfigTyped, Config!Secrets
  <2>6. ConfigTyped'
    BY <1>0, <1>1, <1>6, <2>1, <2>5 DEF ConfigTyped, t, Config!Merged
  <2>7. \A v \in KeyVariables : keyfile[v] # None => keyfile'[v] # None
    BY <1>0, <1>6 DEF ConfigTyped, Config!Secrets
  <2>8. ListedKeyed'
    BY <1>0, <1>1, <1>2, <2>2, <2>4, <2>5, <2>7, ListedMoved
  <2>9. ASSUME Calm', \A q \in Changes \ {r} : ~Equipping(q)
        PROVE  Explains(r)'
    <3>1. InStep
      BY <1>0, <1>3, <1>5, <2>9 DEF RouterFollows
    <3>2. keyfile' = [router'.keys EXCEPT ![e] = key]
      BY <1>1, <1>6, <3>1 DEF InStep
    <3>3. router'.up => \A q \in Providers : router'.catalog[q] = Config!Merged(overlay')[q]
      BY <1>1, <3>1 DEF InStep, Config!Merged
    <3> QED
      BY <2>3, <2>4, <3>2, <3>3 DEF Explains, Config!Merged
  <2>10. Calm' => RouterFollows'
    BY <2>2, <2>3, <2>9, RouterMoved
  <2> QED
    BY <1>1, <1>3, <1>4, <1>5, <1>6, <2>1, <2>6, <2>8, <2>10, EquipCommon DEF t
<1>7. CASE request' = [request EXCEPT ![r] = [stage |-> "done"]] /\ UNCHANGED keyfile
  <2>1. [stage |-> "done"] \in NoTasks
    BY DEF NoTasks
  <2>2. request'[r] = [stage |-> "done"] /\ \A x \in Changes : x # r => request'[x] = request[x]
    BY <1>0, <1>7, OneMoved
  <2>3. ~Equipping(r)' /\ ~Adding(r)'
    BY <2>2 DEF Equipping, Adding, Keying
  <2>4. ConfigTyped'
    BY <1>0, <1>1, <1>7, <2>1 DEF ConfigTyped, Config!Merged
  <2>5. ListedKeyed'
    BY <1>0, <1>1, <1>7, <2>2, <2>3, ListedStays
  <2>6. Calm' => RouterFollows'
    BY <1>0, <1>1, <1>3, <1>5, <1>7, <2>2, <2>3, RouterStays
  <2> QED
    BY <1>1, <1>3, <1>4, <1>5, <1>7, <2>1, <2>4, <2>5, <2>6, EquipCommon
<1> QED
  BY <1>6, <1>7 DEF Config!AddProvider, Config!Upsert, Config!Step, Config!Finish

\* The stored list is read, and written back with the new provider.
LEMMA ListStep ==
  ASSUME ConfigInv, NEW r \in Changes, Config!ReadList(r) \/ Config!WriteList(r)
  PROVE  ConfigInv'
<1> USE ConfigAssumption
<1>0. /\ ConfigTyped /\ ListedKeyed /\ Config!SavedKept
      /\ Calm => KnobsFollow /\ RouterFollows
  BY DEF ConfigInv, Calm
<1>1. UNCHANGED <<knobs, keyfile, router>> /\ request[r].kind = "add" /\ Adding(r) /\ ~Pending(r)
  <2>1. CASE Config!ReadList(r)
    <3>1. request[r].stage = "list" /\ request[r].kind = "add"
      BY <1>0, <2>1, TasksTyped DEF Config!ReadList
    <3> QED
      BY <2>1, <3>1 DEF Config!ReadList, Adding, Pending
  <2>2. CASE Config!WriteList(r)
    BY <2>2 DEF Config!WriteList, Adding, Pending
  <2> QED
    BY <2>1, <2>2
<1> DEFINE n == request[r].name
           e == request[r].env
           v == request[r].val
<1>2. /\ n \in Providers /\ e \in KeyVariables /\ v \in KeyValues
      /\ keyfile[e] # None /\ ConfigFile[n] = None
  BY <1>0, <1>1, TasksTyped DEF ListedKeyed
<1>3. Equipping(r)
  BY <1>1 DEF Equipping
<1>4. ASSUME NEW k \in KeyVariables, keyfile[k] # None PROVE keyfile'[k] # None
  BY <1>1, <1>4
<1>5. CASE Config!ReadList(r)
  <2>1. PICK seen \in {overlay, Config!Unlisted} :
          request' = [request EXCEPT ![r] = [stage |-> "write", kind |-> "add", name |-> n,
                                             env |-> e, val |-> v, seen |-> seen]]
    BY <1>5 DEF Config!ReadList, Config!Step, Config!Reads
  <2>2. request[r].stage = "list" /\ UNCHANGED <<overlay, told, clobbered, doubted>>
    BY <1>5 DEF Config!ReadList
  <2> DEFINE t == [stage |-> "write", kind |-> "add", name |-> n, env |-> e, val |-> v,
                   seen |-> seen]
  <2>3. seen \in Config!Catalogs /\ Keyed(seen)
    BY <1>0 DEF ConfigTyped, ListedKeyed, Keyed, Config!Unlisted, Config!Catalogs
  <2>4. t \in AddTasks
    BY <1>2, <2>3 DEF AddTasks
  <2>5. request'[r] = t /\ \A x \in Changes : x # r => request'[x] = request[x]
    BY <1>0, <2>1, OneMoved
  <2>6. /\ request'[r].kind = "add" /\ request'[r].stage = "write" /\ request'[r].name = n
        /\ request'[r].env = e /\ request'[r].val = v /\ request'[r].seen = seen
    BY <2>5
  <2> HIDE DEF t
  <2>7. Equipping(r)' /\ ~Applying(r)' /\ Variable(r)' = e /\ ~Applying(r) /\ Variable(r) = e
    BY <1>1, <2>2, <2>6 DEF Equipping, Adding, Applying, Variable
  <2>8. ConfigTyped'
    BY <1>0, <1>1, <2>1, <2>2, <2>4 DEF ConfigTyped, t, Config!Merged
  <2>9. Keyed(request[r].seen)'
    BY <1>1, <2>3, <2>6 DEF Keyed
  <2>10. ListedKeyed'
    BY <1>0, <1>1, <1>2, <1>4, <2>2, <2>5, <2>6, <2>9, ListedMoved
  <2>11. Config!SavedKept'
    BY <1>0, <1>1, <2>2 DEF Config!SavedKept
  <2>12. Calm' => Calm
    BY <2>2, Zenon DEF Calm
  <2>13. ASSUME Calm', \A q \in Changes \ {r} : ~Equipping(q)
         PROVE  Explains(r)'
    <3>1. Explains(r)
      BY <1>0, <1>3, <2>12, <2>13 DEF RouterFollows
    <3> QED
      BY <1>1, <2>2, <2>6, <2>7, <3>1 DEF Explains, Config!Merged
  <2>14. Calm' => RouterFollows'
    BY <2>5, <2>7, <2>13, RouterMoved
  <2> QED
    BY <1>1, <2>1, <2>4, <2>8, <2>10, <2>11, <2>12, <2>14, EquipCommon DEF t
<1>6. CASE Config!WriteList(r)
  <2>1. request[r].stage = "write"
    BY <1>6 DEF Config!WriteList
  <2>2. CASE /\ overlay' = [request[r].seen EXCEPT ![n] = e]
             /\ told' = [told EXCEPT !.listed = @ \cup {n}]
             /\ clobbered' = (clobbered \/ request[r].seen # overlay)
             /\ request' = [request EXCEPT ![r] = [stage |-> "apply", kind |-> "add", name |-> n,
                                                   env |-> e, val |-> v]]
             /\ UNCHANGED doubted
    <3> DEFINE t == [stage |-> "apply", kind |-> "add", name |-> n, env |-> e, val |-> v]
               s == request[r].seen
    <3>1. t \in AddTasks
      BY <1>2 DEF AddTasks
    <3>2. request'[r] = t /\ \A x \in Changes : x # r => request'[x] = request[x]
      BY <1>0, <2>2, OneMoved
    <3>3. /\ request'[r].kind = "add" /\ request'[r].stage = "apply" /\ request'[r].name = n
          /\ request'[r].env = e /\ request'[r].val = v
      BY <3>2
    <3>4. s \in Config!Catalogs /\ Keyed(s)
      BY <1>0, <1>1, <2>1, TasksTyped DEF ListedKeyed
    <3>5. /\ overlay' \in Config!Catalogs /\ overlay'[n] = e
          /\ \A p \in Providers : p # n => overlay'[p] = s[p]
      BY <1>2, <2>2, <3>4 DEF Config!Catalogs
    <3>6. told'.knobs = told.knobs /\ told'.listed = told.listed \cup {n}
          /\ told' \in [knobs : Config!Settings, listed : SUBSET Providers]
      BY <1>0, <1>2, <2>2 DEF ConfigTyped
    <3>7. (clobbered \/ s # overlay) \in BOOLEAN
      OBVIOUS
    <3> HIDE DEF t, n, e, v
    <3>8. ConfigTyped'
      BY <1>0, <1>1, <2>2, <3>1, <3>5, <3>6, <3>7 DEF ConfigTyped, t, Config!Merged
    <3>9. Equipping(r)' /\ Applying(r)' /\ Variable(r)' = e /\ ~Applying(r) /\ Variable(r) = e
      BY <1>1, <2>1, <3>3 DEF Equipping, Adding, Applying, Variable, e
    <3>10. Calm' => Calm /\ s = overlay
      BY <2>2, Zenon DEF Calm
    <3>11. Keyed(overlay)'
      BY <1>1, <1>2, <3>4, <3>5 DEF Keyed
    <3>12. ListedKeyed'
      <4>1. ASSUME NEW x \in Changes, Adding(x)'
            PROVE  /\ keyfile'[request'[x].env] # None /\ ConfigFile[request'[x].name] = None
                   /\ request'[x].stage = "write" => Keyed(request[x].seen)'
        <5>1. CASE x = r
          BY <1>1, <1>2, <3>3, <5>1
        <5>2. CASE x # r
          BY <1>0, <1>1, <3>2, <4>1, <5>2 DEF ListedKeyed, Adding, Keyed
        <5> QED
          BY <5>1, <5>2
      <4>2. \A p \in told'.listed : ConfigFile[p] = None
        BY <1>0, <1>2, <3>6 DEF ListedKeyed
      <4> QED
        BY <3>11, <4>1, <4>2 DEF ListedKeyed
    <3>13. Config!SavedKept'
      <4>1. ASSUME ~clobbered' PROVE knobs' = told'.knobs /\ \A p \in told'.listed : overlay'[p] # None
        <5>1. ~clobbered /\ s = overlay
          BY <2>2, <4>1, Zenon
        <5>2. knobs = told.knobs /\ \A p \in told.listed : overlay[p] # None
          BY <1>0, <5>1 DEF Config!SavedKept
        <5>3. told.listed \subseteq Providers
          BY <1>0 DEF ConfigTyped
        <5> QED
          BY <1>1, <1>2, <3>5, <3>6, <5>1, <5>2, <5>3
      <4> QED
        BY <4>1 DEF Config!SavedKept
    <3>14. ASSUME Calm', \A q \in Changes \ {r} : ~Equipping(q)
           PROVE  Explains(r)'
      <4>1. Explains(r) /\ s = overlay
        BY <1>0, <1>3, <3>10, <3>14 DEF RouterFollows
      <4>2. ASSUME router'.up, NEW p \in Providers, p # n
            PROVE  router'.catalog[p] = Config!Merged(overlay')[p]
        BY <1>1, <3>5, <3>9, <4>1, <4>2 DEF Explains, Config!Merged, Config!Installed
      <4> QED
        BY <1>1, <1>2, <3>3, <3>5, <3>9, <4>1, <4>2 DEF Explains, v
    <3>15. Calm' => RouterFollows'
      BY <3>2, <3>9, <3>14, RouterMoved
    <3> QED
      BY <1>1, <2>2, <3>1, <3>8, <3>10, <3>12, <3>13, <3>15, EquipCommon DEF t
  <2>3. CASE /\ request' = [request EXCEPT ![r] = [stage |-> "done"]] /\ doubted' = TRUE
             /\ UNCHANGED <<overlay, told, clobbered>>
    <3>1. [stage |-> "done"] \in NoTasks
      BY DEF NoTasks
    <3>2. request'[r] = [stage |-> "done"] /\ \A x \in Changes : x # r => request'[x] = request[x]
      BY <1>0, <2>3, OneMoved
    <3>3. ~Adding(r)'
      BY <3>2 DEF Adding
    <3>4. ConfigTyped'
      BY <1>0, <1>1, <2>3, <3>1 DEF ConfigTyped, Config!Merged
    <3>5. ListedKeyed'
      BY <1>0, <1>1, <2>3, <3>2, <3>3, ListedStays
    <3>6. Config!SavedKept'
      BY <1>0, <1>1, <2>3 DEF Config!SavedKept
    <3>7. ~Calm'
      BY <2>3 DEF Calm
    <3> QED
      BY <3>4, <3>5, <3>6, <3>7 DEF ConfigInv, Calm
  <2> QED
    BY <1>6, <2>2, <2>3 DEF Config!WriteList, Config!Step, Config!Finish
<1> QED
  BY <1>5, <1>6

\* A provider's key is replaced in the file.
LEMMA ReplaceStep ==
  ASSUME ConfigInv, NEW r \in Changes, NEW p \in Providers, NEW key \in KeyValues,
         Config!ReplaceKey(r, p, key)
  PROVE  ConfigInv'
<1> USE ConfigAssumption
<1>0. /\ ConfigTyped /\ ListedKeyed /\ Config!SavedKept
      /\ Calm => KnobsFollow /\ RouterFollows
  BY DEF ConfigInv, Calm
<1> DEFINE t == [stage |-> "apply", kind |-> "key", name |-> p, val |-> key]
           e == Config!Merged(overlay)[p]
<1>1. /\ request[r] = Config!Free /\ request' = [request EXCEPT ![r] = t]
      /\ UNCHANGED <<knobs, overlay, router, told, clobbered, doubted>>
  BY DEF Config!ReplaceKey, Config!Step
<1>2. PICK seen \in {overlay, Config!Unlisted} :
        /\ Config!Merged(seen)[p] # None
        /\ keyfile' = [keyfile EXCEPT ![Config!Merged(seen)[p]] = key]
  BY DEF Config!ReplaceKey, Config!Reads, Config!Upsert
<1>3. Config!Merged(seen)[p] = e /\ e \in KeyVariables
  BY <1>0, <1>2 DEF Config!Merged, Config!Installed, Config!Unlisted, ConfigTyped, Config!Catalogs
<1>4. t \in KeyTasks
  BY DEF KeyTasks
<1>5. request'[r] = t /\ \A x \in Changes : x # r => request'[x] = request[x]
  BY <1>0, <1>1, OneMoved
<1>6. /\ request'[r].stage = "apply" /\ request'[r].kind = "key" /\ request'[r].name = p
      /\ request'[r].val = key
  BY <1>5
<1>7. ~Pending(r) /\ ~Equipping(r)
  BY <1>1 DEF Pending, Equipping, Adding, Keying, Config!Free
<1>8. /\ Equipping(r)' /\ ~Adding(r)' /\ ~Applying(r)'
      /\ Variable(r)' = Config!Merged(overlay')[request'[r].name]
  BY <1>6 DEF Equipping, Adding, Keying, Applying, Variable, Config!Merged
<1>9. Variable(r)' = e
  BY <1>1, <1>6, <1>8
<1> HIDE DEF t, e
<1>10. keyfile' = [keyfile EXCEPT ![e] = key] /\ keyfile' \in Config!Secrets
  BY <1>0, <1>2, <1>3 DEF ConfigTyped, Config!Secrets
<1>11. \A k \in KeyVariables : keyfile[k] # None => keyfile'[k] # None
  BY <1>0, <1>3, <1>10 DEF ConfigTyped, Config!Secrets
<1>12. ConfigTyped'
  BY <1>0, <1>1, <1>4, <1>10 DEF ConfigTyped, Config!Merged
<1>13. ListedKeyed'
  BY <1>0, <1>1, <1>5, <1>8, <1>11, ListedMoved
<1>14. Config!SavedKept'
  BY <1>0, <1>1 DEF Config!SavedKept
<1>15. Calm' => Calm
  BY <1>1, Zenon DEF Calm
<1>16. ASSUME Calm', \A q \in Changes \ {r} : ~Equipping(q)
       PROVE  Explains(r)'
  <2>1. InStep
    BY <1>0, <1>7, <1>15, <1>16 DEF RouterFollows
  <2>2. keyfile' = [router'.keys EXCEPT ![e] = key]
    BY <1>1, <1>10, <2>1 DEF InStep
  <2>3. router'.up => \A q \in Providers : router'.catalog[q] = Config!Merged(overlay')[q]
    BY <1>1, <2>1 DEF InStep, Config!Merged
  <2> QED
    BY <1>3, <1>6, <1>8, <1>9, <2>2, <2>3 DEF Explains, Config!Merged
<1>17. Calm' => RouterFollows'
  BY <1>5, <1>8, <1>16, RouterMoved
<1> QED
  BY <1>1, <1>4, <1>7, <1>12, <1>13, <1>14, <1>15, <1>17, EquipCommon

(* The last step of a change: what no other change overlapped is all there  *)
(* was between the router and what is stored.                               *)
LEMMA ApplyStep ==
  ASSUME ConfigInv, NEW r \in Changes, Config!ApplyProvider(r) \/ Config!ApplyKey(r)
  PROVE  ConfigInv'
<1> USE ConfigAssumption
<1>0. /\ ConfigTyped /\ ListedKeyed /\ Config!SavedKept
      /\ Calm => KnobsFollow /\ RouterFollows
  BY DEF ConfigInv, Calm
<1> DEFINE n == request[r].name
           e == IF request[r].kind = "add" THEN request[r].env ELSE router.catalog[n]
           v == request[r].val
<1>1. /\ UNCHANGED <<knobs, overlay, keyfile, told, clobbered>> /\ router.up
      /\ request' = [request EXCEPT ![r] = [stage |-> "done"]]
      /\ request[r].stage = "apply" /\ request[r].kind \in {"add", "key"}
  BY DEF Config!ApplyProvider, Config!ApplyKey, Config!Finish
<1>2. n \in Providers /\ v \in KeyValues /\ (request[r].kind = "add" => request[r].env \in KeyVariables)
  BY <1>0, <1>1, TasksTyped DEF Adding, Keying
<1>3. Equipping(r) /\ ~Pending(r)
  BY <1>1 DEF Equipping, Adding, Keying, Pending
<1>4. [stage |-> "done"] \in NoTasks
  BY DEF NoTasks
<1>5. request'[r] = [stage |-> "done"] /\ \A x \in Changes : x # r => request'[x] = request[x]
  BY <1>0, <1>1, OneMoved
<1>6. ~Adding(r)' /\ ~Equipping(r)'
  BY <1>5 DEF Adding, Equipping, Keying
<1>7. ListedKeyed'
  BY <1>0, <1>1, <1>5, <1>6, ListedStays
<1>8. Config!SavedKept'
  BY <1>0, <1>1 DEF Config!SavedKept
<1>9. CASE doubted' = TRUE /\ UNCHANGED router
  <2>1. ConfigTyped'
    BY <1>0, <1>1, <1>4, <1>9 DEF ConfigTyped, Config!Merged
  <2>2. ~Calm'
    BY <1>9 DEF Calm
  <2> QED
    BY <1>7, <1>8, <2>1, <2>2 DEF ConfigInv, Calm
<1>10. CASE /\ e \in KeyVariables
            /\ router'.keys = [router.keys EXCEPT ![e] = v]
            /\ router'.up = router.up /\ router'.knobs = router.knobs
            /\ router'.catalog = IF request[r].kind = "add"
                                 THEN Config!Installed(router.catalog, [Config!Unlisted EXCEPT ![n] = e])
                                 ELSE router.catalog
            /\ router' \in [up : BOOLEAN, knobs : Config!Settings, catalog : Config!Catalogs,
                            keys : Config!Secrets]
            /\ request[r].kind = "add" => router.catalog[n] = None
            /\ doubted' = (doubted \/ Config!Overlaps(r, {"add", "key"}))
  <2>1. (doubted \/ Config!Overlaps(r, {"add", "key"})) \in BOOLEAN
    OBVIOUS
  <2>2. ConfigTyped'
    BY <1>0, <1>1, <1>4, <1>10, <2>1 DEF ConfigTyped, Config!Merged
  <2>3. Calm' => Calm /\ ~Config!Overlaps(r, {"add", "key"})
    BY <1>1, <1>10, Zenon DEF Calm
  <2>4. ASSUME Calm' PROVE RouterFollows'
    <3>1. \A q \in Changes \ {r} : ~Equipping(q)
      BY <1>0, <2>3, <2>4, InFlightKinds DEF Config!Overlaps
    <3>2. Explains(r)
      BY <1>0, <1>3, <2>3, <2>4, <3>1 DEF RouterFollows
    <3>3. \A q \in Changes : ~Equipping(q)'
      BY <1>5, <1>6, <3>1 DEF Equipping, Adding, Keying
    <3>4. Variable(r) = e
      BY <1>1, <1>2, <3>2 DEF Explains, Variable, Applying
    <3>5. keyfile = [router.keys EXCEPT ![e] = v]
      BY <3>2, <3>4 DEF Explains
    <3>6. ASSUME NEW p \in Providers PROVE router'.catalog[p] = Config!Merged(overlay)[p]
      <4>1. CASE request[r].kind = "key"
        BY <1>1, <1>10, <3>2, <4>1 DEF Explains, Applying
      <4>2. CASE request[r].kind = "add" /\ p # n
        BY <1>1, <1>2, <1>10, <3>2, <4>2 DEF Explains, Applying, Config!Installed, Config!Unlisted
      <4>3. CASE request[r].kind = "add" /\ p = n
        <5>1. overlay[n] = e
          BY <1>1, <3>2, <4>3 DEF Explains, Applying
        <5>2. ConfigFile[n] = None
          BY <1>0, <1>1, <4>3 DEF ListedKeyed, Adding
        <5>3. router'.catalog[n] = e
          BY <1>2, <1>10, <4>3 DEF Config!Installed, Config!Unlisted
        <5> QED
          BY <1>2, <4>3, <5>1, <5>2, <5>3 DEF Config!Merged, Config!Installed
      <4> QED
        BY <1>1, <4>1, <4>2, <4>3
    <3>7. router'.catalog = Config!Merged(overlay)
      <4>1. router'.catalog = [p \in Providers |-> router'.catalog[p]]
        BY <1>10 DEF Config!Catalogs
      <4>2. Config!Merged(overlay) = [p \in Providers |-> Config!Merged(overlay)[p]]
        BY DEF Config!Merged, Config!Installed
      <4> QED
        BY <3>6, <4>1, <4>2
    <3>8. InStep'
      BY <1>1, <1>10, <3>5, <3>7 DEF InStep, Config!Merged
    <3> QED
      BY <3>3, <3>8 DEF RouterFollows
  <2> QED
    BY <1>1, <1>3, <1>4, <1>7, <1>8, <1>10, <2>2, <2>3, <2>4, EquipCommon
<1>11. CASE Config!ApplyProvider(r)
  <2>1. request[r].kind = "add" /\ e = request[r].env
    BY <1>11 DEF Config!ApplyProvider
  <2>2. CASE router.catalog[n] = None
    <3>1. /\ router' = [router EXCEPT !.keys[e] = v,
                           !.catalog = Config!Installed(@, [Config!Unlisted EXCEPT ![n] = e])]
          /\ doubted' = (doubted \/ Config!Overlaps(r, {"add", "key"}))
      BY <1>11, <2>1, <2>2 DEF Config!ApplyProvider
    <3> HIDE DEF n, e, v
    <3>2. [Config!Unlisted EXCEPT ![n] = e] \in Config!Catalogs
      BY <1>2, <2>1 DEF Config!Catalogs, Config!Unlisted
    <3>3. Config!Installed(router.catalog, [Config!Unlisted EXCEPT ![n] = e]) \in Config!Catalogs
      BY <1>0, <3>2 DEF ConfigTyped, Config!Catalogs, Config!Installed
    <3>4. [router.keys EXCEPT ![e] = v] \in Config!Secrets
      BY <1>0, <1>2 DEF ConfigTyped, Config!Secrets
    <3> QED
      BY <1>0, <1>2, <1>10, <2>1, <2>2, <3>1, <3>3, <3>4 DEF ConfigTyped
  <2>3. CASE router.catalog[n] # None
    BY <1>9, <1>11, <2>3 DEF Config!ApplyProvider
  <2> QED
    BY <2>2, <2>3
<1>12. CASE Config!ApplyKey(r)
  <2>1. request[r].kind = "key" /\ e = router.catalog[n]
    BY <1>12 DEF Config!ApplyKey
  <2>2. CASE e # None
    <3>1. /\ router' = [router EXCEPT !.keys[e] = v]
          /\ doubted' = (doubted \/ Config!Overlaps(r, {"add", "key"}))
      BY <1>12, <2>1, <2>2 DEF Config!ApplyKey
    <3>2. e \in KeyVariables
      BY <1>0, <1>2, <2>1, <2>2 DEF ConfigTyped, Config!Catalogs
    <3> HIDE DEF n, e, v
    <3>3. [router.keys EXCEPT ![e] = v] \in Config!Secrets
      BY <1>0, <1>2, <3>2 DEF ConfigTyped, Config!Secrets
    <3> QED
      BY <1>0, <1>10, <2>1, <3>1, <3>2, <3>3 DEF ConfigTyped
  <2>3. CASE e = None
    BY <1>9, <1>12, <2>1, <2>3 DEF Config!ApplyKey
  <2> QED
    BY <2>2, <2>3
<1> QED
  BY <1>11, <1>12

\* The router does not answer, starts again, and serves.
LEMMA OthersStep ==
  ASSUME ConfigInv,
         \/ \E r \in Changes : Config!NotApplied(r)
         \/ Config!StartRouter \/ Config!RouterServes
  PROVE  ConfigInv'
<1> USE ConfigAssumption
<1>0. /\ ConfigTyped /\ ListedKeyed /\ Config!SavedKept
      /\ Calm => KnobsFollow /\ RouterFollows
  BY DEF ConfigInv, Calm
<1>1. ASSUME NEW r \in Changes, Config!NotApplied(r) PROVE ConfigInv'
  <2>1. /\ request' = [request EXCEPT ![r] = [stage |-> "done"]] /\ doubted' = TRUE
        /\ UNCHANGED <<knobs, overlay, keyfile, router, told, clobbered>>
    BY <1>1 DEF Config!NotApplied, Config!Finish
  <2>2. [stage |-> "done"] \in NoTasks
    BY DEF NoTasks
  <2>3. request'[r] = [stage |-> "done"] /\ \A x \in Changes : x # r => request'[x] = request[x]
    BY <1>0, <2>1, OneMoved
  <2>4. ~Adding(r)'
    BY <2>3 DEF Adding
  <2>5. ConfigTyped'
    BY <1>0, <2>1, <2>2 DEF ConfigTyped, Config!Merged
  <2>6. ListedKeyed'
    BY <1>0, <2>1, <2>3, <2>4, ListedStays
  <2>7. Config!SavedKept'
    BY <1>0, <2>1 DEF Config!SavedKept
  <2>8. ~Calm'
    BY <2>1 DEF Calm
  <2> QED
    BY <2>5, <2>6, <2>7, <2>8 DEF ConfigInv, Calm
<1>2. ASSUME Config!StartRouter \/ Config!RouterServes
      PROVE  /\ UNCHANGED <<knobs, overlay, keyfile, request, told, clobbered>>
             /\ ListedKeyed' /\ Config!SavedKept'
  <2>1. UNCHANGED <<knobs, overlay, keyfile, request, told, clobbered>>
    BY <1>2 DEF Config!StartRouter, Config!RouterServes
  <2>2. ListedKeyed'
    BY <1>0, <2>1 DEF ListedKeyed, Keyed, Adding
  <2>3. Config!SavedKept'
    BY <1>0, <2>1 DEF Config!SavedKept
  <2> QED
    BY <2>1, <2>2, <2>3
<1>3. CASE Config!StartRouter
  <2>1. PICK seen \in {knobs, Config!Unset} :
          /\ router' = [up |-> FALSE, knobs |-> seen, catalog |-> Config!Merged(Config!Unlisted),
                        keys |-> keyfile]
          /\ doubted' = (seen # knobs \/ Config!InFlight # {})
    BY <1>3 DEF Config!StartRouter, Config!Reads
  <2>2. seen \in Config!Settings /\ Config!Merged(Config!Unlisted) \in Config!Catalogs
    BY <1>0 DEF ConfigTyped, Config!Unset, Config!Settings, Config!Merged, Config!Installed,
                Config!Unlisted, Config!Catalogs
  <2>3. (seen # knobs \/ Config!InFlight # {}) \in BOOLEAN
    OBVIOUS
  <2>4. router'.up = FALSE /\ router'.catalog = Config!Merged(Config!Unlisted)
        /\ router'.keys = keyfile /\ router'.knobs = seen
        /\ router' \in [up : BOOLEAN, knobs : Config!Settings, catalog : Config!Catalogs,
                        keys : Config!Secrets]
    BY <1>0, <2>1, <2>2 DEF ConfigTyped
  <2>5. ConfigTyped'
    BY <1>0, <1>2, <1>3, <2>1, <2>3, <2>4 DEF ConfigTyped, Config!Merged, Config!Unlisted
  <2>6. Calm' => seen = knobs /\ Config!InFlight = {}
    BY <2>1, Zenon DEF Calm
  <2>7. ASSUME Calm' PROVE KnobsFollow' /\ RouterFollows'
    <3>1. \A q \in Changes : q \notin Config!InFlight
      BY <2>6, <2>7
    <3>2. \A q \in Changes : ~Equipping(q) /\ ~Pending(q) /\ request[q].stage # "keep"
      BY <1>0, <3>1, InFlightKinds
    <3>3. \A q \in Changes : ~Equipping(q)' /\ ~Pending(q)' /\ request'[q].stage # "keep"
      BY <1>2, <1>3, <3>2 DEF Equipping, Adding, Keying, Pending
    <3>4. KnobsFollow'
      BY <1>2, <1>3, <2>4, <2>6, <2>7, <3>3 DEF KnobsFollow
    <3>5. InStep'
      BY <1>2, <1>3, <2>4 DEF InStep
    <3> QED
      BY <3>3, <3>4, <3>5 DEF RouterFollows
  <2> QED
    BY <1>2, <1>3, <2>5, <2>7 DEF ConfigInv, Calm
<1>4. CASE Config!RouterServes
  <2>1. PICK seen \in {overlay, Config!Unlisted} :
          /\ router' = [router EXCEPT !.up = TRUE, !.catalog = Config!Installed(@, seen)]
          /\ doubted' = (doubted \/ seen # overlay)
    BY <1>4 DEF Config!RouterServes, Config!Reads
  <2>2. ~router.up /\ router.catalog = Config!Merged(Config!Unlisted)
    BY <1>0, <1>4 DEF Config!RouterServes, ConfigTyped
  <2>3. Config!Installed(router.catalog, seen) \in Config!Catalogs
    BY <1>0 DEF ConfigTyped, Config!Installed, Config!Unlisted, Config!Catalogs
  <2>4. (doubted \/ seen # overlay) \in BOOLEAN
    OBVIOUS
  <2>5. router'.up = TRUE /\ router'.catalog = Config!Installed(router.catalog, seen)
        /\ router'.keys = router.keys /\ router'.knobs = router.knobs
        /\ router' \in [up : BOOLEAN, knobs : Config!Settings, catalog : Config!Catalogs,
                        keys : Config!Secrets]
    BY <1>0, <2>1, <2>3 DEF ConfigTyped
  <2>6. ConfigTyped'
    BY <1>0, <1>2, <1>4, <2>1, <2>4, <2>5 DEF ConfigTyped
  <2>7. Calm' => Calm /\ seen = overlay
    BY <1>2, <1>4, <2>1, Zenon DEF Calm
  <2>8. ASSUME Calm' PROVE KnobsFollow' /\ RouterFollows'
    <3>1. KnobsFollow /\ RouterFollows /\ seen = overlay
      BY <1>0, <2>7, <2>8
    <3>2. KnobsFollow'
      BY <1>2, <1>4, <2>5, <3>1 DEF KnobsFollow, Pending
    <3>3. router'.catalog = Config!Merged(overlay)
      BY <2>2, <2>5, <3>1 DEF Config!Merged, Config!Installed, Config!Unlisted
    <3>4. \A x \in Changes : Equipping(x)' <=> Equipping(x)
      BY <1>2, <1>4 DEF Equipping, Adding, Keying
    <3>5. (\A x \in Changes : ~Equipping(x)') => InStep'
      BY <1>2, <1>4, <2>5, <3>1, <3>3, <3>4 DEF RouterFollows, InStep, Config!Merged
    <3>6. ASSUME NEW x \in Changes, Equipping(x)', \A q \in Changes \ {x} : ~Equipping(q)'
          PROVE  Explains(x)'
      <4>1. Explains(x)
        BY <3>1, <3>4, <3>6 DEF RouterFollows
      <4> QED
        BY <1>2, <1>4, <2>5, <3>3, <4>1 DEF Explains, Variable, Applying, Config!Merged
    <3> QED
      BY <3>2, <3>5, <3>6 DEF RouterFollows
  <2> QED
    BY <1>2, <1>4, <2>6, <2>8 DEF ConfigInv, Calm
<1> QED
  BY <1>1, <1>3, <1>4

\* Every step of the dashboard and the router.
LEMMA ConfigStep == ConfigInv /\ [Config!Next]_(Config!vars) => ConfigInv'
<1> SUFFICES ASSUME ConfigInv, [Config!Next]_(Config!vars) PROVE ConfigInv'
  OBVIOUS
<1>1. CASE UNCHANGED Config!vars
  BY <1>1 DEF Config!vars, ConfigInv, ConfigTyped, ListedKeyed, Keyed, Adding, Config!SavedKept,
              KnobsFollow, RouterFollows, InStep, Explains, Variable, Applying, Equipping, Keying,
              Pending, Config!Merged
<1> QED
  BY <1>1, KnobStep, AddStep, ListStep, ReplaceStep, ApplyStep, OthersStep DEF Config!Next

\* What was reported saved is stored, and when nothing is under way the router runs
\* with it: its knobs, its providers, and for each of them the key in the file;
\* excused are a failed read that was written back, two requests that overlapped
\* and a change the operator was told was not applied (auth_proxy.py,
\* dashboard_set_config, dashboard_add_provider and dashboard_update_provider_key;
\* shim.py, reload_config; serve.py, main).
THEOREM ConfigHeld == Config!Spec => []ConfigHolds
<1>1. Config!Init => ConfigInv
  BY ConfigStart
<1>2. ConfigInv /\ [Config!Next]_(Config!vars) => ConfigInv'
  BY ConfigStep
<1>3. ConfigInv => ConfigHolds
  BY ConfigAgrees DEF ConfigHolds
<1> QED
  BY <1>1, <1>2, <1>3, PTL DEF Config!Spec

(***************************************************************************)
(* The pages of the dashboard (Analytics)                                  *)
(***************************************************************************)
\* When an hour begins and ends.
Begins(h) == h * HourTicks
\* The tick after its last.
Ends(h)   == (h + 1) * HourTicks

\* Whole hours do not overlap.
LEMMA HoursApart ==
  ASSUME NEW h \in Int, NEW k \in Int
  PROVE  /\ Begins(h) \in Int /\ Ends(h) = Begins(h) + HourTicks
         /\ h <= k => Begins(h) <= Begins(k)
         /\ h < k => Ends(h) <= Begins(k)
<1>1. HourTicks \in Int /\ HourTicks > 0
  BY PageAssumption
<1>2. Begins(h) \in Int /\ Begins(k) \in Int /\ Ends(h) = Begins(h) + HourTicks
  BY <1>1 DEF Begins, Ends
<1>3. ASSUME NEW m \in Int, m <= k PROVE m * HourTicks <= k * HourTicks
  <2>1. k * HourTicks = m * HourTicks + (k - m) * HourTicks
    BY <1>1
  <2>2. (k - m) * HourTicks >= 0
    BY <1>1, <1>3
  <2>3. m * HourTicks \in Int /\ (k - m) * HourTicks \in Int
    BY <1>1
  <2> QED
    BY <2>1, <2>2, <2>3
<1>4. h <= k => Begins(h) <= Begins(k)
  BY <1>3 DEF Begins
<1>5. h < k => Ends(h) <= Begins(k)
  <2>1. h < k => h + 1 \in Int /\ h + 1 <= k
    OBVIOUS
  <2> QED
    BY <1>3, <2>1 DEF Begins, Ends
<1> QED
  BY <1>2, <1>4, <1>5

\* A tick falls into one hour.
LEMMA InHour ==
  ASSUME NEW t \in Nat
  PROVE  /\ Pages!HourOf(t) \in Nat /\ Begins(Pages!HourOf(t)) <= t /\ t < Ends(Pages!HourOf(t))
         /\ Pages!Floor(t) = Begins(Pages!HourOf(t))
<1>1. HourTicks \in Nat \ {0}
  BY PageAssumption
<1>2. \A d \in Nat \ {0} : /\ t \div d \in Nat
                           /\ (t \div d) * d <= t /\ t < (t \div d + 1) * d
  OBVIOUS
<1> QED
  BY <1>1, <1>2 DEF Pages!HourOf, Pages!Floor, Begins, Ends

\* Rounding up gives where an hour begins.
LEMMA RoundedUp ==
  ASSUME NEW t \in Nat
  PROVE  \E k \in Nat : Pages!Ceil(t) = Begins(k) /\ t <= Begins(k) /\ Begins(k) < t + HourTicks
<1>1. HourTicks \in Nat \ {0} /\ t + HourTicks - 1 \in Nat
  BY PageAssumption
<1>2. PICK k : k = Pages!HourOf(t + HourTicks - 1)
  OBVIOUS
<1>3. k \in Nat /\ Begins(k) <= t + HourTicks - 1 /\ t + HourTicks - 1 < Ends(k)
  BY <1>1, <1>2, InHour
<1>4. Pages!Ceil(t) = Begins(k)
  BY <1>2 DEF Pages!Ceil, Pages!HourOf, Begins
<1> QED
  BY <1>1, <1>3, <1>4, HoursApart

\* What a viewer may be at.
ViewerStates ==
    [at : {"away", "waiting", "computing"}, counts : SUBSET PagedCalls, ok : BOOLEAN]

\* What the variables may hold.
PagesTyped ==
    /\ clock \in 0..PageHorizon /\ lastRun \in -1..clock /\ rolling \in -1..clock
    /\ call \in [PagedCalls -> [at : -1..clock, landed : BOOLEAN]]
    /\ \A c \in PagedCalls : call[c].landed => call[c].at >= 0
    /\ hourly \in [Pages!AllHours -> SUBSET PagedCalls]
    /\ late \subseteq Pages!AllHours /\ newest \subseteq PagedCalls
    /\ snap \in [at : Int, counts : SUBSET PagedCalls, ok : BOOLEAN]
    /\ viewer \in [Viewers -> ViewerStates]

\* What is covered begins with an hour, and reaches to the last run.
Stretch ==
    \/ covered = Pages!NoCover /\ lastRun = -1 /\ rolling = -1
    \/ /\ covered \in Nat \X Nat /\ covered[1] <= covered[2]
       /\ Pages!Floor(covered[1]) = covered[1]
       /\ lastRun > 0 /\ lastRun <= covered[2]

\* The hour lies in the stretch that a run of the job recounts.
Inside(h) == covered[1] <= Begins(h) /\ Ends(h) <= covered[2]

\* The job has run since the last row of an hour was due, when it had the time to;
\* an hour that it has seen since then is complete.
HoursKept ==
    /\ \A h \in Pages!AllHours : hourly[h] \subseteq Pages!CallsOf(h)
    /\ \A h \in Pages!AllHours \ late :
          /\ lastRun # -1 /\ clock >= Ends(h) + Lag + Period => lastRun >= Ends(h) + Lag
          /\ Inside(h) /\ lastRun >= Ends(h) + Lag => hourly[h] = Pages!CallsOf(h)

\* One request computes the page at a time, from aggregates that have all that
\* was ever shown, unless its reads fail.
PageKept ==
    /\ snap.ok => newest \subseteq snap.counts
    /\ newest \subseteq Pages!Counted
    /\ \A v \in Viewers : Pages!Computing(v) =>
          /\ viewer[v].ok => newest \subseteq viewer[v].counts
          /\ viewer[v].counts \subseteq Pages!Counted
          /\ \A w \in Viewers : Pages!Computing(w) => w = v

\* All of it.
PagesInv == PagesTyped /\ Stretch /\ HoursKept /\ PageKept

\* Which hours a run recounts, and what of.
LEMMA Recounted ==
  ASSUME PagesTyped, NEW start \in Nat, NEW end \in Nat, start <= end,
         Pages!Rolled(start, end), Pages!Covers(start, end)
  PROVE  \E i, j \in Nat :
            /\ Begins(i) <= start /\ start < Ends(i) /\ end <= Begins(j) /\ Begins(j) < end + HourTicks
            /\ Pages!Floor(start) = Begins(i)
            /\ hourly' = [h \in Pages!AllHours |->
                            IF i <= h /\ h < j THEN Pages!CallsOf(h) ELSE hourly[h]]
            /\ covered' = IF covered = Pages!NoCover THEN <<Begins(i), Begins(j)>>
                          ELSE <<Pages!Lesser(covered[1], Begins(i)),
                                 Pages!Greater(covered[2], Begins(j))>>
<1>1. PICK i \in Nat : /\ Begins(i) <= start /\ start < Ends(i)
                       /\ Pages!Floor(start) = Begins(i)
  BY InHour
<1>2. PICK j \in Nat : /\ Pages!Ceil(end) = Begins(j) /\ end <= Begins(j)
                       /\ Begins(j) < end + HourTicks
  BY RoundedUp
<1>3. ASSUME NEW h \in Pages!AllHours
      PROVE  /\ h \in Nat /\ (h * HourTicks \in Begins(i)..(Begins(j) - 1) <=> i <= h /\ h < j)
             /\ i <= h /\ h < j => Pages!LandedIn(Begins(i), Begins(j), h) = Pages!CallsOf(h)
  <2>1. h \in Nat /\ h * HourTicks = Begins(h)
    BY DEF Pages!AllHours, Begins
  <2>2. /\ Begins(i) \in Int /\ Begins(j) \in Int /\ Begins(h) \in Int
        /\ Ends(h) = Begins(h) + HourTicks /\ HourTicks > 0 /\ HourTicks \in Int
    BY <2>1, HoursApart, PageAssumption
  <2>3. /\ i <= h => Begins(i) <= Begins(h)
        /\ h < i => Ends(h) <= Begins(i)
        /\ h < j => Ends(h) <= Begins(j)
        /\ j <= h => Begins(j) <= Begins(h)
    BY <2>1, HoursApart
  <2>4. Begins(h) \in Begins(i)..(Begins(j) - 1) <=> i <= h /\ h < j
    BY <2>1, <2>2, <2>3
  <2>5. ASSUME i <= h, h < j, NEW c \in PagedCalls, call[c].landed,
               Pages!HourOf(call[c].at) = h
        PROVE  call[c].at \in Begins(i)..(Begins(j) - 1)
    <3>1. call[c].at \in Nat
      BY <2>5 DEF PagesTyped
    <3>2. Begins(h) <= call[c].at /\ call[c].at < Ends(h)
      BY <2>5, <3>1, InHour
    <3> QED
      BY <2>1, <2>2, <2>3, <2>5, <3>1, <3>2
  <2>6. i <= h /\ h < j => Pages!LandedIn(Begins(i), Begins(j), h) = Pages!CallsOf(h)
    BY <2>5 DEF Pages!LandedIn, Pages!CallsOf
  <2> QED
    BY <2>1, <2>4, <2>6
<1>4. hourly' = [h \in Pages!AllHours |->
                   IF i <= h /\ h < j THEN Pages!CallsOf(h) ELSE hourly[h]]
  BY <1>1, <1>2, <1>3 DEF Pages!Rolled
<1>5. covered' = IF covered = Pages!NoCover THEN <<Begins(i), Begins(j)>>
                 ELSE <<Pages!Lesser(covered[1], Begins(i)), Pages!Greater(covered[2], Begins(j))>>
  BY <1>1, <1>2 DEF Pages!Covers
<1> QED
  BY <1>1, <1>2, <1>4, <1>5

\* Aggregates that lose no call leave all that was shown to be shown again.
LEMMA StillShown ==
  ASSUME PageKept, UNCHANGED <<snap, viewer, newest>>, PagesTyped,
         \A h \in Pages!AllHours : hourly[h] \subseteq hourly'[h]
  PROVE  PageKept'
<1>1. Pages!Counted \subseteq Pages!Counted'
  BY DEF Pages!Counted
<1> QED
  BY <1>1 DEF PageKept, Pages!Computing

\* A run of the job recounts what has landed.
LEMMA RecountedKept ==
  ASSUME PagesInv, NEW i \in Nat, NEW j \in Nat, UNCHANGED <<clock, call, late, snap, viewer, newest>>,
         hourly' = [h \in Pages!AllHours |->
                      IF i <= h /\ h < j THEN Pages!CallsOf(h) ELSE hourly[h]],
         lastRun' \in -1..clock, rolling' \in -1..clock
  PROVE  /\ PagesTyped' /\ PageKept'
         /\ \A h \in Pages!AllHours : /\ hourly'[h] \subseteq Pages!CallsOf(h)'
                                      /\ Pages!CallsOf(h)' = Pages!CallsOf(h)
                                      /\ i <= h /\ h < j => hourly'[h] = Pages!CallsOf(h)'
                                      /\ ~(i <= h /\ h < j) => hourly'[h] = hourly[h]
<1>1. PagesTyped /\ Stretch /\ HoursKept /\ PageKept
  BY DEF PagesInv
<1>2. \A h \in Pages!AllHours : Pages!CallsOf(h)' = Pages!CallsOf(h)
  BY DEF Pages!CallsOf
<1>3. \A h \in Pages!AllHours : Pages!CallsOf(h) \in SUBSET PagedCalls
  BY DEF Pages!CallsOf
<1>4. PagesTyped'
  <2>1. hourly' \in [Pages!AllHours -> SUBSET PagedCalls]
    BY <1>1, <1>3 DEF PagesTyped
  <2> QED
    BY <1>1, <2>1 DEF PagesTyped
<1>5. \A h \in Pages!AllHours : hourly[h] \subseteq hourly'[h]
  BY <1>1 DEF HoursKept
<1>6. PageKept'
  BY <1>1, <1>5, StillShown
<1> QED
  BY <1>1, <1>2, <1>4, <1>6 DEF HoursKept

\* The recount of the recent hours.
LEMMA RecentStep == ASSUME PagesInv, Pages!RollRecent PROVE PagesInv'
<1>1. PagesTyped /\ Stretch /\ HoursKept
  BY DEF PagesInv
<1>2. /\ clock \in Nat /\ clock > 0 /\ rolling = -1 /\ lastRun' = clock /\ rolling' = clock
      /\ UNCHANGED <<clock, call, late, snap, viewer, newest>>
  BY <1>1 DEF Pages!RollRecent, PagesTyped, Pages!shown, Pages!Idle
<1>3. PICK start \in Nat : start = Pages!Greater(0, clock - RecentTicks)
  BY <1>2, PageAssumption DEF Pages!Greater
<1>4. start <= clock /\ (start = 0 \/ start = clock - RecentTicks)
  BY <1>2, <1>3, PageAssumption DEF Pages!Greater
<1>5. Pages!Rolled(start, clock) /\ Pages!Covers(start, clock)
  BY <1>3 DEF Pages!RollRecent
<1>6. PICK i, j \in Nat :
        /\ Begins(i) <= start /\ start < Ends(i) /\ clock <= Begins(j)
        /\ Begins(j) < clock + HourTicks /\ Pages!Floor(start) = Begins(i)
        /\ hourly' = [h \in Pages!AllHours |->
                        IF i <= h /\ h < j THEN Pages!CallsOf(h) ELSE hourly[h]]
        /\ covered' = IF covered = Pages!NoCover THEN <<Begins(i), Begins(j)>>
                      ELSE <<Pages!Lesser(covered[1], Begins(i)), Pages!Greater(covered[2], Begins(j))>>
  BY <1>1, <1>2, <1>4, <1>5, Recounted
<1>7. /\ PagesTyped' /\ PageKept'
      /\ \A h \in Pages!AllHours : /\ hourly'[h] \subseteq Pages!CallsOf(h)'
                                   /\ Pages!CallsOf(h)' = Pages!CallsOf(h)
                                   /\ i <= h /\ h < j => hourly'[h] = Pages!CallsOf(h)'
                                   /\ ~(i <= h /\ h < j) => hourly'[h] = hourly[h]
  <2>1. lastRun' \in -1..clock /\ rolling' \in -1..clock
    BY <1>2
  <2> QED
    BY <1>2, <1>6, <2>1, RecountedKept
<1>8. Begins(i) \in Nat /\ Begins(j) \in Nat
  BY PageAssumption DEF Begins
<1>9. Stretch'
  <2>1. Pages!Floor(Begins(i)) = Begins(i)
    <3>1. PICK k \in Nat : Pages!Floor(Begins(i)) = Begins(k) /\ Begins(k) <= Begins(i) /\ Begins(i) < Ends(k)
      BY <1>8, InHour
    <3>2. (k < i => Ends(k) <= Begins(i)) /\ (i < k => Ends(i) <= Begins(k))
      BY HoursApart
    <3>3. Ends(i) = Begins(i) + HourTicks /\ Ends(k) \in Int /\ Begins(k) \in Int
      BY HoursApart, PageAssumption
    <3>4. k = i
      BY <1>8, <3>1, <3>2, <3>3, PageAssumption
    <3> QED
      BY <3>1, <3>4
  <2>2. CASE covered = Pages!NoCover
    BY <1>2, <1>4, <1>6, <1>8, <2>1, <2>2 DEF Stretch
  <2>3. CASE covered # Pages!NoCover
    <3>1. covered \in Nat \X Nat /\ covered[1] <= covered[2] /\ Pages!Floor(covered[1]) = covered[1]
      BY <1>1, <2>3 DEF Stretch
    <3>2. PICK a, b \in Nat : a = covered[1] /\ b = covered[2] /\ a <= b
      BY <3>1
    <3>3. covered' = <<Pages!Lesser(a, Begins(i)), Pages!Greater(b, Begins(j))>>
      BY <1>6, <2>3, <3>2
    <3>4. /\ covered'[1] \in {a, Begins(i)} /\ covered'[1] <= a /\ covered' \in Nat \X Nat
          /\ covered'[2] >= b /\ covered'[2] >= Begins(j)
      BY <1>8, <3>2, <3>3 DEF Pages!Lesser, Pages!Greater
    <3>5. Pages!Floor(covered'[1]) = covered'[1]
      BY <2>1, <3>1, <3>2, <3>4
    <3>6. covered'[1] <= covered'[2] /\ clock <= covered'[2]
      BY <1>2, <1>6, <1>8, <3>2, <3>4
    <3> QED
      BY <1>2, <3>4, <3>5, <3>6 DEF Stretch
  <2> QED
    BY <2>2, <2>3
<1>10. HoursKept'
  <2> SUFFICES ASSUME NEW h \in Pages!AllHours \ late
               PROVE  /\ clock >= Ends(h) + Lag + Period => clock >= Ends(h) + Lag
                      /\ Inside(h)' /\ clock >= Ends(h) + Lag => hourly'[h] = Pages!CallsOf(h)'
    <3>1. Pages!AllHours' = Pages!AllHours /\ late' = late /\ clock' = clock
      BY <1>2 DEF Pages!AllHours
    <3> QED
      BY <1>2, <1>7, <3>1 DEF HoursKept
  <2>1. /\ h \in Nat /\ Begins(h) \in Nat /\ Ends(h) = Begins(h) + HourTicks
        /\ (h < i => Ends(h) <= Begins(i)) /\ (j <= h => Begins(j) <= Begins(h))
    <3>1. h \in Nat
      BY DEF Pages!AllHours
    <3>2. Begins(h) \in Nat
      BY <3>1, PageAssumption DEF Begins
    <3> QED
      BY <3>1, <3>2, HoursApart
  <2>2. clock >= Ends(h) + Lag + Period => clock >= Ends(h) + Lag
    BY <1>2, <2>1, PageAssumption
  <2>3. ASSUME Inside(h)', clock >= Ends(h) + Lag PROVE hourly'[h] = Pages!CallsOf(h)'
    <3>1. CASE i <= h
      <4>1. h < j
        BY <1>2, <1>6, <1>8, <2>1, <2>3, PageAssumption
      <4> QED
        BY <1>7, <3>1, <4>1
    <3>2. CASE h < i
      <4>1. start # 0 /\ clock >= Ends(h) + Lag + Period
        <5>1. Ends(h) <= start /\ Ends(h) > 0
          BY <1>6, <1>8, <2>1, <3>2, PageAssumption
        <5> QED
          BY <1>2, <1>4, <2>1, <5>1, PageAssumption
      <4>2. covered # Pages!NoCover
        BY <1>6, <1>8, <2>1, <2>3, <3>2, PageAssumption DEF Inside
      <4>3. PICK a, b \in Nat : /\ a = covered[1] /\ b = covered[2] /\ lastRun # -1
                                /\ lastRun <= b /\ lastRun \in Nat
        BY <1>1, <4>2 DEF Stretch, PagesTyped
      <4>4. lastRun >= Ends(h) + Lag
        BY <1>1, <4>1, <4>3 DEF HoursKept
      <4>5. covered'[1] \in {a, Begins(i)}
        BY <1>6, <1>8, <4>2, <4>3 DEF Pages!Lesser
      <4>6. Inside(h)
        BY <1>8, <2>1, <2>3, <3>2, <4>3, <4>4, <4>5, PageAssumption DEF Inside
      <4>7. hourly[h] = Pages!CallsOf(h)
        BY <1>1, <4>4, <4>6 DEF HoursKept
      <4> QED
        BY <1>7, <2>1, <3>2, <4>7
    <3> QED
      BY <2>1, <3>1, <3>2
  <2> QED
    BY <2>2, <2>3
<1> QED
  BY <1>7, <1>9, <1>10 DEF PagesInv

\* The recount of the older hours.
LEMMA OlderStep == ASSUME PagesInv, Pages!RollOlder PROVE PagesInv'
<1>1. PagesTyped /\ Stretch /\ HoursKept
  BY DEF PagesInv
<1>2. /\ rolling # -1 /\ rolling' = -1
      /\ UNCHANGED <<clock, call, lastRun, late, snap, viewer, newest>>
  BY DEF Pages!RollOlder, Pages!shown, Pages!Idle
<1>3. /\ covered # Pages!NoCover /\ covered \in Nat \X Nat /\ covered[1] <= covered[2]
      /\ Pages!Floor(covered[1]) = covered[1] /\ lastRun > 0 /\ lastRun <= covered[2]
  <2>1. lastRun <= covered[2] /\ lastRun > 0 /\ covered \in Nat \X Nat
    BY <1>1, <1>2 DEF Stretch
  <2>2. covered # Pages!NoCover
    BY <1>1, <2>1 DEF Pages!NoCover, PagesTyped
  <2> QED
    BY <1>1, <2>2 DEF Stretch
<1>4. PICK a, b \in Nat : a = covered[1] /\ b = covered[2] /\ covered = <<a, b>> /\ a <= b
  BY <1>3
<1>5. PICK target : target = Pages!Greater(0, rolling - RetainTicks)
  OBVIOUS
<1>6. target \in Nat /\ a > target
  <2>1. target \in Nat
    BY <1>1, <1>5, PageAssumption DEF Pages!Greater, PagesTyped
  <2> QED
    BY <1>4, <1>5, <2>1 DEF Pages!RollOlder
<1>7. PICK older \in Nat : older = Pages!Greater(target, a - OlderTicks)
  BY <1>4, <1>6, PageAssumption DEF Pages!Greater
<1>8. older <= a
  BY <1>4, <1>6, <1>7, PageAssumption DEF Pages!Greater
<1>9. Pages!Rolled(older, a) /\ Pages!Covers(older, a)
  BY <1>4, <1>5, <1>7 DEF Pages!RollOlder
<1>10. PICK i, j \in Nat :
         /\ Begins(i) <= older /\ older < Ends(i) /\ a <= Begins(j) /\ Begins(j) < a + HourTicks
         /\ Pages!Floor(older) = Begins(i)
         /\ hourly' = [h \in Pages!AllHours |->
                         IF i <= h /\ h < j THEN Pages!CallsOf(h) ELSE hourly[h]]
         /\ covered' = IF covered = Pages!NoCover THEN <<Begins(i), Begins(j)>>
                       ELSE <<Pages!Lesser(covered[1], Begins(i)), Pages!Greater(covered[2], Begins(j))>>
  BY <1>1, <1>8, <1>9, Recounted
<1>11. /\ PagesTyped' /\ PageKept'
       /\ \A h \in Pages!AllHours : /\ hourly'[h] \subseteq Pages!CallsOf(h)'
                                    /\ Pages!CallsOf(h)' = Pages!CallsOf(h)
                                    /\ i <= h /\ h < j => hourly'[h] = Pages!CallsOf(h)'
                                    /\ ~(i <= h /\ h < j) => hourly'[h] = hourly[h]
  <2>1. lastRun' \in -1..clock /\ rolling' \in -1..clock
    BY <1>1, <1>2 DEF PagesTyped
  <2> QED
    BY <1>2, <1>10, <2>1, RecountedKept
<1>12. Begins(i) \in Nat /\ Begins(j) \in Nat
  BY PageAssumption DEF Begins
<1>13. a = Begins(j)
  <2>1. PICK k \in Nat : a = Begins(k)
    BY <1>3, <1>4, InHour
  <2>2. (k < j => Ends(k) <= Begins(j)) /\ (j < k => Ends(j) <= Begins(k))
    BY HoursApart
  <2>3. Ends(j) = Begins(j) + HourTicks /\ Ends(k) = Begins(k) + HourTicks
    BY HoursApart
  <2>4. k = j
    BY <1>4, <1>10, <1>12, <2>1, <2>2, <2>3, PageAssumption
  <2> QED
    BY <2>1, <2>4
<1>14. Begins(i) <= a /\ covered' = <<Begins(i), b>>
  <2>1. Begins(i) <= a /\ ~(b < a) /\ (a < Begins(i) => FALSE)
    BY <1>4, <1>8, <1>10, <1>12
  <2>2. covered' = <<Pages!Lesser(a, Begins(i)), Pages!Greater(b, a)>>
    BY <1>3, <1>4, <1>10, <1>13
  <2>3. Pages!Lesser(a, Begins(i)) = Begins(i) /\ Pages!Greater(b, a) = b
    BY <1>4, <1>12, <2>1 DEF Pages!Lesser, Pages!Greater
  <2> QED
    BY <2>1, <2>2, <2>3
<1>15. Stretch'
  <2>1. Pages!Floor(Begins(i)) = Begins(i)
    <3>1. PICK k \in Nat : Pages!Floor(Begins(i)) = Begins(k) /\ Begins(k) <= Begins(i) /\ Begins(i) < Ends(k)
      BY <1>12, InHour
    <3>2. (k < i => Ends(k) <= Begins(i)) /\ (i < k => Ends(i) <= Begins(k))
      BY HoursApart
    <3>3. Ends(i) = Begins(i) + HourTicks /\ Ends(k) \in Int /\ Begins(k) \in Int
      BY HoursApart, PageAssumption
    <3>4. k = i
      BY <1>12, <3>1, <3>2, <3>3, PageAssumption
    <3> QED
      BY <3>1, <3>4
  <2>2. covered' \in Nat \X Nat /\ covered'[1] = Begins(i) /\ covered'[2] = b /\ Begins(i) <= b
    BY <1>4, <1>12, <1>14
  <2> QED
    BY <1>2, <1>3, <1>4, <2>1, <2>2 DEF Stretch
<1>16. HoursKept'
  <2> SUFFICES ASSUME NEW h \in Pages!AllHours \ late, Inside(h)', lastRun >= Ends(h) + Lag
               PROVE  hourly'[h] = Pages!CallsOf(h)'
    <3>1. Pages!AllHours' = Pages!AllHours /\ late' = late /\ clock' = clock /\ lastRun' = lastRun
      BY <1>2 DEF Pages!AllHours
    <3>2. \A h \in Pages!AllHours' \ late' :
             lastRun' # -1 /\ clock' >= Ends(h) + Lag + Period => lastRun' >= Ends(h) + Lag
      BY <1>1, <3>1 DEF HoursKept
    <3>3. \A h \in Pages!AllHours' : hourly'[h] \subseteq Pages!CallsOf(h)'
      BY <1>11, <3>1
    <3> QED
      BY <3>1, <3>2, <3>3 DEF HoursKept
  <2>1. h \in Nat /\ Begins(h) \in Int /\ Begins(j) \in Int /\ Ends(h) = Begins(h) + HourTicks
        /\ (h < i => Ends(h) <= Begins(i)) /\ (j <= h => Begins(j) <= Begins(h))
    <3>1. h \in Nat
      BY DEF Pages!AllHours
    <3> QED
      BY <3>1, HoursApart
  <2>2. Begins(i) <= Begins(h) /\ Ends(h) <= b
    BY <1>14 DEF Inside
  <2>3. i <= h
    BY <1>12, <2>1, <2>2, PageAssumption
  <2>4. CASE h < j
    BY <1>11, <2>3, <2>4
  <2>5. CASE j <= h
    <3>1. Inside(h)
      BY <1>4, <1>13, <2>1, <2>2, <2>5 DEF Inside
    <3>2. hourly[h] = Pages!CallsOf(h)
      BY <1>1, <3>1 DEF HoursKept
    <3> QED
      BY <1>11, <2>1, <2>5, <3>2
  <2> QED
    BY <2>1, <2>4, <2>5
<1> QED
  BY <1>11, <1>15, <1>16 DEF PagesInv

\* A call that is made or lands, a tick.
LEMMA CallStep ==
  ASSUME PagesInv, NEW c \in PagedCalls, Pages!Make(c) \/ Pages!Land(c)
  PROVE  PagesInv'
<1>1. PagesTyped /\ Stretch /\ HoursKept /\ PageKept
  BY DEF PagesInv
<1>2. UNCHANGED <<clock, hourly, covered, rolling, lastRun, snap, viewer, newest>>
  BY DEF Pages!Make, Pages!Land, Pages!stored, Pages!shown
<1>3. /\ call' \in [PagedCalls -> [at : -1..clock, landed : BOOLEAN]]
      /\ \A d \in PagedCalls : call'[d].landed => call'[d].at >= 0
      /\ \A d \in PagedCalls : call[d].landed => call'[d] = call[d]
      /\ \A d \in PagedCalls \ {c} : call'[d] = call[d]
      /\ call'[c].landed => ~call[c].landed /\ call'[c].at = call[c].at /\ call[c].at >= 0
  <2>1. /\ call[c] \in [at : -1..clock, landed : BOOLEAN] /\ -1 \in -1..clock /\ clock \in -1..clock
        /\ clock \in Nat
    BY <1>1 DEF PagesTyped
  <2>2. CASE Pages!Make(c)
    <3>1. call[c].landed = FALSE /\ call' = [call EXCEPT ![c].at = clock]
      BY <2>2 DEF Pages!Make, Pages!NotMade
    <3> QED
      BY <1>1, <2>1, <3>1 DEF PagesTyped
  <2>3. CASE Pages!Land(c)
    <3>1. call[c].at >= 0 /\ ~call[c].landed /\ call' = [call EXCEPT ![c].landed = TRUE]
      BY <2>3 DEF Pages!Land
    <3> QED
      BY <1>1, <2>1, <3>1 DEF PagesTyped
  <2> QED
    BY <2>2, <2>3
<1>4. late \subseteq late' /\ late' \subseteq Pages!AllHours
  <2>1. CASE Pages!Make(c)
    BY <1>1, <2>1 DEF Pages!Make, PagesTyped
  <2>2. CASE Pages!Land(c)
    <3>1. call[c].at \in Nat /\ call[c].at <= clock /\ clock <= PageHorizon
      BY <1>1, <2>2 DEF Pages!Land, PagesTyped
    <3>2. Pages!HourOf(call[c].at) \in Pages!AllHours
      <4>1. PICK k, m \in Nat : /\ k = Pages!HourOf(call[c].at) /\ Begins(k) <= call[c].at
                                /\ m = Pages!HourOf(PageHorizon) /\ PageHorizon < Ends(m)
        BY <3>1, InHour, PageAssumption
      <4>2. Begins(k) \in Int /\ Ends(m) \in Int /\ (m < k => Ends(m) <= Begins(k))
        BY HoursApart, PageAssumption
      <4>3. clock \in Nat /\ PageHorizon \in Nat
        BY <1>1, PageAssumption DEF PagesTyped
      <4>4. k <= m
        BY <3>1, <4>1, <4>2, <4>3
      <4> QED
        BY <4>1, <4>4 DEF Pages!AllHours
    <3> QED
      BY <1>1, <2>2, <3>2 DEF Pages!Land, PagesTyped
  <2> QED
    BY <2>1, <2>2
<1>5. PagesTyped'
  BY <1>1, <1>2, <1>3, <1>4 DEF PagesTyped
<1>6. \A h \in Pages!AllHours : Pages!CallsOf(h) \subseteq Pages!CallsOf(h)'
  BY <1>3 DEF Pages!CallsOf
<1>7. HoursKept'
  <2>1. \A h \in Pages!AllHours : hourly'[h] \subseteq Pages!CallsOf(h)'
    BY <1>1, <1>2, <1>6 DEF HoursKept
  <2>2. ASSUME NEW h \in Pages!AllHours \ late', lastRun >= Ends(h) + Lag
        PROVE  Pages!CallsOf(h)' = Pages!CallsOf(h)
    <3> SUFFICES ASSUME call'[c].landed, Pages!HourOf(call'[c].at) = h PROVE FALSE
      BY <1>3, <1>6 DEF Pages!CallsOf
    <3>1. Pages!Land(c)
      BY <1>3 DEF Pages!Make, Pages!NotMade
    <3>2. call[c].at \in Nat /\ Pages!HourOf(call[c].at) = h
      BY <1>1, <1>3 DEF PagesTyped
    <3>3. h \in Nat /\ call[c].at < Ends(h) /\ Ends(h) \in Int
      <4>1. h \in Nat
        BY DEF Pages!AllHours
      <4> QED
        <5>1. call[c].at < Ends(h)
          BY <3>2, InHour, Zenon
        <5>2. h \in Int
          BY <4>1
        <5>3. Begins(h) \in Int /\ Ends(h) = Begins(h) + HourTicks /\ HourTicks \in Int
          BY <5>2, HoursApart, PageAssumption
        <5>4. Ends(h) \in Int
          BY <5>3
        <5> QED
          BY <4>1, <5>1, <5>4
    <3>4. clock > call[c].at + Lag
      BY <1>1, <2>2, <3>2, <3>3, PageAssumption DEF PagesTyped
    <3>5. h \in late'
      BY <3>1, <3>2, <3>4 DEF Pages!Land
    <3> QED
      BY <3>5
  <2>3. \A h \in Pages!AllHours \ late' : h \in Pages!AllHours \ late
    BY <1>4
  <2> QED
    BY <1>1, <1>2, <2>1, <2>2, <2>3 DEF HoursKept, Inside
<1>8. PageKept'
  BY <1>1, <1>2, StillShown
<1>9. Stretch'
  BY <1>1, <1>2 DEF Stretch
<1> QED
  BY <1>5, <1>7, <1>8, <1>9 DEF PagesInv

\* Time passes: an hour may come to its end.
LEMMA HourTick == ASSUME PagesInv, Pages!Tick PROVE PagesInv'
<1>1. PagesTyped /\ Stretch /\ HoursKept /\ PageKept
  BY DEF PagesInv
<1>2. /\ clock < PageHorizon /\ clock' = clock + 1
      /\ UNCHANGED <<call, hourly, covered, rolling, lastRun, snap, viewer, newest>>
      /\ late' = IF lastRun # -1 /\ clock' - lastRun > Period THEN late \cup Pages!Open(clock') ELSE late
  BY DEF Pages!Tick, Pages!stored, Pages!shown, Pages!Never
<1>3. PagesTyped'
  <2>1. late' \subseteq Pages!AllHours
    BY <1>1, <1>2 DEF PagesTyped, Pages!Open
  <2>2. clock' \in 0..PageHorizon /\ -1..clock \subseteq -1..clock'
    BY <1>1, <1>2, PageAssumption DEF PagesTyped
  <2>3. call \in [PagedCalls -> [at : -1..clock', landed : BOOLEAN]]
    <3> SUFFICES ASSUME NEW c \in PagedCalls PROVE call[c] \in [at : -1..clock', landed : BOOLEAN]
      BY <1>1 DEF PagesTyped
    <3> QED
      BY <1>1, <2>2 DEF PagesTyped
  <2> QED
    BY <1>1, <1>2, <2>1, <2>2, <2>3 DEF PagesTyped
<1>4. HoursKept'
  <2>1. \A h \in Pages!AllHours : Pages!CallsOf(h)' = Pages!CallsOf(h)
    BY <1>2 DEF Pages!CallsOf
  <2>2. ASSUME NEW h \in Pages!AllHours \ late', lastRun # -1, clock' >= Ends(h) + Lag + Period
        PROVE  lastRun >= Ends(h) + Lag
    <3>1. Ends(h) \in Int /\ clock \in Nat /\ lastRun \in Int
      <4>1. h \in Int
        BY DEF Pages!AllHours
      <4> QED
        BY <1>1, <4>1, HoursApart, PageAssumption DEF PagesTyped
    <3>2. CASE clock >= Ends(h) + Lag + Period
      BY <1>1, <1>2, <2>2, <3>2 DEF HoursKept
    <3>3. CASE clock' = Ends(h) + Lag + Period
      <4>1. h \in Pages!Open(clock')
        BY <2>2, <3>1, <3>3, PageAssumption DEF Pages!Open, Ends
      <4>2. clock' - lastRun <= Period
        BY <1>1, <1>2, <2>2, <3>1, <4>1, PageAssumption
      <4> QED
        BY <3>1, <3>3, <4>2, PageAssumption
    <3> QED
      BY <1>2, <2>2, <3>1, <3>2, <3>3, PageAssumption
  <2>3. \A h \in Pages!AllHours \ late' : h \in Pages!AllHours \ late
    BY <1>2
  <2> QED
    BY <1>1, <1>2, <2>1, <2>2, <2>3 DEF HoursKept, Inside
<1>5. PageKept'
  BY <1>1, <1>2, StillShown
<1>6. Stretch'
  BY <1>1, <1>2 DEF Stretch
<1> QED
  BY <1>3, <1>4, <1>5, <1>6 DEF PagesInv

\* A viewer reads the page, from its snapshot or anew.
LEMMA ViewerStep ==
  ASSUME PagesInv, NEW v \in Viewers, Pages!Ask(v) \/ Pages!Compute(v) \/ Pages!Put(v)
  PROVE  PagesInv'
<1>1. PagesTyped /\ Stretch /\ HoursKept /\ PageKept
  BY DEF PagesInv
<1>2. UNCHANGED <<clock, call, hourly, covered, rolling, lastRun, late>>
  BY DEF Pages!Ask, Pages!Compute, Pages!Put, Pages!stored
<1>3. Stretch' /\ HoursKept'
  BY <1>1, <1>2 DEF Stretch, HoursKept, Inside, Pages!CallsOf
<1>4. Pages!Counted' = Pages!Counted /\ Pages!Counted \in SUBSET PagedCalls
  BY <1>1, <1>2 DEF Pages!Counted, PagesTyped
<1>5. (snap.ok => newest \subseteq snap.counts) /\ newest \subseteq Pages!Counted
  BY <1>1 DEF PageKept
<1>6. CASE Pages!Ask(v)
  <2>1. /\ viewer[v] = Pages!Away /\ viewer' = [viewer EXCEPT ![v].at = "waiting"]
        /\ UNCHANGED <<snap, newest>>
    BY <1>6 DEF Pages!Ask
  <2>2. viewer' \in [Viewers -> ViewerStates]
        /\ \A w \in Viewers : viewer'[w].at = "computing" => viewer'[w] = viewer[w]
    BY <1>1, <2>1 DEF PagesTyped, ViewerStates
  <2> QED
    BY <1>1, <1>2, <1>3, <1>4, <2>1, <2>2 DEF PagesInv, PagesTyped, PageKept, Pages!Computing
<1>7. CASE Pages!Compute(v)
  <2>1. PICK to \in {Pages!Away} \cup Pages!Answers :
              /\ viewer' = [viewer EXCEPT ![v] = to] /\ UNCHANGED <<snap, newest>>
              /\ \A w \in Viewers : ~Pages!Computing(w)
    BY <1>7 DEF Pages!Compute, Pages!Free
  <2>2. /\ to \in ViewerStates
        /\ to.at = "computing" => /\ to.counts \subseteq Pages!Counted
                                  /\ to.ok => to.counts = Pages!Counted
    <3>1. CASE to = Pages!Away
      BY <3>1 DEF Pages!Away, ViewerStates
    <3>2. CASE to = [at |-> "computing", counts |-> Pages!Counted, ok |-> TRUE]
      <4> DEFINE sum == Pages!Counted
      <4>1. to = [at |-> "computing", counts |-> sum, ok |-> TRUE] /\ sum \in SUBSET PagedCalls
        BY <1>4, <3>2
      <4> HIDE DEF sum
      <4>2. to \in ViewerStates /\ to.counts = sum
        BY <4>1 DEF ViewerStates
      <4> QED
        BY <4>2 DEF sum
    <3>3. CASE to \in [at : {"computing"}, counts : {{}, Pages!Counted}, ok : {FALSE}]
      <4> DEFINE sum == Pages!Counted
      <4>1. /\ to \in [at : {"computing"}, counts : {{}, sum}, ok : {FALSE}]
            /\ sum \in SUBSET PagedCalls
        BY <1>4, <3>3
      <4> HIDE DEF sum
      <4>2. to \in ViewerStates /\ to.counts \subseteq sum /\ ~to.ok
        BY <4>1 DEF ViewerStates
      <4> QED
        BY <4>2 DEF sum
    <3> QED
      BY <2>1, <3>1, <3>2, <3>3 DEF Pages!Answers
  <2>3. /\ viewer' \in [Viewers -> ViewerStates]
        /\ \A w \in Viewers : viewer'[w].at = "computing" =>
             /\ w = v /\ viewer'[w].counts \subseteq Pages!Counted
             /\ viewer'[w].ok => viewer'[w].counts = Pages!Counted
    BY <1>1, <2>1, <2>2 DEF PagesTyped, Pages!Computing
  <2>4. PagesTyped'
    BY <1>1, <1>2, <2>1, <2>3 DEF PagesTyped
  <2>5. PageKept'
    BY <1>4, <1>5, <2>1, <2>3 DEF PageKept, Pages!Computing
  <2> QED
    BY <1>3, <2>4, <2>5 DEF PagesInv
<1>8. CASE Pages!Put(v)
  <2>1. /\ Pages!Computing(v) /\ snap' = [viewer[v] EXCEPT !.at = clock]
        /\ newest' = newest \cup viewer[v].counts /\ viewer' = [viewer EXCEPT ![v] = Pages!Away]
    BY <1>8 DEF Pages!Put
  <2>2. /\ viewer[v].ok => newest \subseteq viewer[v].counts
        /\ viewer[v].counts \subseteq Pages!Counted /\ viewer[v] \in ViewerStates
        /\ viewer[v].counts \in SUBSET PagedCalls /\ clock \in Int
    BY <1>1, <2>1 DEF PageKept, PagesTyped, ViewerStates
  <2>6. /\ snap'.ok = viewer[v].ok /\ snap'.counts = viewer[v].counts
        /\ snap' \in [at : Int, counts : SUBSET PagedCalls, ok : BOOLEAN]
    BY <2>1, <2>2 DEF ViewerStates
  <2>3. viewer' \in [Viewers -> ViewerStates]
        /\ \A w \in Viewers : viewer'[w].at # "computing"
    BY <1>1, <2>1 DEF PagesTyped, ViewerStates, Pages!Away, PageKept, Pages!Computing
  <2>4. PagesTyped'
    BY <1>1, <1>2, <2>1, <2>2, <2>3, <2>6 DEF PagesTyped
  <2>5. PageKept'
    BY <1>4, <1>5, <2>1, <2>2, <2>3, <2>6 DEF PageKept, Pages!Computing
  <2> QED
    BY <1>3, <2>4, <2>5 DEF PagesInv
<1> QED
  BY <1>6, <1>7, <1>8

\* A run of the job ends.
LEMMA JobEndStep == ASSUME PagesInv, Pages!JobEnds PROVE PagesInv'
<1>1. rolling' = -1 /\ UNCHANGED <<clock, call, hourly, covered, lastRun, late, snap, viewer, newest>>
  BY DEF Pages!JobEnds, Pages!stored, Pages!shown, Pages!Idle
<1>2. rolling # -1
  BY DEF Pages!JobEnds, Pages!Idle
<1> QED
  BY <1>1, <1>2 DEF PagesInv, PagesTyped, Stretch, HoursKept, PageKept,
     Inside, Pages!CallsOf, Pages!Counted, Pages!Computing

\* The hours that are covered are complete, and no page whose reads worked is older
\* than one that was shared before it, whatever reads failed meanwhile
\* (scripts/rollup_analytics.py; host_store.py, analytics_aggregate; auth_proxy.py,
\* _snapshot_cached_compute).
THEOREM PagesHeld == Pages!Spec => []PagesHold
<1>1. Pages!Init => PagesInv
  <2> SUFFICES ASSUME Pages!Init PROVE PagesInv
    OBVIOUS
  <2> USE DEF Pages!Init
  <2>1. PagesTyped
    BY PageAssumption DEF PagesTyped, ViewerStates, Pages!NotMade, Pages!NoCover, Pages!Idle, Pages!Never,
       Pages!NoSnap, Pages!Away
  <2>2. Stretch
    BY DEF Stretch, Pages!Idle, Pages!Never
  <2>3. \A h \in Pages!AllHours : h \in Nat /\ Ends(h) \in Nat
    BY PageAssumption DEF Pages!AllHours, Ends
  <2>4. HoursKept
    BY <2>3, PageAssumption DEF HoursKept, Pages!Never
  <2>5. PageKept
    BY DEF PageKept, Pages!Computing, Pages!Away, Pages!NoSnap
  <2> QED
    BY <2>1, <2>2, <2>4, <2>5 DEF PagesInv
<1>2. PagesInv /\ [Pages!Next]_(Pages!vars) => PagesInv'
  <2> SUFFICES ASSUME PagesInv, [Pages!Next]_(Pages!vars) PROVE PagesInv'
    OBVIOUS
  <2>1. CASE UNCHANGED Pages!vars
    BY <2>1 DEF Pages!vars, Pages!stored, Pages!shown, PagesInv, PagesTyped, Stretch, HoursKept, PageKept,
       Inside, Pages!CallsOf, Pages!Counted, Pages!Computing
  <2> QED
    BY <2>1, RecentStep, OlderStep, CallStep, HourTick, ViewerStep,
       JobEndStep DEF Pages!Next
<1>3. PagesInv => PagesHold
  <2> SUFFICES ASSUME PagesInv PROVE PagesHold
    OBVIOUS
  <2>1. PagesTyped /\ Stretch /\ HoursKept /\ PageKept
    BY DEF PagesInv
  <2>2. Pages!PageNeverGoesBack
    BY <2>1 DEF Pages!PageNeverGoesBack, PageKept
  <2>3. Pages!HoursComplete
    <3> SUFFICES ASSUME NEW h \in Pages!AllHours \ late, covered[1] <= Begins(h), Ends(h) <= covered[2],
                        clock > Ends(h) + Lag + Period
                 PROVE  hourly[h] = Pages!CallsOf(h)
      BY DEF Pages!HoursComplete, Begins, Ends
    <3>1. h \in Nat /\ Ends(h) = Begins(h) + HourTicks /\ Begins(h) \in Nat
      <4>1. h \in Nat
        BY DEF Pages!AllHours
      <4> QED
        BY <4>1, HoursApart, PageAssumption DEF Begins
    <3>2. covered # Pages!NoCover
      BY <3>1, PageAssumption DEF Pages!NoCover
    <3>3. lastRun # -1 /\ clock \in Nat
      BY <2>1, <3>2 DEF Stretch, PagesTyped
    <3>4. lastRun >= Ends(h) + Lag
      BY <2>1, <3>1, <3>3, PageAssumption DEF HoursKept
    <3> QED
      BY <2>1, <3>4 DEF HoursKept, Inside
  <2> QED
    BY <2>2, <2>3 DEF PagesHold
<1> QED
  BY <1>1, <1>2, <1>3, PTL DEF Pages!Spec
===========================================================================
