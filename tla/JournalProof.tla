--------------------------- MODULE JournalProof ---------------------------
(***************************************************************************)
(* What reverting a journal does, one entry or one prefix at a time.        *)
(***************************************************************************)
EXTENDS Journal, SequenceTheorems, TLAPS

Ops == {"INSERT", "DELETE"}
Entries(H, T, K) == [head : H, table : T, op : Ops, keys : SUBSET K]

\* A key is in the reverted table when the oldest entry that touched it deleted
\* it, or when none touched it and it is in the table.
LEMMA RevertedMember ==
  ASSUME NEW log, NEW table, NEW now, NEW n, NEW k
  PROVE  k \in Reverted(log, table, now, n) <=>
           \/ Touching(log, table, k, n) = {} /\ k \in now
           \/ \E i \in Touching(log, table, k, n) :
                /\ log[i].op = "DELETE"
                /\ \A j \in Touching(log, table, k, n) : i <= j
BY DEF Reverted, Touching

\* Reverting nothing changes nothing.
LEMMA RevertNothing ==
  ASSUME NEW log, Len(log) \in Nat, NEW table, NEW now
  PROVE  Reverted(log, table, now, Len(log)) = now
<1>1. \A k : Touching(log, table, k, Len(log)) = {}
  BY DEF Touching
<1>2. \A k : k \in Reverted(log, table, now, Len(log)) <=> k \in now
  BY <1>1, RevertedMember
<1> QED BY <1>2

\* Reverting leaves keys that were in the table or in an entry.
LEMMA RevertedType ==
  ASSUME NEW H, NEW T, NEW K, NEW log \in Seq(Entries(H, T, K)), NEW table,
         NEW now \in SUBSET K, NEW n \in Nat
  PROVE  Reverted(log, table, now, n) \in SUBSET K
<1>1. \A i \in n+1 .. Len(log) : log[i].keys \in SUBSET K
  <2> TAKE i \in n+1 .. Len(log)
  <2>1. i \in 1 .. Len(log)
    OBVIOUS
  <2>2. log[i] \in Entries(H, T, K)
    BY <2>1, ElementOfSeq
  <2> QED BY <2>2 DEF Entries
<1> QED BY <1>1 DEF Reverted

\* An entry about another table reverts to nothing.
LEMMA RevertOther ==
  ASSUME NEW H, NEW T, NEW K, NEW log \in Seq(Entries(H, T, K)),
         NEW e \in Entries(H, T, K), NEW table, e.table # table,
         NEW now, NEW n \in 0 .. Len(log)
  PROVE  Reverted(Append(log, e), table, now, n) = Reverted(log, table, now, n)
<1> DEFINE new == Append(log, e)
<1>1. /\ Len(new) = Len(log) + 1 /\ new[Len(log) + 1] = e
      /\ \A i \in 1 .. Len(log) : new[i] = log[i]
  BY AppendProperties
<1>2. \A k : Touching(new, table, k, n) = Touching(log, table, k, n)
  BY <1>1 DEF Touching
<1>3. \A k : \A i \in Touching(log, table, k, n) : new[i] = log[i]
  BY <1>1 DEF Touching
<1> HIDE DEF new
<1>4. \A k : k \in Reverted(new, table, now, n) <=> k \in Reverted(log, table, now, n)
  <2> TAKE k
  <2> QED BY <1>2, <1>3, RevertedMember
<1>5. Reverted(new, table, now, n) = Reverted(log, table, now, n)
  BY <1>4 DEF Reverted
<1> QED BY <1>5 DEF new

\* Entry e is an INSERT of new keys into `now`, or a DELETE of keys of it, and leaves
\* the other keys of `then` as they were.
Makes(e, now, then) ==
  /\ \A k : k \in e.keys => (k \in now <=> e.op = "DELETE")
  /\ \A k : k \notin e.keys => (k \in then <=> k \in now)

\* Such an entry, undone with what came before it, leaves what undoing the earlier
\* entries left.
LEMMA RevertEntry ==
  ASSUME NEW H, NEW T, NEW K, NEW log \in Seq(Entries(H, T, K)),
         NEW e \in Entries(H, T, K), NEW now, NEW then, NEW n \in 0 .. Len(log),
         Makes(e, now, then)
  PROVE  Reverted(Append(log, e), e.table, then, n) = Reverted(log, e.table, now, n)
<1> DEFINE new == Append(log, e)
           after(k) == Touching(new, e.table, k, n)
           before(k) == Touching(log, e.table, k, n)
           last == Len(log) + 1
<1>1. /\ Len(log) \in Nat /\ Len(new) = last /\ new[last] = e
      /\ \A i \in 1 .. Len(log) : new[i] = log[i]
  BY AppendProperties
<1>2. \A k : after(k) = before(k) \cup (IF k \in e.keys THEN {last} ELSE {})
  BY <1>1 DEF Touching
<1>3. \A k : \A i \in before(k) : new[i] = log[i] /\ i < last /\ i \in Nat
  BY <1>1 DEF Touching
<1>4. last \in Nat
  BY <1>1
<1>0. /\ \A k : k \in e.keys => (k \in now <=> e.op = "DELETE")
      /\ \A k : k \notin e.keys => (k \in then <=> k \in now)
  BY DEF Makes
<1> HIDE DEF new, last
<1>5. \A k : k \in Reverted(new, e.table, then, n) <=> k \in Reverted(log, e.table, now, n)
  <2> TAKE k
  <2>1. CASE before(k) = {} /\ k \notin e.keys
    <3>1. after(k) = {}
      BY <1>2, <2>1
    <3> QED BY <1>0, <2>1, <3>1, RevertedMember
  <2>2. CASE before(k) = {} /\ k \in e.keys
    <3>1. after(k) = {last}
      BY <1>2, <2>2
    <3>2. k \in Reverted(new, e.table, then, n) <=> e.op = "DELETE"
      <4>1. (\E i \in after(k) : new[i].op = "DELETE" /\ \A j \in after(k) : i <= j)
            <=> e.op = "DELETE"
        <5> HIDE DEF after
        <5> QED BY <1>1, <1>4, <3>1
      <4>2. after(k) # {}
        BY <3>1
      <4> QED BY <4>1, <4>2, RevertedMember
    <3> QED BY <1>0, <2>2, <3>2, RevertedMember
  <2>3. CASE before(k) # {}
    <3> HIDE DEF after, before
    <3>1. \A i \in after(k) : i \in before(k) \/ i = last
      BY <1>2
    <3>2. before(k) \subseteq after(k)
      BY <1>2
    <3>3. PICK b \in before(k) : TRUE
      BY <2>3
    <3>4. \A i \in before(k) : (\A j \in after(k) : i <= j) <=> (\A j \in before(k) : i <= j)
      BY <1>3, <1>4, <3>1, <3>2
    <3>5. ~\A j \in after(k) : last <= j
      BY <1>3, <1>4, <3>2, <3>3
    <3>6. (\E i \in after(k) : new[i].op = "DELETE" /\ \A j \in after(k) : i <= j)
          <=> (\E i \in before(k) : log[i].op = "DELETE" /\ \A j \in before(k) : i <= j)
      BY <1>3, <3>1, <3>2, <3>4, <3>5
    <3> QED BY <2>3, <3>2, <3>6, RevertedMember DEF after, before
  <2> QED BY <2>1, <2>2, <2>3
<1>6. Reverted(new, e.table, then, n) = Reverted(log, e.table, now, n)
  BY <1>5 DEF Reverted
<1> QED BY <1>6 DEF new

\* Reverting to m, then to an earlier n, is reverting to n.
LEMMA RevertTwice ==
  ASSUME NEW H, NEW T, NEW K, NEW log \in Seq(Entries(H, T, K)), NEW table, NEW now,
         NEW m \in 0 .. Len(log), NEW n \in 0 .. m
  PROVE  Reverted(SubSeq(log, 1, m), table, Reverted(log, table, now, m), n)
           = Reverted(log, table, now, n)
<1> DEFINE cut == SubSeq(log, 1, m)
           whole(k) == Touching(log, table, k, n)
           early(k) == Touching(cut, table, k, n)
           late(k) == Touching(log, table, k, m)
           mid == Reverted(log, table, now, m)
<1>1. /\ Len(log) \in Nat /\ Len(cut) = m /\ \A i \in 1 .. m : cut[i] = log[i]
  OBVIOUS
<1>2. \A k : whole(k) = early(k) \cup late(k)
  BY <1>1 DEF Touching
<1>3. \A k : \A i \in early(k) : cut[i] = log[i] /\ i <= m /\ i \in Nat
  BY <1>1 DEF Touching
<1>4. \A k : \A i \in late(k) : m < i /\ i \in Nat
  BY DEF Touching
<1> HIDE DEF cut
<1>5. \A k : k \in Reverted(cut, table, mid, n) <=> k \in Reverted(log, table, now, n)
  <2> TAKE k
  <2>1. CASE early(k) = {}
    <3>1. whole(k) = late(k)
      BY <1>2, <2>1
    <3>2. k \in Reverted(cut, table, mid, n) <=> k \in mid
      BY <2>1, RevertedMember
    <3> QED BY <3>1, <3>2, RevertedMember
  <2>2. CASE early(k) # {}
    <3> HIDE DEF whole, early, late
    <3>1. \A i \in early(k) : (\A j \in whole(k) : i <= j) <=> (\A j \in early(k) : i <= j)
      BY <1>2, <1>3, <1>4
    <3>2. \A i \in late(k) : ~\A j \in whole(k) : i <= j
      BY <1>2, <1>3, <1>4, <2>2
    <3>3. (\E i \in whole(k) : log[i].op = "DELETE" /\ \A j \in whole(k) : i <= j)
          <=> (\E i \in early(k) : cut[i].op = "DELETE" /\ \A j \in early(k) : i <= j)
      BY <1>2, <1>3, <3>1, <3>2
    <3>4. whole(k) # {}
      BY <1>2, <2>2
    <3> HIDE DEF mid
    <3> QED BY <2>2, <3>3, <3>4, RevertedMember DEF whole, early
  <2> QED BY <2>1, <2>2
<1> HIDE DEF mid
<1>6. Reverted(cut, table, mid, n) = Reverted(log, table, now, n)
  BY <1>5 DEF Reverted
<1> QED BY <1>6 DEF cut, mid

\* Reverting the newest entry undoes it: what it inserted goes, what it deleted
\* comes back.  With RevertTwice, that is the framework's newest-first loop.
LEMMA RevertNewest ==
  ASSUME NEW H, NEW T, NEW K, NEW log \in Seq(Entries(H, T, K)),
         NEW e \in Entries(H, T, K), NEW now
  PROVE  Reverted(Append(log, e), e.table, now, Len(log))
           = IF e.op = "DELETE" THEN now \cup e.keys ELSE now \ e.keys
<1> DEFINE new == Append(log, e)
           last == Len(log) + 1
<1>1. Len(log) \in Nat /\ Len(new) = last /\ new[last] = e
  BY AppendProperties
<1> HIDE DEF new
<1>2. \A k : Touching(new, e.table, k, Len(log)) = IF k \in e.keys THEN {last} ELSE {}
  BY <1>1 DEF Touching
<1>3. \A k : k \in Reverted(new, e.table, now, Len(log)) <=>
              IF k \in e.keys THEN e.op = "DELETE" ELSE k \in now
  <2> TAKE k
  <2>1. CASE k \in e.keys
    <3>1. Touching(new, e.table, k, Len(log)) = {last}
      BY <1>2, <2>1
    <3>2. k \in Reverted(new, e.table, now, Len(log)) <=> new[last].op = "DELETE"
      BY <1>1, <3>1, RevertedMember
    <3> QED BY <1>1, <2>1, <3>2
  <2>2. CASE k \notin e.keys
    <3>1. Touching(new, e.table, k, Len(log)) = {}
      BY <1>2, <2>2
    <3> QED BY <2>2, <3>1, RevertedMember
  <2> QED BY <2>1, <2>2
<1> QED BY <1>3 DEF new

=============================================================================
