----------------------- MODULE IdentityRehomingProofs -----------------------
(***************************************************************************)
(* Theorems about IdentityRehoming, for every set of resolvers and of key  *)
(* sets, every lease, margin and window, and histories of any length.      *)
(*                                                                         *)
(* Resolvers never see one another's rows.  What ties them together is     *)
(* where an entry of a history comes from: a key change was made by the    *)
(* resolver in charge and stands in its own row, a move in the row of its  *)
(* destination once that has adopted it (Stored).  Rows only grow (Grows), *)
(* so what was stored once stays comparable with everything later.         *)
(***************************************************************************)
EXTENDS IdentityRehoming, SumTheorems, SequenceTheorems

\* Two histories agree on their first n heads.
Agree(a, b, n) == n <= Len(a) /\ n <= Len(b) /\ \A i \in 1..n : a[i] = b[i]

\* The resolvers that have a row among rows.
Hosts(rows) == {h \in Host : rows[h] # NoRow}
\* The resolver of head n has stored the history up to it.
Stored(rows, log, n) ==
  LET h == log[n].resolver IN h \in Hosts(rows) /\ Agree(log, rows[h].log, n)

\* Each key change stands in the row of the resolver that made it.
ChangesStored(rows, log) == \A n \in 2..Len(log) : n \notin Moves(log) => Stored(rows, log, n)
\* The first key change after a move waits as if a lease were out at the move.
ChangesWait(log) ==
  \A n \in 3..Len(log) :
    n \notin Moves(log) /\ n - 1 \in Moves(log) => log[n].at >= log[n - 1].at + Lease + Margin
\* There is one genesis, at the resolver the owner enrolled with.
OneGenesis(rows, log) ==
  /\ Home \in Hosts(rows) /\ log[1] = rows[Home].log[1]
  /\ log[1].epoch = 0 /\ log[1].resolver = Home
\* What holds of every history that anybody can present.
Descends(rows, log) ==
  /\ log \in Seq(Control) /\ Len(log) >= 1
  /\ OneGenesis(rows, log) /\ ChangesStored(rows, log) /\ ChangesWait(log)

\* What a row promises: its lease bound covers what it may have issued.
Entitled(h, row) ==
  /\ row.lease <= row.update + Lease
  /\ row.status = "active" =>
       /\ Last(row.log).resolver = h
       /\ Len(row.log) \in Moves(row.log) => row.lease >= Last(row.log).at + Lease
Registry(rows) ==
  \A h \in Hosts(rows) :
    /\ rows[h] \in IdentityRow
    /\ Descends(rows, rows[h].log) /\ Verifies(rows[h].log) /\ Entitled(h, rows[h])

\* A history somebody was shown was stored by the resolver at its end.
Known(rows, log) == log \in Seq(Control) /\ Len(log) >= 1 /\ Stored(rows, log, Len(log))
\* The issuer of a lease covers it until it changes keys, and then has waited for it.
Covered(rows, lease) ==
  LET k == Len(lease.log)
      row == rows[lease.log[k].resolver]
  IN  /\ Len(row.log) = k => row.lease >= lease.at + Lease
      /\ Len(row.log) > k /\ k + 1 \notin Moves(row.log) =>
           row.log[k + 1].at >= lease.at + Lease + Margin

\* The inductive invariant.
Inv ==
  /\ TypeOK /\ Registry(held)
  /\ \A log \in attested : Known(held, log)
  /\ \A lease \in leases : Known(held, lease.log) /\ Covered(held, lease)
  /\ party.pin # <<>> => Known(held, party.pin)

\* From one set of rows to the next, no history is shortened or rewritten.
Grows(rows, next) ==
  \A h \in Hosts(rows) : h \in Hosts(next) /\ Agree(rows[h].log, next[h].log, Len(rows[h].log))

-----------------------------------------------------------------------------
(* Histories *)

\* A head has its parts.
LEMMA HeadType ==
  ASSUME NEW log \in Seq(Control), NEW n \in 1..Len(log)
  PROVE  /\ log[n] \in Control
         /\ log[n].op \in Quorum /\ log[n].rec \in Quorum /\ log[n].at \in Nat /\ log[n].issued \in Nat
         /\ log[n].resolver \in Host /\ log[n].epoch \in Nat
PROOF
  <1>1. log[n] \in Control
    OBVIOUS
  <1> QED
    BY <1>1 DEF Control

\* The history up to a head.
LEMMA UpTo ==
  ASSUME NEW log \in Seq(Control), NEW n \in 1..Len(log)
  PROVE  /\ SubSeq(log, 1, n) \in Seq(Control) /\ Len(SubSeq(log, 1, n)) = n
         /\ \A i \in 1..n : SubSeq(log, 1, n)[i] = log[i]
         /\ Last(SubSeq(log, 1, n)) = log[n]
         /\ Agree(SubSeq(log, 1, n), log, n)
PROOF
  <1>1. /\ SubSeq(log, 1, n) \in Seq(Control) /\ Len(SubSeq(log, 1, n)) = n
        /\ \A i \in 1..n : SubSeq(log, 1, n)[i] = log[i]
    OBVIOUS
  <1>2. n \in 1..n /\ n <= Len(log) /\ n <= n
    OBVIOUS
  <1>3. Last(SubSeq(log, 1, n)) = SubSeq(log, 1, n)[n]
    BY <1>1 DEF Last
  <1>4. Agree(SubSeq(log, 1, n), log, n)
    BY <1>1, <1>2 DEF Agree
  <1> QED
    BY <1>1, <1>2, <1>3, <1>4

\* Two histories that agree so far have the same head there.
LEMMA SameHead ==
  ASSUME NEW a \in Seq(Control), NEW b \in Seq(Control), NEW n \in Nat, Agree(a, b, n), NEW m \in 1..n
  PROVE  SubSeq(a, 1, m) = SubSeq(b, 1, m)
PROOF
  <1>1. m \in 1..Len(a) /\ m \in 1..Len(b) /\ \A i \in 1..m : a[i] = b[i]
    BY DEF Agree
  <1>2. SubSeq(a, 1, m) = [i \in 1..m |-> a[i]] /\ SubSeq(b, 1, m) = [i \in 1..m |-> b[i]]
    BY <1>1
  <1> QED
    BY <1>1, <1>2

\* A prefix is a history that the longer one agrees with throughout.
LEMMA PrefixAgrees ==
  ASSUME NEW a \in Seq(Control), NEW b \in Seq(Control)
  PROVE  IsPrefix(a, b) <=> Agree(a, b, Len(a))
PROOF
  <1>1. Len(a) \in Nat /\ Len(b) \in Nat
    OBVIOUS
  <1>2. SubSeq(a, 1, Len(a)) = [i \in 1..Len(a) |-> a[i]]
    BY <1>1
  <1>3. ASSUME Len(a) <= Len(b) PROVE SubSeq(b, 1, Len(a)) = [i \in 1..Len(a) |-> b[i]]
    BY <1>1, <1>3
  <1>4. CASE Len(a) <= Len(b)
    <2>1. [i \in 1..Len(a) |-> a[i]] = [i \in 1..Len(a) |-> b[i]] <=> \A i \in 1..Len(a) : a[i] = b[i]
      <3>1. ASSUME [i \in 1..Len(a) |-> a[i]] = [i \in 1..Len(a) |-> b[i]], NEW i \in 1..Len(a) PROVE a[i] = b[i]
        <4>1. [j \in 1..Len(a) |-> a[j]][i] = [j \in 1..Len(a) |-> b[j]][i]
          BY <3>1
        <4> QED
          BY <4>1
      <3> QED
        BY <3>1
    <2> QED
      BY <1>1, <1>2, <1>3, <1>4, <2>1 DEF IsPrefix, Agree
  <1>5. CASE ~(Len(a) <= Len(b))
    BY <1>5 DEF IsPrefix, Agree
  <1> QED
    BY <1>4, <1>5

\* Agreement is symmetric, passes on, and holds for less.
LEMMA AgreeRules ==
  /\ \A a, b, n : Agree(a, b, n) => Agree(b, a, n)
  /\ \A a, b, c, n : Agree(a, b, n) /\ Agree(b, c, n) => Agree(a, c, n)
  /\ \A a \in Seq(Control), b \in Seq(Control) : \A n \in Nat : \A m \in 0..n : Agree(a, b, n) => Agree(a, b, m)
PROOF
  <1>1. ASSUME NEW a \in Seq(Control), NEW b \in Seq(Control), NEW n \in Nat, NEW m \in 0..n, Agree(a, b, n)
        PROVE  Agree(a, b, m)
    <2>1. n <= Len(a) /\ n <= Len(b) /\ (\A i \in 1..n : a[i] = b[i]) /\ Len(a) \in Nat /\ Len(b) \in Nat
      BY <1>1 DEF Agree
    <2>2. m <= Len(a) /\ m <= Len(b) /\ \A i \in 1..m : i \in 1..n
      BY <2>1
    <2> QED
      BY <2>1, <2>2 DEF Agree
  <1> QED
    BY <1>1 DEF Agree

\* Histories that agree move at the same heads.
LEMMA SameMoves ==
  ASSUME NEW a \in Seq(Control), NEW b \in Seq(Control), NEW n \in Nat, Agree(a, b, n), NEW m \in 1..n
  PROVE  m \in Moves(a) <=> m \in Moves(b)
PROOF
  <1>1. n <= Len(a) /\ n <= Len(b) /\ \A i \in 1..n : a[i] = b[i]
    BY DEF Agree
  <1>2. m \in 2..Len(a) <=> m \in 2..Len(b)
    BY <1>1
  <1>3. m \in 2..Len(a) => a[m] = b[m] /\ a[m - 1] = b[m - 1]
    <2>1. m \in 2..Len(a) => m - 1 \in 1..n
      OBVIOUS
    <2> QED
      BY <1>1, <2>1
  <1> QED
    BY <1>2, <1>3 DEF Moves

\* A head that the rules let follow the history before it.
Follows(before, e) ==
  /\ e.at >= e.issued /\ e.at >= Last(before).at /\ Last(before).at < e.issued + Window
  /\ \/ /\ e.epoch = Last(before).epoch /\ e.resolver = Last(before).resolver
        /\ e.at <= e.issued + Window - 1 + Lease + Margin
        /\ ControlAllowed(before, e.op, e.rec)
     \/ /\ e.epoch = Last(before).epoch + 1 /\ e.op = Last(before).op /\ e.rec = Last(before).rec
        /\ e.at < e.issued + Window

\* A key change and a move as heads.
LEMMA Ends ==
  ASSUME NEW log \in Seq(Control), Len(log) >= 1, NEW op, NEW rec, NEW at, NEW issued, NEW to
  PROVE  /\ Last(Transitioned(log, op, rec, issued, at)) = Entry(op, rec, at, issued, Last(log).resolver, Last(log).epoch)
         /\ Last(Rehomed(log, to, issued, at)) = Entry(Last(log).op, Last(log).rec, at, issued, to, Last(log).epoch + 1)
PROOF
  <1>1. \A e : Last(Append(log, e)) = e
    <2>1. TAKE e
    <2>2. Len(Append(log, e)) = Len(log) + 1 /\ Append(log, e)[Len(log) + 1] = e
      OBVIOUS
    <2> QED
      BY <2>2 DEF Last
  <1> QED
    BY <1>1 DEF Transitioned, Rehomed

\* A history verifies when each of its heads follows those before it.
LEMMA VerifiesMeans ==
  ASSUME NEW log \in Seq(Control)
  PROVE  Verifies(log) <=> \A n \in 2..Len(log) : Follows(SubSeq(log, 1, n - 1), log[n])
PROOF
  <1> DEFINE Verified(n) ==
    LET e == log[n]
        before == SubSeq(log, 1, n - 1)
        previous == log[n - 1].at
    IN /\ e.at >= e.issued /\ e.at >= previous /\ previous < e.issued + Window
       /\ \/ /\ e.epoch = log[n - 1].epoch
             /\ e.at <= e.issued + Window - 1 + Lease + Margin
             /\ ControlAllowed(before, e.op, e.rec)
             /\ log[n] = Last(Transitioned(before, e.op, e.rec, e.issued, e.at))
          \/ /\ e.at < e.issued + Window
             /\ log[n] = Last(Rehomed(before, e.resolver, e.issued, e.at))
  <1>1. ASSUME NEW n \in 2..Len(log) PROVE Verified(n) <=> Follows(SubSeq(log, 1, n - 1), log[n])
    <2> DEFINE before == SubSeq(log, 1, n - 1)
               e == log[n]
               p == log[n - 1]
    <2>1. n \in 1..Len(log) /\ n - 1 \in 1..Len(log)
      OBVIOUS
    <2>2. before \in Seq(Control) /\ Len(before) >= 1 /\ Last(before) = p
      BY <2>1, UpTo
    <2>3. e \in Control /\ p \in Control
      BY <2>1, HeadType
    <2> HIDE DEF before, e, p
    <2>4. /\ Last(Transitioned(before, e.op, e.rec, e.issued, e.at)) = Entry(e.op, e.rec, e.at, e.issued, p.resolver, p.epoch)
          /\ Last(Rehomed(before, e.resolver, e.issued, e.at)) = Entry(p.op, p.rec, e.at, e.issued, e.resolver, p.epoch + 1)
      BY <2>2, Ends
    <2>5. e = Entry(e.op, e.rec, e.at, e.issued, p.resolver, p.epoch) <=> e.resolver = p.resolver /\ e.epoch = p.epoch
      BY SMTT(30), <2>3 DEF Control, Entry
    <2>6. e = Entry(p.op, p.rec, e.at, e.issued, e.resolver, p.epoch + 1) <=> e.op = p.op /\ e.rec = p.rec /\ e.epoch = p.epoch + 1
      BY SMTT(30), <2>3 DEF Control, Entry
    <2>7. Verified(n) <=>
            /\ e.at >= e.issued /\ e.at >= p.at /\ p.at < e.issued + Window
            /\ \/ /\ e.epoch = p.epoch /\ e.at <= e.issued + Window - 1 + Lease + Margin
                  /\ ControlAllowed(before, e.op, e.rec)
                  /\ e = Entry(e.op, e.rec, e.at, e.issued, p.resolver, p.epoch)
               \/ /\ e.at < e.issued + Window
                  /\ e = Entry(p.op, p.rec, e.at, e.issued, e.resolver, p.epoch + 1)
      BY <2>4 DEF before, e, p
    <2>8. Follows(before, e) <=> Verified(n)
      <3> HIDE DEF Verified
      <3> QED
        BY <2>2, <2>5, <2>6, <2>7, Zenon DEF Follows
    <2> QED
      BY <2>8 DEF before, e
  <1>2. Verifies(log) <=> \A n \in 2..Len(log) : Verified(n)
    BY DEF Verifies
  <1> HIDE DEF Verified
  <1> QED
    BY <1>1, <1>2

\* A prefix of a history that verifies does too.
LEMMA VerifiesPrefix ==
  ASSUME NEW a \in Seq(Control), NEW b \in Seq(Control), Agree(a, b, Len(a)), Verifies(b)
  PROVE  Verifies(a)
PROOF
  <1>1. ASSUME NEW n \in 2..Len(a) PROVE Follows(SubSeq(a, 1, n - 1), a[n])
    <2>1. n \in 2..Len(b) /\ n \in 1..Len(a) /\ n - 1 \in 1..Len(a) /\ Len(a) \in Nat
      BY DEF Agree
    <2>2. SubSeq(a, 1, n - 1) = SubSeq(b, 1, n - 1)
      BY <2>1, SameHead
    <2>3. a[n] = b[n]
      BY <2>1 DEF Agree
    <2> QED
      BY <2>1, <2>2, <2>3, VerifiesMeans
  <1> QED
    BY <1>1, VerifiesMeans

\* A history with a head that follows it.
LEMMA Longer ==
  ASSUME NEW log \in Seq(Control), NEW e \in Control
  PROVE  /\ Append(log, e) \in Seq(Control) /\ Len(Append(log, e)) = Len(log) + 1 /\ Len(log) \in Nat
         /\ Append(log, e)[Len(log) + 1] = e
         /\ \A i \in 1..Len(log) : Append(log, e)[i] = log[i]
         /\ Agree(log, Append(log, e), Len(log))
PROOF
  <1>1. /\ Append(log, e) \in Seq(Control) /\ Len(Append(log, e)) = Len(log) + 1 /\ Len(log) \in Nat
        /\ Append(log, e)[Len(log) + 1] = e
        /\ \A i \in 1..Len(log) : Append(log, e)[i] = log[i]
    OBVIOUS
  <1> QED
    BY <1>1 DEF Agree

LEMMA VerifiesLonger ==
  ASSUME NEW log \in Seq(Control), Len(log) >= 1, NEW e \in Control, Verifies(log), Follows(log, e)
  PROVE  Verifies(Append(log, e))
PROOF
  <1> DEFINE long == Append(log, e)
  <1>1. /\ long \in Seq(Control) /\ Len(long) = Len(log) + 1 /\ Len(log) \in Nat /\ long[Len(log) + 1] = e
        /\ \A i \in 1..Len(log) : long[i] = log[i]
        /\ Agree(log, long, Len(log))
    BY Longer
  <1> HIDE DEF long
  <1>2. ASSUME NEW n \in 2..Len(long) PROVE Follows(SubSeq(long, 1, n - 1), long[n])
    <2>1. n - 1 \in 1..Len(log)
      BY <1>1
    <2>2. SubSeq(long, 1, n - 1) = SubSeq(log, 1, n - 1)
      BY <1>1, <2>1, SameHead
    <2>3. CASE n = Len(log) + 1
      <3>1. SubSeq(log, 1, n - 1) = log
        BY <2>3, <1>1
      <3> QED
        BY <3>1, <2>2, <2>3, <1>1
    <2>4. CASE n \in 2..Len(log)
      <3>1. Follows(SubSeq(log, 1, n - 1), log[n])
        BY <2>4, VerifiesMeans
      <3>2. long[n] = log[n]
        BY <1>1, <2>4
      <3> QED
        BY <3>1, <3>2, <2>2
    <2> QED
      BY <2>3, <2>4, <1>1
  <1>3. Verifies(long)
    BY <1>1, <1>2, VerifiesMeans
  <1> QED
    BY <1>3 DEF long

\* What one head of a history that verifies says about the one before.
LEMMA Step ==
  ASSUME NEW log \in Seq(Control), Verifies(log), NEW n \in 2..Len(log)
  PROVE  /\ log[n - 1].at <= log[n].at /\ log[n - 1].epoch <= log[n].epoch
         /\ n \in Moves(log) => /\ log[n].epoch = log[n - 1].epoch + 1
                                /\ log[n].op = log[n - 1].op /\ log[n].rec = log[n - 1].rec
         /\ n \notin Moves(log) => /\ log[n].epoch = log[n - 1].epoch /\ log[n].resolver = log[n - 1].resolver
                                   /\ ControlAllowed(SubSeq(log, 1, n - 1), log[n].op, log[n].rec)
PROOF
  <1> DEFINE before == SubSeq(log, 1, n - 1)
             e == log[n]
             p == log[n - 1]
  <1>1. n \in 1..Len(log) /\ n - 1 \in 1..Len(log)
    OBVIOUS
  <1>2. Last(before) = p /\ Follows(before, e)
    BY <1>1, UpTo, VerifiesMeans
  <1>3. e.at \in Nat /\ p.at \in Nat /\ e.epoch \in Nat /\ p.epoch \in Nat
    BY <1>1, HeadType
  <1>4. n \in Moves(log) <=> e.epoch # p.epoch
    BY DEF Moves
  <1> HIDE DEF before, e, p
  <1>5. e.at >= p.at
    BY <1>2 DEF Follows
  <1>6. \/ e.epoch = p.epoch /\ e.resolver = p.resolver /\ ControlAllowed(before, e.op, e.rec)
        \/ e.epoch = p.epoch + 1 /\ e.op = p.op /\ e.rec = p.rec
    BY <1>2 DEF Follows
  <1>7. /\ p.at <= e.at /\ p.epoch <= e.epoch
        /\ n \in Moves(log) => e.epoch = p.epoch + 1 /\ e.op = p.op /\ e.rec = p.rec
        /\ n \notin Moves(log) => e.epoch = p.epoch /\ e.resolver = p.resolver /\ ControlAllowed(before, e.op, e.rec)
    BY <1>3, <1>4, <1>5, <1>6
  <1> QED
    BY <1>7 DEF before, e, p

\* Times and epochs never go back along a history.
LEMMA Forward ==
  ASSUME NEW log \in Seq(Control), Verifies(log), NEW m \in 1..Len(log), NEW n \in m..Len(log)
  PROVE  log[m].at <= log[n].at /\ log[m].epoch <= log[n].epoch
PROOF
  <1> DEFINE S == {i \in m..Len(log) : ~(log[m].at <= log[i].at /\ log[m].epoch <= log[i].epoch)}
  <1>1. SUFFICES ASSUME S # {} PROVE FALSE
    OBVIOUS
  <1>2. S \in SUBSET Nat
    OBVIOUS
  <1>3. PICK i \in S : \A j \in S : i <= j
    BY <1>1, <1>2, LeastNumber
  <1>4. i \in 1..Len(log) /\ log[m].at \in Nat /\ log[m].epoch \in Nat /\ log[i].at \in Nat /\ log[i].epoch \in Nat
    BY HeadType
  <1>5. i # m
    BY <1>3, <1>4
  <1>6. i \in 2..Len(log) /\ i - 1 \in m..Len(log) /\ i - 1 \notin S
    BY <1>3, <1>5
  <1>7. log[i - 1].at <= log[i].at /\ log[i - 1].epoch <= log[i].epoch
    BY <1>6, Step
  <1>8. log[i - 1].at \in Nat /\ log[i - 1].epoch \in Nat
    BY <1>6, HeadType
  <1>9. log[m].at <= log[i - 1].at /\ log[m].epoch <= log[i - 1].epoch
    BY <1>6
  <1>10. ~(log[m].at <= log[i].at /\ log[m].epoch <= log[i].epoch)
    BY <1>3
  <1>11. log[m].at <= log[i].at
    BY <1>4, <1>7, <1>8, <1>9
  <1>12. log[m].epoch <= log[i].epoch
    BY <1>4, <1>7, <1>8, <1>9
  <1> QED
    BY <1>10, <1>11, <1>12

\* Keys that differ were changed in between, at a head that is no move.
LEMMA Changed ==
  ASSUME NEW log \in Seq(Control), Verifies(log), NEW k \in 1..Len(log), NEW n \in k..Len(log),
         log[n].op # log[k].op \/ log[n].rec # log[k].rec
  PROVE  \E i \in (k + 1)..n : i \notin Moves(log)
PROOF
  <1> DEFINE S == {i \in k..n : log[i].op # log[k].op \/ log[i].rec # log[k].rec}
  <1>1. S \in SUBSET Nat /\ n \in S
    OBVIOUS
  <1>2. PICK i \in S : \A j \in S : i <= j
    BY <1>1, LeastNumber
  <1>3. i # k /\ i \in (k + 1)..n /\ i - 1 \in k..n /\ i - 1 \notin S /\ i \in 2..Len(log)
    BY <1>2
  <1>4. log[i - 1].op = log[k].op /\ log[i - 1].rec = log[k].rec
    BY <1>3
  <1>5. i \notin Moves(log)
    BY <1>2, <1>3, <1>4, Step
  <1> QED
    BY <1>3, <1>5

\* A key that left never returns.
LEMMA NoReturn ==
  ASSUME NEW log \in Seq(Control), Verifies(log), NEW i \in 1..Len(log), NEW k \in i..Len(log), NEW m \in k..Len(log),
         NEW x \in Acting(log[i]), x \notin Acting(log[k])
  PROVE  x \notin Acting(log[m])
PROOF
  <1> DEFINE S == {j \in k..Len(log) : x \in Acting(log[j])}
  <1>1. SUFFICES ASSUME S # {} PROVE FALSE
    OBVIOUS
  <1>2. S \in SUBSET Nat
    OBVIOUS
  <1>3. PICK j \in S : \A l \in S : j <= l
    BY <1>1, <1>2, LeastNumber
  <1>4. j # k /\ j \in 2..Len(log) /\ j - 1 \in k..Len(log) /\ j - 1 \notin S
    BY <1>3
  <1>5. x \notin Acting(log[j - 1]) /\ x \in Acting(log[j])
    BY <1>3, <1>4
  <1>6. log[j].op # log[j - 1].op \/ log[j].rec # log[j - 1].rec
    BY <1>5 DEF Acting
  <1>7. j \notin Moves(log)
    BY <1>4, <1>6, Step
  <1> DEFINE before == SubSeq(log, 1, j - 1)
  <1>8. ControlAllowed(before, log[j].op, log[j].rec)
    BY <1>4, <1>7, Step
  <1>9. j - 1 \in 1..Len(log) /\ i \in 1..(j - 1)
    BY <1>4
  <1>10. Last(before) = log[j - 1] /\ i \in DOMAIN before /\ before[i] = log[i]
    BY <1>9, UpTo
  <1> HIDE DEF before
  <1>11. x \in Retired(before)
    BY <1>5, <1>10 DEF Retired
  <1>12. x \notin Retired(before)
    BY <1>5, <1>8 DEF ControlAllowed, Acting
  <1> QED
    BY <1>11, <1>12

-----------------------------------------------------------------------------
(* Rows *)

\* Every row holds a history.
Logged(rows) == \A h \in Hosts(rows) : rows[h].log \in Seq(Control) /\ Len(rows[h].log) >= 1

LEMMA RegistryLogged == \A rows : Registry(rows) => Logged(rows)
PROOF
  BY DEF Registry, Logged, Descends

\* What is stored stays stored.
LEMMA StoredGrows ==
  ASSUME NEW rows, NEW next, Logged(rows), Logged(next), Grows(rows, next),
         NEW log \in Seq(Control), NEW n \in 1..Len(log), Stored(rows, log, n)
  PROVE  Stored(next, log, n)
PROOF
  <1> DEFINE h == log[n].resolver
  <1>1. h \in Hosts(rows) /\ Agree(log, rows[h].log, n)
    BY DEF Stored
  <1>2. h \in Hosts(next) /\ Agree(rows[h].log, next[h].log, Len(rows[h].log))
    BY <1>1 DEF Grows
  <1>3. rows[h].log \in Seq(Control) /\ next[h].log \in Seq(Control)
    BY <1>1, <1>2 DEF Logged
  <1>4. Len(rows[h].log) \in Nat /\ n \in 0..Len(rows[h].log)
    BY <1>1, <1>3 DEF Agree
  <1>5. Agree(rows[h].log, next[h].log, n)
    BY <1>2, <1>3, <1>4, AgreeRules
  <1>6. Agree(log, next[h].log, n)
    BY <1>1, <1>5, AgreeRules
  <1> QED
    BY <1>2, <1>6 DEF Stored

\* A history that agrees with one that is stored up to a head is, too.
LEMMA StoredAgrees ==
  ASSUME NEW rows, NEW a \in Seq(Control), NEW b \in Seq(Control), NEW n \in 1..Len(a),
         Agree(a, b, n), Stored(rows, b, n)
  PROVE  Stored(rows, a, n)
PROOF
  <1>1. a[n] = b[n]
    BY DEF Agree
  <1>2. Agree(a, rows[b[n].resolver].log, n)
    BY AgreeRules DEF Stored
  <1> QED
    BY <1>1, <1>2 DEF Stored

LEMMA DescendsGrows ==
  ASSUME NEW rows, NEW next, Logged(rows), Logged(next), Grows(rows, next), NEW log, Descends(rows, log)
  PROVE  Descends(next, log)
PROOF
  <1>1. log \in Seq(Control) /\ Len(log) >= 1 /\ OneGenesis(rows, log) /\ ChangesStored(rows, log) /\ ChangesWait(log)
    BY DEF Descends
  <1>2. OneGenesis(next, log)
    <2>1. Home \in Hosts(rows) /\ Home \in Hosts(next) /\ Agree(rows[Home].log, next[Home].log, Len(rows[Home].log))
      BY <1>1 DEF OneGenesis, Grows
    <2>2. rows[Home].log \in Seq(Control) /\ Len(rows[Home].log) >= 1
      BY <2>1 DEF Logged
    <2>3. rows[Home].log[1] = next[Home].log[1]
      BY <2>1, <2>2 DEF Agree
    <2> QED
      BY <1>1, <2>1, <2>3 DEF OneGenesis
  <1>3. ChangesStored(next, log)
    <2>1. ASSUME NEW n \in 2..Len(log), n \notin Moves(log) PROVE Stored(next, log, n)
      <3>1. n \in 1..Len(log) /\ Stored(rows, log, n)
        BY <1>1, <2>1 DEF ChangesStored
      <3> QED
        BY <1>1, <3>1, StoredGrows
    <2> QED
      BY <2>1 DEF ChangesStored
  <1> QED
    BY <1>1, <1>2, <1>3 DEF Descends

\* A history goes on at the heads of a longer one.
LEMMA DescendsPrefix ==
  ASSUME NEW rows, NEW b, Descends(rows, b), NEW a \in Seq(Control), Len(a) >= 1, Agree(a, b, Len(a))
  PROVE  Descends(rows, a)
PROOF
  <1>1. b \in Seq(Control) /\ Len(b) >= 1 /\ OneGenesis(rows, b) /\ ChangesStored(rows, b) /\ ChangesWait(b)
    BY DEF Descends
  <1>2. /\ Len(a) \in Nat /\ Len(b) \in Nat /\ Len(a) <= Len(b) /\ \A i \in 1..Len(a) : a[i] = b[i]
        /\ \A i \in 1..Len(a) : i \in Moves(a) <=> i \in Moves(b)
    BY <1>1, SameMoves DEF Agree
  <1>3. OneGenesis(rows, a)
    BY <1>1, <1>2 DEF OneGenesis
  <1>4. ASSUME NEW n \in 2..Len(a), n \notin Moves(a) PROVE Stored(rows, a, n)
    <2>1. n \in 1..Len(a) /\ n \in 0..Len(a) /\ n \in 2..Len(b) /\ n \notin Moves(b)
      BY <1>2, <1>4
    <2>2. Stored(rows, b, n)
      BY <1>1, <2>1 DEF ChangesStored
    <2>3. Agree(a, b, n)
      BY <1>1, <1>2, <2>1, AgreeRules
    <2> QED
      BY <1>1, <2>1, <2>2, <2>3, StoredAgrees
  <1>5. ASSUME NEW n \in 3..Len(a), n \notin Moves(a), n - 1 \in Moves(a) PROVE a[n].at >= a[n - 1].at + Lease + Margin
    <2>1. n \in 1..Len(a) /\ n - 1 \in 1..Len(a) /\ n \in 3..Len(b)
      BY <1>2
    <2>2. n \notin Moves(b) /\ n - 1 \in Moves(b) /\ a[n] = b[n] /\ a[n - 1] = b[n - 1]
      BY <1>2, <1>5, <2>1
    <2> QED
      BY <1>1, <2>1, <2>2 DEF ChangesWait
  <1> QED
    BY <1>3, <1>4, <1>5 DEF Descends, ChangesStored, ChangesWait

\* A head can follow when, unless it is a move, its resolver stores it and has waited.
LEMMA DescendsLonger ==
  ASSUME NEW rows, NEW log, Descends(rows, log), NEW e \in Control,
         e.epoch = Last(log).epoch =>
           /\ Stored(rows, Append(log, e), Len(log) + 1)
           /\ Len(log) \in Moves(log) => e.at >= Last(log).at + Lease + Margin
  PROVE  Descends(rows, Append(log, e))
PROOF
  <1>1. log \in Seq(Control) /\ Len(log) >= 1 /\ OneGenesis(rows, log) /\ ChangesStored(rows, log) /\ ChangesWait(log)
    BY DEF Descends
  <1> DEFINE long == Append(log, e)
             k == Len(log) + 1
  <1>2. /\ long \in Seq(Control) /\ Len(long) = k /\ Len(log) \in Nat /\ long[k] = e
        /\ \A i \in 1..Len(log) : long[i] = log[i]
        /\ Agree(log, long, Len(log))
    BY <1>1, Longer
  <1>3. e.epoch = Last(log).epoch => /\ Stored(rows, long, k)
                                     /\ Len(log) \in Moves(log) => e.at >= Last(log).at + Lease + Margin
    OBVIOUS
  <1> HIDE DEF long
  <1>4. \A i \in 1..Len(log) : i \in Moves(long) <=> i \in Moves(log)
    BY <1>1, <1>2, SameMoves
  <1>5. long[k - 1] = Last(log) /\ k \in 2..Len(long) /\ k - 1 = Len(log)
    BY <1>1, <1>2 DEF Last
  <1>6. k \notin Moves(long) => e.epoch = Last(log).epoch
    BY <1>2, <1>5 DEF Moves
  <1>7. OneGenesis(rows, long)
    <2>1. long[1] = log[1]
      BY <1>1, <1>2
    <2> QED
      BY <1>1, <2>1 DEF OneGenesis
  <1>8. ASSUME NEW n \in 2..Len(long), n \notin Moves(long) PROVE Stored(rows, long, n)
    <2>1. CASE n = k
      <3>1. e.epoch = Last(log).epoch
        BY <1>6, <1>8, <2>1
      <3>2. Stored(rows, long, k)
        BY <1>3, <3>1
      <3> QED
        BY <2>1, <3>2
    <2>2. CASE n # k
      <3>1. n \in 2..Len(log) /\ n \in 1..Len(log) /\ n \in 1..Len(long) /\ n \in 0..Len(log)
        BY <1>2, <1>8, <2>2
      <3>2. Stored(rows, log, n)
        BY <1>1, <1>4, <1>8, <3>1 DEF ChangesStored
      <3>3. Agree(long, log, n)
        BY <1>1, <1>2, <3>1, AgreeRules
      <3> QED
        BY <1>1, <1>2, <3>1, <3>2, <3>3, StoredAgrees
    <2> QED
      BY <2>1, <2>2
  <1>9. ASSUME NEW n \in 3..Len(long), n \notin Moves(long), n - 1 \in Moves(long)
        PROVE  long[n].at >= long[n - 1].at + Lease + Margin
    <2>1. CASE n = k
      <3>1. n - 1 \in 1..Len(log) /\ n - 1 = Len(log)
        BY <1>1, <1>2, <2>1
      <3>2. Len(log) \in Moves(log)
        BY <1>4, <1>9, <3>1
      <3> QED
        BY <1>2, <1>6, <1>9, <1>3, <1>5, <2>1, <3>2
    <2>2. CASE n # k
      <3>1. n \in 3..Len(log) /\ n \in 1..Len(log) /\ n - 1 \in 1..Len(log)
        BY <1>2, <1>9, <2>2
      <3>2. n \notin Moves(log) /\ n - 1 \in Moves(log) /\ long[n] = log[n] /\ long[n - 1] = log[n - 1]
        BY <1>2, <1>4, <1>9, <3>1
      <3> QED
        BY <1>1, <3>1, <3>2 DEF ChangesWait
    <2> QED
      BY <2>1, <2>2
  <1>10. Descends(rows, long)
    BY <1>1, <1>2, <1>7, <1>8, <1>9 DEF Descends, ChangesStored, ChangesWait
  <1> QED
    BY <1>10 DEF long

\* The row of h goes on from an earlier one: it is the same history with at least the
\* same promise, or a longer one whose first new head is a move, waited for the promise,
\* or comes from a resolver the identity had moved on to.
Continues(h, old, row) ==
  /\ Agree(old.log, row.log, Len(old.log))
  /\ \/ Len(row.log) = Len(old.log) /\ row.lease >= old.lease
     \/ /\ Len(row.log) > Len(old.log)
        /\ \/ Last(old.log).resolver # h
           \/ Len(old.log) + 1 \in Moves(row.log)
           \/ row.log[Len(old.log) + 1].at >= old.lease + Margin

\* One row is written: a first one, or one that goes on from what was there.
Written(rows, next, h, row) ==
  /\ rows \in [Host -> IdentityRow \cup {NoRow}] /\ Registry(rows)
  /\ h \in Host /\ row \in IdentityRow /\ Len(row.log) >= 1
  /\ next = [rows EXCEPT ![h] = row]
  /\ h \in Hosts(rows) => Continues(h, rows[h], row)

LEMMA RowIsRow == \A row \in IdentityRow : row # NoRow /\ row.log \in Seq(Control) /\ row.lease \in Nat /\ row.update \in Nat
PROOF
  BY HostAssumption DEF IdentityRow

LEMMA WrittenGrows ==
  ASSUME NEW rows, NEW next, NEW h, NEW row, Written(rows, next, h, row)
  PROVE  /\ next \in [Host -> IdentityRow \cup {NoRow}]
         /\ next[h] = row /\ \A g \in Host : g # h => next[g] = rows[g]
         /\ Hosts(next) = Hosts(rows) \cup {h}
         /\ Logged(rows) /\ Logged(next) /\ Grows(rows, next)
PROOF
  <1>1. /\ rows \in [Host -> IdentityRow \cup {NoRow}] /\ Registry(rows) /\ h \in Host /\ row \in IdentityRow
        /\ Len(row.log) >= 1 /\ next = [rows EXCEPT ![h] = row] /\ (h \in Hosts(rows) => Continues(h, rows[h], row))
    BY DEF Written
  <1>2. /\ next \in [Host -> IdentityRow \cup {NoRow}]
        /\ next[h] = row /\ \A g \in Host : g # h => next[g] = rows[g]
    BY <1>1
  <1>3. Hosts(next) = Hosts(rows) \cup {h}
    BY <1>1, <1>2, RowIsRow DEF Hosts
  <1>4. Logged(rows)
    BY <1>1, RegistryLogged
  <1>5. Logged(next)
    BY <1>1, <1>2, <1>3, <1>4, RowIsRow DEF Logged, Hosts
  <1>6. ASSUME NEW g \in Hosts(rows) PROVE g \in Hosts(next) /\ Agree(rows[g].log, next[g].log, Len(rows[g].log))
    <2>1. CASE g = h
      BY <1>1, <1>2, <1>3, <1>6, <2>1 DEF Continues
    <2>2. CASE g # h
      <3>1. next[g] = rows[g]
        BY <1>2, <2>2 DEF Hosts
      <3>2. rows[g].log \in Seq(Control)
        BY <1>4 DEF Logged
      <3>3. Len(rows[g].log) \in Nat
        BY <3>2
      <3> QED
        BY <1>3, <3>1, <3>3 DEF Agree
    <2> QED
      BY <2>1, <2>2
  <1> QED
    BY <1>2, <1>3, <1>4, <1>5, <1>6 DEF Grows

\* The registry after a row was written.
LEMMA WrittenRegistry ==
  ASSUME NEW rows, NEW next, NEW h, NEW row, Written(rows, next, h, row),
         Descends(next, row.log), Verifies(row.log), Entitled(h, row)
  PROVE  Registry(next)
PROOF
  <1>1. /\ next[h] = row /\ \A g \in Host : g # h => next[g] = rows[g]
        /\ Hosts(next) = Hosts(rows) \cup {h}
        /\ Logged(rows) /\ Logged(next) /\ Grows(rows, next)
    BY WrittenGrows
  <1>2. Registry(rows) /\ row \in IdentityRow
    BY DEF Written
  <1>3. ASSUME NEW g \in Hosts(next)
        PROVE  next[g] \in IdentityRow /\ Descends(next, next[g].log) /\ Verifies(next[g].log) /\ Entitled(g, next[g])
    <2>1. CASE g = h
      BY <1>1, <1>2, <2>1
    <2>2. CASE g # h
      <3>1. g \in Hosts(rows) /\ next[g] = rows[g]
        BY <1>1, <2>2 DEF Hosts
      <3>2. rows[g] \in IdentityRow /\ Descends(rows, rows[g].log) /\ Verifies(rows[g].log) /\ Entitled(g, rows[g])
        BY <1>2, <3>1 DEF Registry
      <3>3. Descends(next, rows[g].log)
        BY <1>1, <3>2, DescendsGrows
      <3> QED
        BY <3>1, <3>2, <3>3
    <2> QED
      BY <2>1, <2>2
  <1> QED
    BY <1>3 DEF Registry

\* What others were shown is still stored.
LEMMA WrittenKnown ==
  ASSUME NEW rows, NEW next, NEW h, NEW row, Written(rows, next, h, row), NEW log, Known(rows, log)
  PROVE  Known(next, log)
PROOF
  <1>1. Logged(rows) /\ Logged(next) /\ Grows(rows, next)
    BY WrittenGrows
  <1>2. log \in Seq(Control) /\ Len(log) >= 1 /\ Stored(rows, log, Len(log))
    BY DEF Known
  <1>3. Len(log) \in 1..Len(log)
    BY <1>2
  <1>4. Stored(next, log, Len(log))
    BY <1>1, <1>2, <1>3, StoredGrows
  <1> QED
    BY <1>2, <1>4 DEF Known

\* And the leases that are out are covered.
LEMMA WrittenCovered ==
  ASSUME NEW rows, NEW next, NEW h, NEW row, Written(rows, next, h, row),
         NEW lease \in [log : Seq(Control), at : Nat], Known(rows, lease.log), Covered(rows, lease)
  PROVE  Covered(next, lease)
PROOF
  <1> DEFINE k == Len(lease.log)
             g == lease.log[k].resolver
             old == rows[g]
  <1>1. /\ next[h] = row /\ \A x \in Host : x # h => next[x] = rows[x]
        /\ Logged(rows)
    BY WrittenGrows
  <1>2. lease.log \in Seq(Control) /\ k \in Nat /\ k >= 1 /\ g \in Hosts(rows) /\ Agree(lease.log, old.log, k)
    BY DEF Known, Stored
  <1>3. g \in Host /\ old \in IdentityRow /\ old.log \in Seq(Control) /\ old.lease \in Nat
    <2>1. g \in Host
      BY <1>2 DEF Hosts
    <2>2. old \in IdentityRow
      BY <1>2 DEF Written, Registry
    <2> QED
      BY <2>1, <2>2, RowIsRow
  <1>4. k <= Len(old.log) /\ Len(old.log) \in Nat
    BY <1>2, <1>3 DEF Agree
  <1>5. /\ Len(old.log) = k => old.lease >= lease.at + Lease
        /\ Len(old.log) > k /\ k + 1 \notin Moves(old.log) => old.log[k + 1].at >= lease.at + Lease + Margin
    BY DEF Covered
  <1>6. lease.at \in Nat /\ Lease \in Nat /\ Margin \in Nat
    BY ClockAssumption
  <1>7. CASE g # h
    <2>1. next[g] = old
      BY <1>1, <1>3, <1>7
    <2> QED
      BY <1>5, <2>1 DEF Covered
  <1>8. CASE g = h
    <2>1. Continues(h, old, row) /\ next[g] = row /\ row \in IdentityRow
      BY <1>1, <1>2, <1>8 DEF Written
    <2>2. row.log \in Seq(Control) /\ row.lease \in Nat /\ Len(row.log) \in Nat
      BY <2>1, RowIsRow
    <2> HIDE DEF g, k, old
    <2>3. Agree(old.log, row.log, Len(old.log)) /\ Len(old.log) <= Len(row.log)
      BY <2>1 DEF Continues, Agree
    <2>4. ASSUME Len(row.log) = k PROVE row.lease >= lease.at + Lease
      <3>1. Len(old.log) = k /\ Len(row.log) = Len(old.log)
        BY <1>4, <2>3, <2>4
      <3>2. row.lease >= old.lease
        BY <1>4, <2>1, <3>1 DEF Continues
      <3> QED
        BY <1>3, <1>5, <1>6, <2>2, <3>1, <3>2
    <2>5. ASSUME Len(row.log) > k, k + 1 \notin Moves(row.log) PROVE row.log[k + 1].at >= lease.at + Lease + Margin
      <3>1. CASE Len(old.log) = k
        <4>0. Last(old.log).resolver = h
          BY <1>2, <1>8, <3>1 DEF Last, Agree, g, k
        <4>1. row.log[k + 1].at >= old.lease + Margin
          BY <1>4, <2>1, <2>5, <3>1, <4>0 DEF Continues
        <4>2. row.log[k + 1].at \in Nat
          <5>1. k + 1 \in 1..Len(row.log)
            BY <1>2, <2>2, <2>5
          <5> QED
            BY <2>2, <5>1, HeadType
        <4> QED
          BY <1>3, <1>5, <1>6, <3>1, <4>1, <4>2
      <3>2. CASE Len(old.log) > k
        <4>1. k + 1 \in 1..Len(old.log)
          BY <1>2, <1>4, <3>2
        <4>2. row.log[k + 1] = old.log[k + 1] /\ (k + 1 \in Moves(old.log) <=> k + 1 \in Moves(row.log))
          BY <1>3, <1>4, <2>2, <2>3, <4>1, SameMoves DEF Agree
        <4> QED
          BY <1>5, <2>5, <3>2, <4>2
      <3> QED
        BY <1>4, <3>1, <3>2, <1>2
    <2> QED
      BY <2>1, <2>4, <2>5 DEF Covered, g, k, old
  <1> QED
    BY <1>7, <1>8

-----------------------------------------------------------------------------
(* The steps *)

\* The invariant, unfolded.
LEMMA InvMeans ==
  ASSUME Inv
  PROVE  /\ now \in Nat /\ held \in [Host -> IdentityRow \cup {NoRow}] /\ refused \in [Host -> SUBSET Rehome]
         /\ Held = Hosts(held) /\ Registry(held) /\ Logged(held)
         /\ \A log \in attested : Known(held, log)
         /\ leases \subseteq [log : Seq(Control), at : Nat]
         /\ \A lease \in leases : Known(held, lease.log) /\ Covered(held, lease)
         /\ party.pin \in Seq(Control)
         /\ party.pin # <<>> => Known(held, party.pin)
PROOF
  BY RegistryLogged DEF Inv, TypeOK, Held, Hosts

\* The row of a resolver.
LEMMA RowMeans ==
  ASSUME Inv, NEW h \in Held
  PROVE  /\ h \in Host /\ h \in Hosts(held) /\ held[h] \in IdentityRow
         /\ held[h].log \in Seq(Control) /\ Len(held[h].log) >= 1 /\ Len(held[h].log) \in Nat
         /\ held[h].lease \in Nat /\ held[h].update \in Nat
         /\ Descends(held, held[h].log) /\ Verifies(held[h].log) /\ Entitled(h, held[h])
PROOF
  <1>1. h \in Hosts(held) /\ h \in Host /\ Registry(held)
    BY InvMeans DEF Hosts
  <1>2. held[h] \in IdentityRow /\ Descends(held, held[h].log) /\ Verifies(held[h].log) /\ Entitled(h, held[h])
    BY <1>1 DEF Registry
  <1>3. held[h].log \in Seq(Control) /\ Len(held[h].log) >= 1
    BY <1>2 DEF Descends
  <1> QED
    BY <1>1, <1>2, <1>3, RowIsRow

\* What anybody can present descends from the genesis.
LEMMA Presented ==
  ASSUME Inv, NEW log \in Logs
  PROVE  Descends(held, log) /\ log \in Seq(Control) /\ Len(log) >= 1 /\ Len(log) \in Nat
PROOF
  <1>1. ASSUME NEW head \in Histories PROVE Descends(held, head)
    <2>1. PICK h \in Held : head \in Heads(held[h].log)
      BY <1>1 DEF Histories
    <2>2. held[h].log \in Seq(Control) /\ Descends(held, held[h].log)
      BY RowMeans
    <2>3. PICK n \in 0..Len(held[h].log) : head = SubSeq(held[h].log, 1, n) /\ head # <<>>
      BY <2>1 DEF Heads, Prefixes
    <2>4. n \in 1..Len(held[h].log)
      BY <2>2, <2>3
    <2>5. head \in Seq(Control) /\ Len(head) = n /\ Agree(head, held[h].log, n)
      BY <2>2, <2>3, <2>4, UpTo
    <2> QED
      BY <2>2, <2>4, <2>5, DescendsPrefix
  <1>2. ASSUME NEW base \in Histories, NEW to \in Elsewhere(base), log = Rehomed(base, to, now, now)
        PROVE  Descends(held, log)
    <2>1. Descends(held, base) /\ base \in Seq(Control) /\ Len(base) >= 1
      BY <1>1 DEF Descends
    <2>2. Len(base) \in 1..Len(base)
      BY <2>1
    <2>3. /\ Last(base).op \in Quorum /\ Last(base).rec \in Quorum /\ Last(base).epoch \in Nat
          /\ to \in Host /\ now \in Nat
      BY <2>1, <2>2, HeadType, InvMeans DEF Last, Elsewhere
    <2> DEFINE e == Entry(Last(base).op, Last(base).rec, now, now, to, Last(base).epoch + 1)
    <2>4. e \in Control /\ e.epoch # Last(base).epoch
      BY <2>3 DEF Entry, Control
    <2>5. log = Append(base, e)
      BY <1>2 DEF Rehomed
    <2> HIDE DEF e
    <2> QED
      BY <2>1, <2>4, <2>5, DescendsLonger
  <1>3. Descends(held, log)
    BY <1>1, <1>2 DEF Logs, Consents
  <1> QED
    BY <1>3 DEF Descends

\* A step of others leaves the rows alone and shows what was stored.
LEMMA Unrowed ==
  ASSUME Inv, held' = held, now' \in Nat, refused' \in [Host -> SUBSET Rehome], leases' = leases,
         \A log \in attested' : log \in attested \/ Known(held, log),
         party' \in [pin : Seq(Control), keeps : BOOLEAN, kept : BOOLEAN, refusals : SUBSET Rehome],
         party'.pin # <<>> => Known(held, party'.pin)
  PROVE  Inv' /\ Grows(held, held')
PROOF
  <1>1. /\ held \in [Host -> IdentityRow \cup {NoRow}] /\ Registry(held) /\ Logged(held) /\ Held = Hosts(held)
        /\ \A log \in attested : Known(held, log)
        /\ leases \subseteq [log : Seq(Control), at : Nat]
        /\ \A lease \in leases : Known(held, lease.log) /\ Covered(held, lease)
    BY InvMeans
  <1>2. \A log \in attested' : Known(held', log)
    BY <1>1
  <1>3. \A log : Known(held, log) => log \in Seq(Control) /\ log # <<>>
    BY DEF Known
  <1>4. \A h \in Held' : held'[h].log # <<>>
    BY <1>1 DEF Held, Logged, Hosts
  <1>5. TypeOK'
    BY <1>1, <1>2, <1>3, <1>4 DEF TypeOK
  <1>6. Registry(held')
    BY <1>1
  <1>7. \A lease \in leases' : Known(held', lease.log) /\ Covered(held', lease)
    BY <1>1
  <1>8. party'.pin # <<>> => Known(held', party'.pin)
    OBVIOUS
  <1>9. Registry(held)'
    BY <1>6
  <1>10. Grows(held, held')
    <2>1. \A log \in Seq(Control) : Agree(log, log, Len(log))
      BY DEF Agree
    <2> QED
      BY <1>1, <2>1 DEF Grows, Logged
  <1> QED
    BY <1>2, <1>5, <1>7, <1>8, <1>9, <1>10 DEF Inv

\* A step of a resolver writes its row.
LEMMA Rowed ==
  ASSUME Inv, NEW h \in Host, NEW row, Written(held, held', h, row),
         Descends(held', row.log), Verifies(row.log), Entitled(h, row),
         UNCHANGED <<now, refused, party>>,
         \A log \in attested' : log \in attested \/ Known(held', log),
         \A lease \in leases' : \/ lease \in leases
                                \/ /\ lease \in [log : Seq(Control), at : Nat]
                                   /\ Known(held', lease.log) /\ Covered(held', lease)
  PROVE  Inv' /\ Grows(held, held')
PROOF
  <1>1. /\ \A log \in attested : Known(held, log)
        /\ leases \subseteq [log : Seq(Control), at : Nat]
        /\ \A lease \in leases : Known(held, lease.log) /\ Covered(held, lease)
        /\ party.pin # <<>> => Known(held, party.pin)
    BY InvMeans
  <1>2. held' \in [Host -> IdentityRow \cup {NoRow}] /\ Logged(held') /\ Grows(held, held')
    BY WrittenGrows
  <1>3. Registry(held')
    BY WrittenRegistry
  <1>4. \A log : Known(held, log) => Known(held', log)
    BY WrittenKnown
  <1>5. \A lease \in leases' : lease \in [log : Seq(Control), at : Nat] /\ Known(held', lease.log) /\ Covered(held', lease)
    BY <1>1, <1>4, WrittenCovered
  <1>6. \A log \in attested' : Known(held', log)
    BY <1>1, <1>4
  <1>7. party'.pin # <<>> => Known(held', party'.pin)
    BY <1>1, <1>4
  <1>8. \A log : Known(held', log) => log \in Seq(Control) /\ log # <<>>
    BY DEF Known
  <1>9. \A g \in Held' : held'[g].log # <<>>
    BY <1>2 DEF Held, Logged, Hosts
  <1>10. TypeOK'
    <2>1. /\ now' \in Nat /\ refused' \in [Host -> SUBSET Rehome]
          /\ party' \in [pin : Seq(Control), keeps : BOOLEAN, kept : BOOLEAN, refusals : SUBSET Rehome]
      BY DEF Inv, TypeOK
    <2>2. attested' \subseteq Seq(Control) /\ leases' \subseteq [log : Seq(Control), at : Nat]
      BY <1>5, <1>6, <1>8
    <2>3. \A log \in {held'[g].log : g \in Held'} \cup attested' \cup {lease.log : lease \in leases'} : log # <<>>
      BY <1>5, <1>6, <1>8, <1>9
    <2> QED
      BY <1>2, <2>1, <2>2, <2>3 DEF TypeOK
  <1>11. Registry(held)'
    BY <1>3
  <1> QED
    BY <1>2, <1>5, <1>6, <1>7, <1>10, <1>11 DEF Inv

LEMMA StepEnroll == ASSUME Inv, NEW h \in Host, Enroll(h) PROVE Inv' /\ Grows(held, held')
PROOF
  <1> DEFINE log == Genesis(Operational, Recovery, now, h)
             row == Row("active", log, now, now)
  <1>1. h = Home /\ held[h] = NoRow /\ held' = [held EXCEPT ![h] = row] /\ UNCHANGED <<now, refused, attested, leases, party>>
    BY DEF Enroll
  <1>2. now \in Nat /\ held \in [Host -> IdentityRow \cup {NoRow}] /\ Registry(held)
    BY InvMeans
  <1>3. /\ log \in Seq(Control) /\ Len(log) = 1 /\ log[1].epoch = 0 /\ log[1].resolver = h
        /\ Last(log) = log[1]
    <2>1. Entry(Operational, Recovery, now, now, h, 0) \in Control
      BY <1>1, <1>2, HostAssumption DEF Entry, Control
    <2> QED
      BY <2>1 DEF Genesis, Entry, Last
  <1>4. row.log = log /\ row.lease = now /\ row.update = now /\ row \in IdentityRow
    BY <1>2, <1>3 DEF Row, IdentityRow
  <1> HIDE DEF log, row
  <1>5. h \notin Hosts(held)
    BY <1>1 DEF Hosts
  <1>6. Written(held, held', h, row)
    <2>1. Len(row.log) >= 1
      <3>1. Len(row.log) = 1
        BY <1>3, <1>4, Zenon
      <3> QED
        BY <3>1
    <2> QED
      BY <1>1, <1>2, <1>4, <1>5, <2>1 DEF Written
  <1>7. Home \in Hosts(held') /\ held'[Home] = row
    <2>1. Hosts(held') = Hosts(held) \cup {h} /\ held'[h] = row
      BY <1>6, WrittenGrows
    <2> QED
      BY <1>1, <2>1
  <1>8. Descends(held', log)
    <2>1. OneGenesis(held', log)
      BY <1>1, <1>3, <1>4, <1>7 DEF OneGenesis
    <2>2. ChangesStored(held', log) /\ ChangesWait(log)
      BY <1>3 DEF ChangesStored, ChangesWait
    <2> QED
      BY <1>3, <2>1, <2>2 DEF Descends
  <1>9. Verifies(log)
    BY <1>3, VerifiesMeans
  <1>10. Entitled(h, row)
    <2>1. Len(log) \notin Moves(log)
      BY <1>3 DEF Moves
    <2>2. row.lease <= row.update + Lease
      BY <1>2, <1>4, ClockAssumption
    <2> QED
      BY <1>3, <1>4, <2>1, <2>2 DEF Entitled
  <1> QED
    BY <1>1, <1>4, <1>6, <1>8, <1>9, <1>10, Rowed

LEMMA StepTransition ==
  ASSUME Inv, NEW h \in Host, NEW op \in Quorum, NEW rec \in Quorum, NEW issued \in Signed,
         Transition(h, op, rec, issued)
  PROVE  Inv' /\ Grows(held, held')
PROOF
  <1> DEFINE old == held[h]
             log == old.log
             at == Barrier(now, old.lease)
             e == Entry(op, rec, at, issued, Last(log).resolver, Last(log).epoch)
             long == Append(log, e)
             row == Row("active", long, old.lease, now)
  <1>1. /\ h \in Held /\ old.status = "active" /\ Settled(old) /\ ControlAllowed(log, op, rec)
        /\ held' = [held EXCEPT ![h] = row] /\ UNCHANGED <<now, refused, attested, leases, party>>
    BY DEF Transition, Serves, Transitioned
  <1>2. /\ old \in IdentityRow /\ log \in Seq(Control) /\ Len(log) >= 1 /\ Len(log) \in Nat
        /\ old.lease \in Nat /\ old.update \in Nat
        /\ Descends(held, log) /\ Verifies(log) /\ Entitled(h, old)
    BY <1>1, RowMeans
  <1>3. now \in Nat /\ held \in [Host -> IdentityRow \cup {NoRow}] /\ Registry(held) /\ Held = Hosts(held)
    BY InvMeans
  <1>4. issued \in Nat /\ issued <= now /\ now < issued + Window
    BY <1>3, ClockAssumption DEF Signed
  <1>5. /\ Last(log).resolver \in Host /\ Last(log).epoch \in Nat /\ Last(log).at \in Nat
        /\ Last(log) = log[Len(log)]
    <2>1. Len(log) \in 1..Len(log)
      BY <1>2
    <2> QED
      BY <1>2, <2>1, HeadType DEF Last
  <1>6. at \in Nat /\ at >= now /\ at >= old.lease + Margin /\ (at = now \/ at = old.lease + Margin)
    BY <1>2, <1>3, ClockAssumption DEF Barrier, Larger
  <1>7. now >= old.update /\ now >= Last(log).at
    BY <1>1 DEF Settled
  <1>8. old.lease <= old.update + Lease /\ Last(log).resolver = h /\ (Len(log) \in Moves(log) => old.lease >= Last(log).at + Lease)
    BY <1>1, <1>2 DEF Entitled
  <1> HIDE DEF at
  <1>9. e \in Control /\ e.at = at /\ e.op = op /\ e.rec = rec /\ e.issued = issued /\ e.resolver = h /\ e.epoch = Last(log).epoch
    BY <1>4, <1>5, <1>6, <1>8 DEF Entry, Control
  <1> HIDE DEF e
  <1>10. /\ long \in Seq(Control) /\ Len(long) = Len(log) + 1 /\ long[Len(log) + 1] = e
         /\ \A i \in 1..Len(log) : long[i] = log[i]
         /\ Agree(log, long, Len(log))
    BY <1>2, <1>9, Longer
  <1>11. Last(long) = e /\ long[Len(long) - 1] = Last(log)
    BY <1>2, <1>5, <1>10 DEF Last
  <1>12. Len(long) \notin Moves(long)
    BY <1>2, <1>9, <1>10, <1>11 DEF Moves
  <1> HIDE DEF long
  <1>13. row \in IdentityRow /\ row.log = long /\ row.lease = old.lease /\ row.update = now
    BY <1>2, <1>3, <1>10 DEF Row, IdentityRow
  <1> HIDE DEF row
  <1>14. Continues(h, old, row)
    <2>1. Len(row.log) > Len(old.log) /\ row.log[Len(old.log) + 1].at >= old.lease + Margin
      BY <1>2, <1>6, <1>9, <1>10, <1>13
    <2> QED
      BY <1>10, <1>13, <2>1 DEF Continues
  <1>15. Written(held, held', h, row)
    <2>1. Len(row.log) >= 1
      BY <1>2, <1>10, <1>13
    <2> QED
      BY <1>1, <1>3, <1>13, <1>14, <2>1 DEF Written
  <1>16. Logged(held) /\ Logged(held') /\ Grows(held, held') /\ h \in Hosts(held') /\ held'[h] = row
    BY <1>15, WrittenGrows
  <1>17. Descends(held', log)
    BY <1>2, <1>16, DescendsGrows
  <1>18. Descends(held', long)
    <2>1. Stored(held', long, Len(log) + 1)
      BY <1>2, <1>9, <1>10, <1>13, <1>16 DEF Stored, Agree
    <2>2. ASSUME Len(log) \in Moves(log) PROVE e.at >= Last(log).at + Lease + Margin
      <3>1. old.lease >= Last(log).at + Lease /\ at >= old.lease + Margin /\ e.at = at
        BY <1>6, <1>8, <1>9, <2>2
      <3>2. old.lease \in Nat /\ Last(log).at \in Nat /\ at \in Nat /\ Lease \in Nat /\ Margin \in Nat
        BY <1>2, <1>5, <1>6, ClockAssumption
      <3> QED
        BY <3>1, <3>2
    <2> QED
      BY <1>9, <1>17, <2>1, <2>2, DescendsLonger DEF long
  <1>19. Verifies(long)
    <2>1. e.at >= e.issued /\ e.at >= Last(log).at /\ Last(log).at < e.issued + Window
      BY <1>3, <1>4, <1>5, <1>6, <1>7, <1>9, ClockAssumption
    <2>2. e.at <= e.issued + Window - 1 + Lease + Margin
      BY <1>2, <1>3, <1>4, <1>6, <1>7, <1>8, <1>9, ClockAssumption
    <2>3. Follows(log, e)
      BY <1>1, <1>8, <1>9, <2>1, <2>2 DEF Follows
    <2> QED
      BY <1>2, <1>9, <2>3, VerifiesLonger DEF long
  <1>20. Entitled(h, row)
    <2>1. row.lease <= row.update + Lease
      BY <1>2, <1>3, <1>7, <1>8, <1>13, ClockAssumption
    <2> QED
      BY <1>9, <1>11, <1>12, <1>13, <2>1 DEF Entitled
  <1> QED
    BY <1>1, <1>13, <1>15, <1>18, <1>19, <1>20, Rowed

LEMMA StepResolve == ASSUME Inv, NEW h \in Host, Resolve(h) PROVE Inv' /\ Grows(held, held')
PROOF
  <1> DEFINE old == held[h]
             row == [old EXCEPT !.lease = Larger(@, now + Lease), !.update = now]
             lease == [log |-> old.log, at |-> now]
  <1>1. /\ h \in Held /\ old.status = "active" /\ Settled(old)
        /\ leases' = leases \cup {lease} /\ UNCHANGED <<now, refused, attested, party>>
    BY DEF Resolve, Serves
  <1>2. /\ old \in IdentityRow /\ old.log \in Seq(Control) /\ Len(old.log) >= 1 /\ Len(old.log) \in Nat
        /\ old.lease \in Nat /\ old.update \in Nat
        /\ Descends(held, old.log) /\ Verifies(old.log) /\ Entitled(h, old)
    BY <1>1, RowMeans
  <1>3. now \in Nat /\ held \in [Host -> IdentityRow \cup {NoRow}] /\ Registry(held) /\ Held = Hosts(held)
    BY InvMeans
  <1>4. held' = [held EXCEPT ![h] = row]
    <2>1. held' = [held EXCEPT ![h].lease = Larger(@, now + Lease), ![h].update = now]
      BY DEF Resolve
    <2> QED
      BY <2>1, <1>2, <1>3
  <1>5. Larger(old.lease, now + Lease) \in Nat /\ Larger(old.lease, now + Lease) >= old.lease
        /\ Larger(old.lease, now + Lease) >= now + Lease
        /\ (Larger(old.lease, now + Lease) = old.lease \/ Larger(old.lease, now + Lease) = now + Lease)
    BY <1>2, <1>3, ClockAssumption DEF Larger
  <1>6. row \in IdentityRow /\ row.log = old.log /\ row.lease = Larger(old.lease, now + Lease) /\ row.update = now
        /\ row.status = old.status
    BY <1>2, <1>3, <1>5 DEF IdentityRow
  <1>7. lease.log = old.log /\ lease.at = now /\ lease \in [log : Seq(Control), at : Nat]
    BY <1>2, <1>3
  <1> HIDE DEF row, lease
  <1>8. Agree(old.log, row.log, Len(old.log))
    BY <1>2, <1>6 DEF Agree
  <1>9. Written(held, held', h, row)
    BY <1>1, <1>2, <1>3, <1>4, <1>5, <1>6, <1>8 DEF Written, Continues
  <1>10. Logged(held) /\ Logged(held') /\ Grows(held, held') /\ h \in Hosts(held') /\ held'[h] = row
    BY <1>9, WrittenGrows
  <1>11. Descends(held', row.log)
    BY <1>2, <1>6, <1>10, DescendsGrows
  <1>12. old.lease <= old.update + Lease /\ Last(old.log).resolver = h
         /\ (Len(old.log) \in Moves(old.log) => old.lease >= Last(old.log).at + Lease)
    BY <1>1, <1>2 DEF Entitled
  <1>13. Last(old.log).at \in Nat /\ Last(old.log) = old.log[Len(old.log)]
    <2>1. Len(old.log) \in 1..Len(old.log)
      BY <1>2
    <2> QED
      BY <1>2, <2>1, HeadType DEF Last
  <1>14. Entitled(h, row)
    <2>1. now >= old.update
      BY <1>1 DEF Settled
    <2>2. row.lease <= row.update + Lease
      BY <1>2, <1>3, <1>5, <1>6, <1>12, <2>1, ClockAssumption
    <2>3. Len(row.log) \in Moves(row.log) => row.lease >= Last(row.log).at + Lease
      BY <1>2, <1>3, <1>5, <1>6, <1>12, <1>13, ClockAssumption
    <2> QED
      BY <1>6, <1>12, <2>2, <2>3 DEF Entitled
  <1>15. Known(held', lease.log) /\ Covered(held', lease)
    <2>1. Stored(held', lease.log, Len(lease.log))
      BY <1>6, <1>7, <1>8, <1>10, <1>12, <1>13 DEF Stored
    <2>2. Covered(held', lease)
      <3>1. held'[lease.log[Len(lease.log)].resolver] = row
        BY <1>7, <1>10, <1>12, <1>13
      <3>2. Len(row.log) = Len(lease.log) /\ row.lease >= lease.at + Lease
        BY <1>5, <1>6, <1>7
      <3>3. Len(row.log) \in Nat
        BY <1>2, <1>6
      <3> QED
        BY <3>1, <3>2, <3>3 DEF Covered
    <2> QED
      BY <1>2, <1>7, <2>1, <2>2 DEF Known
  <1> QED
    BY <1>1, <1>2, <1>6, <1>7, <1>9, <1>11, <1>14, <1>15, Rowed

\* Histories of the same length, of which one is a prefix of the other, are the same.
LEMMA SameLength ==
  ASSUME NEW a \in Seq(Control), NEW b \in Seq(Control), Agree(a, b, Len(a)), Len(a) = Len(b)
  PROVE  a = b
PROOF
  <1>1. \A i \in 1..Len(a) : a[i] = b[i]
    BY DEF Agree
  <1> QED
    BY <1>1

\* Adopting a move goes on from whatever the destination had stored before.
LEMMA AdoptContinues ==
  ASSUME Inv, NEW h \in Held, NEW next, Descends(held, next), Verifies(next), Len(next) \in Moves(next),
         StoredPrefix(h, next), NEW row, row.log = next
  PROVE  Continues(h, held[h], row)
PROOF
  <1> DEFINE old == held[h]
             k == Len(old.log) + 1
  <1>1. /\ old.log \in Seq(Control) /\ Len(old.log) >= 1 /\ Len(old.log) \in Nat /\ Entitled(h, old)
        /\ Held = Hosts(held)
    BY RowMeans, InvMeans
  <1>2. next \in Seq(Control) /\ Len(next) \in Nat /\ ChangesStored(held, next)
    BY DEF Descends
  <1>3. Agree(old.log, next, Len(old.log)) /\ old.log # next
    BY <1>1, <1>2, PrefixAgrees DEF StoredPrefix, Held
  <1>4. Len(next) > Len(old.log)
    <2>1. Len(old.log) <= Len(next)
      BY <1>3 DEF Agree
    <2>2. Len(old.log) # Len(next)
      BY <1>1, <1>2, <1>3, SameLength
    <2> QED
      BY <1>1, <1>2, <2>1, <2>2
  <1>5. k \in 2..Len(next) /\ k \in 1..Len(next) /\ next[k - 1] = Last(old.log) /\ k - 1 = Len(old.log)
    BY <1>1, <1>2, <1>3, <1>4 DEF Agree, Last
  <1>6. ASSUME Last(old.log).resolver = h PROVE k \in Moves(next)
    <2>1. SUFFICES ASSUME k \notin Moves(next) PROVE FALSE
      OBVIOUS
    <2>2. next[k].resolver = h
      BY <1>2, <1>5, <1>6, <2>1, Step
    <2>3. Stored(held, next, k)
      BY <1>2, <1>5, <2>1 DEF ChangesStored
    <2>4. k <= Len(old.log)
      BY <2>2, <2>3 DEF Stored, Agree
    <2> QED
      BY <1>1, <2>4
  <1> QED
    BY <1>3, <1>4, <1>6 DEF Continues

LEMMA StepAdopt ==
  ASSUME Inv, NEW log \in Logs, NEW read \in 0..now, NEW issued \in 0..read,
         NEW h \in Elsewhere(log), Adopt(h, log, issued, read)
  PROVE  Inv' /\ Grows(held, held')
PROOF
  <1> DEFINE e == Entry(Last(log).op, Last(log).rec, read, issued, h, Last(log).epoch + 1)
             next == Append(log, e)
             row == Row("active", next, LeaseOnAdoption(read), read)
  <1>1. /\ Verifies(log) /\ read >= Last(log).at /\ StoredPrefix(h, next)
        /\ held' = [held EXCEPT ![h] = row] /\ attested' = attested \cup {next}
        /\ UNCHANGED <<now, refused, leases, party>>
    BY DEF Adopt, Rehomed
  <1>2. Descends(held, log) /\ log \in Seq(Control) /\ Len(log) >= 1 /\ Len(log) \in Nat
    BY Presented
  <1>3. now \in Nat /\ read \in Nat /\ read <= now /\ held \in [Host -> IdentityRow \cup {NoRow}] /\ Registry(held) /\ Held = Hosts(held)
    BY InvMeans
  <1>4. h \in Host /\ issued \in Nat /\ issued <= read /\ read < issued + Window
    BY <1>3 DEF Adopt, Elsewhere
  <1>5. /\ Last(log).op \in Quorum /\ Last(log).rec \in Quorum /\ Last(log).epoch \in Nat /\ Last(log).at \in Nat
        /\ Last(log) = log[Len(log)]
    <2>1. Len(log) \in 1..Len(log)
      BY <1>2
    <2> QED
      BY <1>2, <2>1, HeadType DEF Last
  <1>6. /\ e \in Control /\ e.at = read /\ e.op = Last(log).op /\ e.rec = Last(log).rec
        /\ e.issued = issued /\ e.resolver = h /\ e.epoch = Last(log).epoch + 1 /\ e.epoch # Last(log).epoch
    BY <1>3, <1>4, <1>5 DEF Entry, Control
  <1> HIDE DEF e
  <1>7. /\ next \in Seq(Control) /\ Len(next) = Len(log) + 1 /\ next[Len(log) + 1] = e
        /\ \A i \in 1..Len(log) : next[i] = log[i]
    BY <1>2, <1>6, Longer
  <1>8. Descends(held, next)
    BY <1>2, <1>6, DescendsLonger
  <1>9. Verifies(next)
    <2>1. e.at >= e.issued /\ e.at >= Last(log).at /\ Last(log).at < e.issued + Window
      BY <1>1, <1>3, <1>4, <1>5, <1>6, ClockAssumption
    <2>2. e.at < e.issued + Window
      BY <1>4, <1>6
    <2>3. Follows(log, e)
      BY <1>6, <2>1, <2>2 DEF Follows
    <2> QED
      BY <1>1, <1>2, <1>6, <2>3, VerifiesLonger
  <1> HIDE DEF next
  <1>10. Last(next) = e /\ next[Len(next) - 1] = Last(log) /\ Len(next) \in Nat /\ Len(next) >= 2
    BY <1>2, <1>5, <1>7 DEF Last
  <1>11. Len(next) \in Moves(next)
    BY <1>2, <1>6, <1>7, <1>10 DEF Moves
  <1>12. row \in IdentityRow /\ row.log = next /\ row.lease = read + Lease /\ row.update = read
    BY <1>3, <1>7, ClockAssumption DEF Row, IdentityRow, LeaseOnAdoption
  <1> HIDE DEF row
  <1>13. Written(held, held', h, row)
    <2>1. h \in Hosts(held) => Continues(h, held[h], row)
      BY <1>1, <1>3, <1>8, <1>9, <1>11, <1>12, AdoptContinues
    <2>2. Len(row.log) >= 1
      BY <1>2, <1>7, <1>12
    <2> QED
      BY <1>1, <1>3, <1>4, <1>12, <2>1, <2>2 DEF Written
  <1>14. Logged(held) /\ Logged(held') /\ Grows(held, held') /\ Hosts(held') = Hosts(held) \cup {h} /\ held'[h] = row
    BY <1>13, WrittenGrows
  <1>15. Descends(held', next)
    BY <1>8, <1>14, DescendsGrows
  <1>16. Entitled(h, row)
    <2>1. row.lease <= row.update + Lease /\ row.lease >= Last(next).at + Lease
      BY <1>3, <1>6, <1>10, <1>12, ClockAssumption
    <2> QED
      BY <1>6, <1>10, <1>12, <2>1 DEF Entitled
  <1>17. Known(held', next)
    <2>1. next[Len(next)] = e
      BY <1>10 DEF Last
    <2>2. Agree(next, next, Len(next))
      BY <1>10 DEF Agree
    <2>3. Stored(held', next, Len(next))
      BY <1>6, <1>12, <1>14, <2>1, <2>2 DEF Stored
    <2> QED
      BY <1>7, <1>10, <2>3 DEF Known
  <1> QED
    BY <1>1, <1>4, <1>9, <1>12, <1>13, <1>15, <1>16, <1>17, Rowed

LEMMA StepTransfer == ASSUME Inv, NEW log \in Logs, NEW h \in Host, Transfer(h, log) PROVE Inv' /\ Grows(held, held')
PROOF
  <1> DEFINE old == held[h]
             mine == old.log
             n == Len(mine) + 1
             left == SubSeq(log, 1, n)
             row == Row("transferred", left, log[n].at + Lease, log[n].at)
  <1>1. /\ h \in Held /\ Verifies(log) /\ n \in Moves(log) /\ IsPrefix(mine, log)
        /\ held' = [held EXCEPT ![h] = row] /\ UNCHANGED <<now, refused, attested, leases, party>>
    BY DEF Transfer, Serves
  <1>2. /\ mine \in Seq(Control) /\ Len(mine) >= 1 /\ Len(mine) \in Nat
    BY <1>1, RowMeans
  <1>3. held \in [Host -> IdentityRow \cup {NoRow}] /\ Registry(held)
    BY InvMeans
  <1>4. Descends(held, log) /\ log \in Seq(Control) /\ Len(log) >= 1 /\ Len(log) \in Nat
    BY Presented
  <1>5. n \in 1..Len(log) /\ n \in Nat
    BY <1>1, <1>2 DEF Moves
  <1>6. left \in Seq(Control) /\ Len(left) = n /\ Agree(left, log, n)
    BY <1>4, <1>5, UpTo
  <1>7. log[n].at \in Nat
    BY <1>4, <1>5, HeadType
  <1> HIDE DEF left
  <1>8. row \in IdentityRow /\ row.log = left /\ row.lease = log[n].at + Lease /\ row.update = log[n].at
        /\ row.status = "transferred"
    BY <1>6, <1>7, ClockAssumption DEF Row, IdentityRow
  <1> HIDE DEF row
  <1>9. n \in Moves(left)
    BY <1>1, <1>4, <1>5, <1>6, SameMoves
  <1>10. Agree(mine, left, Len(mine))
    <2>1. Agree(mine, log, Len(mine))
      BY <1>1, <1>2, <1>4, PrefixAgrees
    <2>2. Agree(log, left, Len(mine))
      <3>1. Len(mine) \in 0..n
        BY <1>2
      <3> QED
        BY <1>4, <1>5, <1>6, <3>1, AgreeRules
    <2> QED
      BY <2>1, <2>2, AgreeRules
  <1>11. Continues(h, old, row)
    <2>1. Len(left) > Len(mine)
      BY <1>2, <1>6
    <2> QED
      BY <1>8, <1>9, <1>10, <2>1 DEF Continues
  <1>12. Written(held, held', h, row)
    <2>1. Len(row.log) >= 1
      BY <1>2, <1>6, <1>8
    <2> QED
      BY <1>1, <1>3, <1>8, <1>11, <2>1 DEF Written
  <1>13. Logged(held) /\ Logged(held') /\ Grows(held, held')
    BY <1>12, WrittenGrows
  <1>14. Descends(held, left)
    <2>1. Len(left) >= 1 /\ Agree(left, log, Len(left))
      BY <1>5, <1>6
    <2> QED
      BY <1>4, <1>6, <2>1, DescendsPrefix
  <1>15. Descends(held', left)
    BY <1>13, <1>14, DescendsGrows
  <1>16. Verifies(left)
    BY <1>1, <1>4, <1>6, VerifiesPrefix
  <1>17. Entitled(h, row)
    BY <1>7, <1>8, ClockAssumption DEF Entitled
  <1> QED
    BY <1>1, <1>8, <1>12, <1>15, <1>16, <1>17, Rowed

\* What a resolver exports are heads of its own row.
LEMMA StepExport == ASSUME Inv, NEW h \in Host, Export(h) PROVE Inv' /\ Grows(held, held')
PROOF
  <1>1. /\ h \in Held /\ attested' = attested \cup OwnHeads(h, held[h].log)
        /\ UNCHANGED <<now, held, refused, leases, party>>
    BY DEF Export
  <1>2. held[h].log \in Seq(Control) /\ Held = Hosts(held)
    BY <1>1, RowMeans, InvMeans
  <1>3. ASSUME NEW head \in OwnHeads(h, held[h].log) PROVE Known(held, head)
    <2>1. PICK n \in 0..Len(held[h].log) : head = SubSeq(held[h].log, 1, n) /\ head # <<>> /\ Last(head).resolver = h
      BY <1>3 DEF OwnHeads, Heads, Prefixes
    <2>2. n \in 1..Len(held[h].log)
      BY <1>2, <2>1
    <2>3. head \in Seq(Control) /\ Len(head) = n /\ Agree(head, held[h].log, n)
      BY <1>2, <2>1, <2>2, UpTo
    <2> QED
      BY <1>1, <1>2, <2>1, <2>2, <2>3 DEF Known, Stored, Last
  <1>4. /\ now \in Nat /\ refused \in [Host -> SUBSET Rehome]
        /\ party \in [pin : Seq(Control), keeps : BOOLEAN, kept : BOOLEAN, refusals : SUBSET Rehome]
        /\ party.pin # <<>> => Known(held, party.pin)
    BY DEF Inv, TypeOK
  <1> QED
    BY <1>1, <1>3, <1>4, Unrowed

\* A history that does not end in a move is stored where it ends.
LEMMA ChangeStored ==
  ASSUME NEW rows, NEW log, Descends(rows, log), Logged(rows), Len(log) \notin Moves(log)
  PROVE  Known(rows, log)
PROOF
  <1>1. log \in Seq(Control) /\ Len(log) >= 1 /\ OneGenesis(rows, log) /\ ChangesStored(rows, log)
    BY DEF Descends
  <1>2. CASE Len(log) = 1
    <2>1. Home \in Hosts(rows) /\ log[1] = rows[Home].log[1] /\ log[1].resolver = Home
      BY <1>1 DEF OneGenesis
    <2>2. rows[Home].log \in Seq(Control) /\ Len(rows[Home].log) >= 1
      BY <2>1 DEF Logged
    <2>3. Agree(log, rows[Home].log, 1)
      BY <1>1, <2>1, <2>2 DEF Agree
    <2> QED
      BY <1>1, <1>2, <2>1, <2>3 DEF Known, Stored
  <1>3. CASE Len(log) # 1
    <2>1. Len(log) \in Nat
      BY <1>1
    <2>2. Len(log) \in 2..Len(log)
      BY <1>1, <1>3, <2>1
    <2> QED
      BY <1>1, <2>2 DEF ChangesStored, Known
  <1> QED
    BY <1>2, <1>3

\* What is known verifies and descends, as a prefix of a row.
LEMMA KnownMeans ==
  ASSUME Inv, NEW log, Known(held, log)
  PROVE  /\ log \in Seq(Control) /\ Len(log) >= 1 /\ Len(log) \in Nat
         /\ Last(log).resolver \in Held /\ Agree(log, held[Last(log).resolver].log, Len(log))
         /\ Descends(held, log) /\ Verifies(log)
PROOF
  <1>1. log \in Seq(Control) /\ Len(log) >= 1 /\ Len(log) \in Nat /\ Stored(held, log, Len(log))
    BY DEF Known
  <1>2. Last(log).resolver \in Held /\ Agree(log, held[Last(log).resolver].log, Len(log))
    BY <1>1, InvMeans DEF Stored, Last
  <1> DEFINE row == held[Last(log).resolver]
  <1>3. row.log \in Seq(Control) /\ Descends(held, row.log) /\ Verifies(row.log)
    BY <1>2, RowMeans
  <1> QED
    BY <1>1, <1>2, <1>3, DescendsPrefix, VerifiesPrefix

\* What a party admits was taken up where it ends.
LEMMA AdmitKnown == ASSUME Inv, NEW log \in Logs, party.pin # <<>>, Judged(log) PROVE Known(held, log)
PROOF
  <1> DEFINE pin == party.pin
             n == Len(log)
  <1>1. Descends(held, log) /\ log \in Seq(Control) /\ n >= 1 /\ n \in Nat
    BY Presented
  <1>2. /\ Verifies(log) /\ Len(log) >= Len(pin)
        /\ \E m \in DOMAIN log : log[m].epoch = Last(pin).epoch
        /\ Adopted(log, Last(pin).epoch, attested)
        /\ IsPrefix(pin, log) \/ Supersedes(pin, party.kept, log)
    BY DEF Judged, Admissible
  <1>3. Known(held, pin) /\ Logged(held) /\ \A a \in attested : Known(held, a)
    BY InvMeans
  <1>4. pin \in Seq(Control) /\ Len(pin) >= 1 /\ Len(pin) \in Nat
    BY <1>3, KnownMeans
  <1>5. CASE n \notin Moves(log)
    BY <1>1, <1>3, <1>5, ChangeStored
  <1>6. CASE n \in Moves(log)
    <2>1. n \in 1..n /\ n \in 2..n /\ n - 1 \in 1..n /\ DOMAIN log = 1..n
      BY <1>1, <1>6 DEF Moves
    <2>2. log[n].epoch \in Nat /\ log[n - 1].epoch \in Nat /\ log[n].epoch = log[n - 1].epoch + 1
      BY <1>1, <1>2, <1>6, <2>1, HeadType, Step
    <2>3. Last(pin).epoch \in Nat /\ Last(pin) = pin[Len(pin)] /\ Len(pin) \in 1..Len(pin)
      <3>1. Len(pin) \in 1..Len(pin)
        BY <1>4
      <3> QED
        BY <1>4, <3>1, HeadType DEF Last
    <2>4. CASE log[n].epoch > Last(pin).epoch
      <3>1. SubSeq(log, 1, n) \in attested
        BY <1>2, <1>6, <2>4 DEF Adopted
      <3>2. SubSeq(log, 1, n) = log
        BY <1>1
      <3> QED
        BY <1>3, <3>1, <3>2
    <2>5. CASE ~(log[n].epoch > Last(pin).epoch)
      <3>1. log[n].epoch = Last(pin).epoch
        <4>1. PICK m \in DOMAIN log : log[m].epoch = Last(pin).epoch
          BY <1>2
        <4>2. m \in 1..Len(log) /\ n \in m..Len(log)
          BY <1>1, <2>1, <4>1
        <4>3. log[m].epoch <= log[n].epoch
          BY <1>1, <1>2, <4>2, Forward
        <4> QED
          BY <2>2, <2>3, <2>5, <4>1, <4>3
      <3>2. ~Supersedes(pin, party.kept, log)
        BY <2>2, <2>3, <3>1 DEF Supersedes, Last
      <3>3. Agree(pin, log, Len(pin))
        BY <1>1, <1>2, <1>4, <3>2, PrefixAgrees
      <3>4. Len(pin) = n
        <4>1. SUFFICES ASSUME Len(pin) # n PROVE FALSE
          OBVIOUS
        <4>2. Len(pin) \in 1..Len(log) /\ n - 1 \in Len(pin)..Len(log)
          BY <1>1, <1>2, <1>4, <4>1
        <4>3. log[Len(pin)].epoch <= log[n - 1].epoch
          BY <1>1, <1>2, <4>2, Forward
        <4>4. log[Len(pin)] = Last(pin)
          BY <2>3, <3>3 DEF Agree
        <4> QED
          BY <2>2, <2>3, <3>1, <4>3, <4>4
      <3>5. pin = log
        BY <1>1, <1>4, <3>3, <3>4, SameLength
      <3> QED
        BY <1>3, <3>5
    <2> QED
      BY <2>4, <2>5
  <1> QED
    BY <1>5, <1>6

\* The steps of the relying party, of the clock, and refusals.
LEMMA StepOthers ==
  ASSUME Inv,
         \/ Tick
         \/ \E log \in Logs, issued \in Signed : \E h \in Elsewhere(log) : Refuse(h, log, issued)
         \/ \E log \in Logs : Pin(log) \/ Admit(log) \/ \E n \in Moves(log) : RecordRefusal(log, n)
         \/ \E lease \in leases : Authenticate(lease)
  PROVE  Inv' /\ Grows(held, held')
PROOF
  <1>1. /\ now \in Nat /\ refused \in [Host -> SUBSET Rehome] /\ Logged(held) /\ Held = Hosts(held)
        /\ \A lease \in leases : Known(held, lease.log)
        /\ party.pin # <<>> => Known(held, party.pin)
    BY InvMeans
  <1>2. party \in [pin : Seq(Control), keeps : BOOLEAN, kept : BOOLEAN, refusals : SUBSET Rehome]
    BY DEF Inv, TypeOK
  <1>3. CASE Tick
    BY <1>1, <1>2, <1>3, Unrowed DEF Tick
  <1>4. ASSUME NEW log \in Logs, NEW issued \in Signed, NEW h \in Elsewhere(log), Refuse(h, log, issued) PROVE Inv' /\ Grows(held, held')
    <2>1. refused' = [refused EXCEPT ![h] = @ \cup {Document(log, h, issued)}] /\ UNCHANGED <<now, held, attested, leases, party>>
      BY <1>4 DEF Refuse
    <2>2. Document(log, h, issued) \in Rehome
      <3>1. log \in Seq(Control) /\ h \in Host /\ issued \in Nat
        BY <1>1, Presented DEF Elsewhere, Signed
      <3> QED
        BY <3>1 DEF Document, Rehome
    <2>3. refused' \in [Host -> SUBSET Rehome]
      BY <1>1, <2>1, <2>2 DEF Elsewhere
    <2> QED
      BY <1>1, <1>2, <2>1, <2>3, Unrowed
  <1>5. ASSUME NEW log \in Logs, Pin(log) PROVE Inv' /\ Grows(held, held')
    <2>1. /\ Last(log).epoch = 0 /\ log \in UNION {Heads(held[h].log) : h \in Held}
          /\ party' = [party EXCEPT !.pin = log, !.kept = party.keeps] /\ UNCHANGED <<now, held, refused, attested, leases>>
      BY <1>5 DEF Pin
    <2>2. Descends(held, log) /\ log \in Seq(Control) /\ Len(log) >= 1 /\ Len(log) \in Nat
      BY Presented
    <2>3. Len(log) \notin Moves(log)
      <3>1. SUFFICES ASSUME Len(log) \in Moves(log) PROVE FALSE
        OBVIOUS
      <3>2. PICK h \in Held : log \in Heads(held[h].log)
        BY <2>1
      <3>3. held[h].log \in Seq(Control) /\ Verifies(held[h].log)
        BY RowMeans
      <3>4. PICK n \in 0..Len(held[h].log) : log = SubSeq(held[h].log, 1, n) /\ log # <<>>
        BY <3>2 DEF Heads, Prefixes
      <3>5. n \in 1..Len(held[h].log)
        BY <3>3, <3>4
      <3>6. Len(log) = n /\ Agree(log, held[h].log, n)
        BY <3>3, <3>4, <3>5, UpTo
      <3>7. Verifies(log)
        BY <2>2, <3>3, <3>6, VerifiesPrefix
      <3>8. Len(log) \in 2..Len(log) /\ Len(log) - 1 \in 1..Len(log)
        BY <2>2, <3>1 DEF Moves
      <3>9. log[Len(log)].epoch = log[Len(log) - 1].epoch + 1 /\ log[Len(log) - 1].epoch \in Nat
        BY <2>2, <3>1, <3>7, <3>8, Step, HeadType
      <3> QED
        BY <2>1, <3>9 DEF Last
    <2>4. Known(held, log)
      BY <1>1, <2>2, <2>3, ChangeStored
    <2>5. /\ party' \in [pin : Seq(Control), keeps : BOOLEAN, kept : BOOLEAN, refusals : SUBSET Rehome]
          /\ party'.pin = log
      BY <1>2, <2>1, <2>2
    <2> QED
      BY <1>1, <2>1, <2>4, <2>5, Unrowed
  <1>6. ASSUME NEW log \in Logs, Admit(log) PROVE Inv' /\ Grows(held, held')
    <2>1. /\ party.pin # <<>> /\ Judged(log)
          /\ party' = [party EXCEPT !.pin = log, !.kept = party.keeps] /\ UNCHANGED <<now, held, refused, attested, leases>>
      BY <1>6 DEF Admit
    <2>2. Known(held, log) /\ log \in Seq(Control)
      BY <2>1, AdmitKnown, Presented
    <2>3. /\ party' \in [pin : Seq(Control), keeps : BOOLEAN, kept : BOOLEAN, refusals : SUBSET Rehome]
          /\ party'.pin = log
      BY <1>2, <2>1, <2>2
    <2> QED
      BY <1>1, <2>1, <2>2, <2>3, Unrowed
  <1>7. ASSUME NEW log \in Logs, NEW n \in Moves(log), RecordRefusal(log, n) PROVE Inv' /\ Grows(held, held')
    <2>1. /\ party' = [party EXCEPT !.refusals = @ \cup {DocumentAt(log, n)}] /\ UNCHANGED <<now, held, refused, attested, leases>>
      BY <1>7 DEF RecordRefusal
    <2>2. DocumentAt(log, n) \in Rehome
      <3>1. log \in Seq(Control) /\ n \in 1..Len(log) /\ n - 1 \in 1..Len(log)
        BY Presented DEF Moves
      <3>2. SubSeq(log, 1, n - 1) \in Seq(Control) /\ log[n].resolver \in Host /\ log[n].issued \in Nat
        BY <3>1, UpTo, HeadType
      <3> QED
        BY <3>2 DEF DocumentAt, Document, Rehome
    <2>3. /\ party' \in [pin : Seq(Control), keeps : BOOLEAN, kept : BOOLEAN, refusals : SUBSET Rehome]
          /\ party'.pin = party.pin
      BY <1>2, <2>1, <2>2
    <2> QED
      BY <1>1, <2>1, <2>3, Unrowed
  <1>8. ASSUME NEW lease \in leases, Authenticate(lease) PROVE Inv' /\ Grows(held, held')
    <2>1. /\ party' = [party EXCEPT !.pin = lease.log, !.kept = @ /\ lease.log = party.pin]
          /\ UNCHANGED <<now, held, refused, attested, leases>>
      BY <1>8 DEF Authenticate
    <2>2. Known(held, lease.log) /\ lease.log \in Seq(Control)
      BY <1>1 DEF Known
    <2>3. /\ party' \in [pin : Seq(Control), keeps : BOOLEAN, kept : BOOLEAN, refusals : SUBSET Rehome]
          /\ party'.pin = lease.log
      BY <1>2, <2>1, <2>2
    <2> QED
      BY <1>1, <2>1, <2>2, <2>3, Unrowed
  <1> QED
    BY <1>3, <1>4, <1>5, <1>6, <1>7, <1>8

\* The invariant is inductive.
LEMMA InvInit == Init => Inv
PROOF
  <1> SUFFICES ASSUME Init PROVE Inv
    OBVIOUS
  <1>1. /\ now = 0 /\ held = [h \in Host |-> NoRow] /\ refused = [h \in Host |-> {}] /\ attested = {} /\ leases = {}
        /\ party.pin = <<>>
    BY DEF Init
  <1>2. party \in [pin : Seq(Control), keeps : BOOLEAN, kept : BOOLEAN, refusals : SUBSET Rehome]
    BY DEF Init
  <1>3. Held = {} /\ Hosts(held) = {}
    BY <1>1 DEF Held, Hosts
  <1>4. Registry(held)
    BY <1>3 DEF Registry
  <1>5. TypeOK
    BY <1>1, <1>2, <1>3 DEF TypeOK
  <1> QED
    BY <1>1, <1>4, <1>5 DEF Inv

LEMMA InvNext == Inv /\ [Next]_vars => Inv' /\ Grows(held, held')
PROOF
  <1> SUFFICES ASSUME Inv, [Next]_vars PROVE Inv' /\ Grows(held, held')
    OBVIOUS
  <1>1. CASE UNCHANGED vars
    <2>1. UNCHANGED <<now, held, refused, attested, leases, party>>
      BY <1>1 DEF vars
    <2>2. /\ now \in Nat /\ refused \in [Host -> SUBSET Rehome]
          /\ party \in [pin : Seq(Control), keeps : BOOLEAN, kept : BOOLEAN, refusals : SUBSET Rehome]
          /\ party.pin # <<>> => Known(held, party.pin)
      BY DEF Inv, TypeOK
    <2> QED
      BY <2>1, <2>2, Unrowed
  <1>2. CASE Next
    BY <1>2, StepEnroll, StepTransition, StepResolve, StepExport, StepAdopt, StepTransfer, StepOthers DEF Next
  <1> QED
    BY <1>1, <1>2

-----------------------------------------------------------------------------
(* What follows *)

\* Rows hold histories with a genesis, and what was signed names heads.
THEOREM TypeCorrect == Spec => []TypeOK
PROOF
  <1>1. Inv => TypeOK
    BY DEF Inv
  <1> QED
    BY <1>1, InvInit, InvNext, PTL DEF Spec

\* No step of anybody shortens or rewrites the history a resolver stores
\* (identity-registry.ts: every command appends, adopt and transfer extend what is stored).
THEOREM HistoriesGrow == Spec => [][Grows(held, held')]_vars
PROOF
  <1> QED
    BY InvInit, InvNext, PTL DEF Spec

\* Every history a resolver stores replays for a verifier that knows neither its
\* leases nor its clock (verifyIdentityLog).
THEOREM SafeHistories == Spec => []HistoriesReplay
PROOF
  <1>1. Inv => HistoriesReplay
    BY RowMeans DEF HistoriesReplay
  <1> QED
    BY <1>1, InvInit, InvNext, PTL DEF Spec

\* The resolver a pin names had adopted the identity there, since it stores the
\* history up to the pin.
LEMMA BindingMeans == Inv => BindingAdopted
PROOF
  <1> SUFFICES ASSUME Inv,
                      NEW n \in Moves(party.pin), \A m \in Moves(party.pin) : m <= n
               PROVE  party.pin[n].resolver \in Held
                        /\ IsPrefix(SubSeq(party.pin, 1, n), held[party.pin[n].resolver].log)
    BY DEF BindingAdopted
  <1> DEFINE pin == party.pin
             to == pin[n].resolver
  <1>1. pin # <<>>
    BY DEF Moves
  <1>2. /\ pin \in Seq(Control) /\ Len(pin) >= 1 /\ Len(pin) \in Nat /\ Verifies(pin)
        /\ Last(pin).resolver \in Held /\ Agree(pin, held[Last(pin).resolver].log, Len(pin))
    BY <1>1, InvMeans, KnownMeans
  <1>3. n \in 1..Len(pin) /\ n \in Nat
    BY <1>2 DEF Moves
  <1>4. Last(pin).resolver = to
    <2> DEFINE S == {i \in n..Len(pin) : pin[i].resolver # to}
    <2>1. SUFFICES ASSUME S # {} PROVE FALSE
      <3>1. Len(pin) \in n..Len(pin)
        BY <1>2, <1>3
      <3> QED
        BY <2>1, <3>1 DEF Last
    <2>2. S \in SUBSET Nat
      BY <1>3
    <2>3. PICK i \in S : \A j \in S : i <= j
      BY <2>1, <2>2, LeastNumber
    <2>4. i # n /\ i \in 2..Len(pin) /\ i - 1 \in n..Len(pin) /\ i - 1 \notin S /\ ~(i <= n)
      BY <1>3, <2>3
    <2>5. i \notin Moves(pin)
      BY <2>4
    <2>6. pin[i].resolver = pin[i - 1].resolver
      BY <1>2, <2>4, <2>5, Step
    <2> QED
      BY <2>3, <2>4, <2>6
  <1>5. held[to].log \in Seq(Control) /\ to \in Held
    BY <1>2, <1>4, RowMeans
  <1>6. SubSeq(pin, 1, n) \in Seq(Control) /\ Len(SubSeq(pin, 1, n)) = n /\ Agree(SubSeq(pin, 1, n), pin, n)
    BY <1>2, <1>3, UpTo
  <1>7. Agree(pin, held[to].log, n)
    <2>1. n \in 0..Len(pin)
      BY <1>3
    <2> QED
      BY <1>2, <1>4, <1>5, <2>1, AgreeRules
  <1>8. Agree(SubSeq(pin, 1, n), held[to].log, n)
    BY <1>6, <1>7, AgreeRules
  <1> QED
    BY <1>5, <1>6, <1>8, PrefixAgrees

\* A consent nobody took up never redirects a party (judgeVerified asks for the
\* attestation of each move past the pin).
THEOREM SafeBinding == Spec => []BindingAdopted
PROOF
  <1> QED
    BY BindingMeans, InvInit, InvNext, PTL DEF Spec

\* A lease moves a pin forward along the history it was pinned in: both end in the
\* row of one resolver.
LEMMA LeaseExtends ==
  ASSUME Inv, NEW lease \in leases, Authenticate(lease)
  PROVE  Agree(party.pin, lease.log, Len(party.pin))
PROOF
  <1> DEFINE pin == party.pin
             log == lease.log
             row == held[Last(pin).resolver]
  <1>1. /\ pin # <<>> /\ Last(log).resolver = Last(pin).resolver /\ Len(log) >= Len(pin)
    BY DEF Authenticate
  <1>2. /\ pin \in Seq(Control) /\ Len(pin) \in Nat /\ Agree(pin, row.log, Len(pin)) /\ Last(pin).resolver \in Held
    BY <1>1, InvMeans, KnownMeans
  <1>3. /\ log \in Seq(Control) /\ Len(log) \in Nat /\ Agree(log, row.log, Len(log))
    BY <1>1, InvMeans, KnownMeans
  <1>4. row.log \in Seq(Control)
    BY <1>2, RowMeans
  <1>5. Len(pin) \in 0..Len(log)
    BY <1>1, <1>2, <1>3
  <1>6. Agree(log, row.log, Len(pin))
    BY <1>3, <1>4, <1>5, AgreeRules
  <1>7. Agree(row.log, log, Len(pin))
    BY <1>6, AgreeRules
  <1> QED
    BY <1>2, <1>7, AgreeRules

\* What a history retired that another continues or leaves stays out of the other.
LEMMA SharedRetired ==
  ASSUME NEW pin \in Seq(Control), NEW log \in Seq(Control), Verifies(log), NEW n \in DOMAIN pin, SharedUpTo(pin, log, n)
  PROVE  Acting(Last(log)) \cap Retired(SubSeq(pin, 1, n)) = {}
PROOF
  <1> DEFINE before == SubSeq(pin, 1, n)
  <1>1. /\ Len(pin) \in Nat /\ Len(log) \in Nat /\ n \in 1..Len(pin) /\ n \in 1..Len(log)
        /\ \A i \in 1..n : pin[i] = log[i]
    BY DEF SharedUpTo
  <1>2. DOMAIN before = 1..n /\ \A i \in 1..n : before[i] = pin[i]
    BY <1>1
  <1>3. Last(before) = pin[n] /\ Last(log) = log[Len(log)]
    BY <1>1, UpTo DEF Last
  <1> HIDE DEF before
  <1>4. ASSUME NEW x \in Retired(before) PROVE x \notin Acting(Last(log))
    <2>1. PICK i \in 1..n : x \in Acting(pin[i])
      BY <1>2 DEF Retired
    <2>2. x \notin Acting(pin[n])
      BY <1>3 DEF Retired
    <2>3. i \in 1..Len(log) /\ n \in i..Len(log) /\ Len(log) \in n..Len(log) /\ pin[i] = log[i] /\ pin[n] = log[n]
      BY <1>1
    <2>4. x \notin Acting(log[Len(log)])
      BY <2>1, <2>2, <2>3, NoReturn
    <2> QED
      BY <1>3, <2>4
  <1> QED
    BY <1>4 DEF before

\* A fork that a party follows was made under the recovery quorum it knows last.
LEMMA ForkKeeps ==
  ASSUME NEW pin \in Seq(Control), NEW log \in Seq(Control), NEW n \in DOMAIN pin, ForksAt(pin, log, n),
         Len(pin) >= 1, Last(log).epoch > Last(pin).epoch, ~Conflict(log, pin)
  PROVE  log[n].rec = Last(pin).rec
PROOF
  <1>1. /\ Len(pin) \in Nat /\ Len(log) \in Nat /\ n \in 1..Len(pin) /\ n \in 1..Len(log)
        /\ n + 1 \in 1..Len(log) /\ n + 1 <= Len(pin) /\ log[n + 1] # pin[n + 1]
        /\ \A i \in 1..((n + 1) - 1) : log[i] = pin[i]
    BY DEF ForksAt, SharedUpTo
  <1>2. Last(log).epoch \in Nat /\ Last(pin).epoch \in Nat
    <2>1. Len(log) \in 1..Len(log) /\ Len(pin) \in 1..Len(pin)
      BY <1>1
    <2> QED
      BY <2>1, HeadType DEF Last
  <1>3. Last(log).epoch # Last(pin).epoch
    BY <1>2
  <1>4. Larger((n + 1) - 1, 1) = n
    BY <1>1 DEF Larger
  <1>5. ~(LET higher == IF Last(log).epoch > Last(pin).epoch THEN log ELSE pin
              lower == IF higher = log THEN pin ELSE log
          IN higher[Larger((n + 1) - 1, 1)].rec # Last(lower).rec)
    BY <1>1 DEF Conflict
  <1> QED
    BY <1>4, <1>5

\* What a pin's successor owes it: no fork but under the recovery quorum in force,
\* and none of the keys that left in what both share.
Governs(pin, log) ==
  \A n \in DOMAIN pin : ForksAt(pin, log, n) => log[n].rec = Last(pin).rec
Excludes(pin, log) ==
  \A n \in DOMAIN pin : SharedUpTo(pin, log, n) =>
    Acting(Last(log)) \cap Retired(SubSeq(pin, 1, n)) = {}

\* A history that continues the pin does not fork it.
LEMMA NoFork ==
  ASSUME NEW pin \in Seq(Control), NEW log \in Seq(Control), Verifies(log), Agree(pin, log, Len(pin))
  PROVE  Governs(pin, log) /\ Excludes(pin, log)
PROOF
  <1>1. Len(pin) \in Nat /\ \A i \in 1..Len(pin) : pin[i] = log[i]
    BY DEF Agree
  <1>2. ASSUME NEW n \in DOMAIN pin, ForksAt(pin, log, n) PROVE FALSE
    <2>1. n + 1 \in 1..Len(pin) /\ pin[n + 1] # log[n + 1]
      BY <1>1, <1>2 DEF ForksAt
    <2> QED
      BY <1>1, <2>1
  <1>3. Excludes(pin, log)
    BY SharedRetired DEF Excludes
  <1> QED
    BY <1>2, <1>3 DEF Governs

\* How a party's pin moves.
LEMMA PinStep ==
  ASSUME Inv, [Next]_vars
  PROVE  /\ [Governs(party.pin, party'.pin)]_party
         /\ [Excludes(party.pin, party'.pin)]_party
         /\ [~ party.kept => IsPrefix(party.pin, party'.pin)]_party
PROOF
  <1> DEFINE pin == party.pin
             Fine == /\ Governs(pin, party'.pin) /\ Excludes(pin, party'.pin)
                     /\ party.kept \/ IsPrefix(pin, party'.pin)
  <1>1. pin \in Seq(Control) /\ Len(pin) \in Nat
    BY InvMeans
  <1>2. pin # <<>> => Descends(held, pin) /\ Verifies(pin) /\ Len(pin) >= 1
    BY InvMeans, KnownMeans
  <1>3. ASSUME NEW log \in Seq(Control), Verifies(log), party'.pin = log, Agree(pin, log, Len(pin)) PROVE Fine
    BY <1>1, <1>3, NoFork, PrefixAgrees
  <1>4. ASSUME NEW log \in Logs, Pin(log) PROVE Fine
    <2>1. pin = <<>> /\ party' = [party EXCEPT !.pin = log, !.kept = party.keeps] /\ log \in Seq(Control)
      BY <1>4, Presented DEF Pin
    <2>2. party'.pin = log
      BY <2>1 DEF Inv, TypeOK
    <2>3. Agree(pin, log, Len(pin)) /\ DOMAIN pin = {}
      BY <2>1 DEF Agree
    <2>4. Governs(pin, log) /\ Excludes(pin, log)
      BY <2>3 DEF Governs, Excludes
    <2> QED
      BY <1>1, <2>1, <2>2, <2>3, <2>4, PrefixAgrees
  <1>5. ASSUME NEW log \in Logs, Admit(log) PROVE Fine
    <2>1. /\ pin # <<>> /\ Judged(log) /\ party' = [party EXCEPT !.pin = log, !.kept = party.keeps]
      BY <1>5 DEF Admit
    <2>2. party'.pin = log
      BY <2>1 DEF Inv, TypeOK
    <2>3. Descends(held, log) /\ log \in Seq(Control)
      BY Presented
    <2>4. /\ Verifies(log) /\ (party.kept => ~Conflict(log, pin))
          /\ IsPrefix(pin, log) \/ Supersedes(pin, party.kept, log)
      BY <2>1 DEF Judged, Admissible
    <2>5. CASE IsPrefix(pin, log)
      <3>1. Agree(pin, log, Len(pin))
        BY <1>1, <2>3, <2>5, PrefixAgrees
      <3> QED
        BY <1>3, <2>2, <2>3, <2>4, <3>1
    <2>6. CASE ~IsPrefix(pin, log)
      <3>1. party.kept /\ Last(log).epoch > Last(pin).epoch /\ ~Conflict(log, pin) /\ Len(pin) >= 1
        BY <1>2, <2>1, <2>4, <2>6 DEF Supersedes
      <3>2. Governs(pin, log)
        BY <1>1, <2>3, <3>1, ForkKeeps DEF Governs
      <3>3. Excludes(pin, log)
        BY <1>1, <2>3, <2>4, SharedRetired DEF Excludes
      <3> QED
        BY <2>2, <3>1, <3>2, <3>3
    <2> QED
      BY <2>5, <2>6
  <1>6. ASSUME NEW lease \in leases, Authenticate(lease) PROVE Fine
    <2>1. party' = [party EXCEPT !.pin = lease.log, !.kept = @ /\ lease.log = party.pin]
      BY <1>6 DEF Authenticate
    <2>2. party'.pin = lease.log
      BY <2>1 DEF Inv, TypeOK
    <2>3. lease.log \in Seq(Control) /\ Verifies(lease.log)
      BY InvMeans, KnownMeans
    <2>4. Agree(pin, lease.log, Len(pin))
      BY <1>6, LeaseExtends
    <2> QED
      BY <1>3, <2>2, <2>3, <2>4
  <1>7. ASSUME NEW log, NEW n, RecordRefusal(log, n) PROVE Fine
    <2>1. pin # <<>> /\ party' = [party EXCEPT !.refusals = @ \cup {DocumentAt(log, n)}]
      BY <1>7 DEF RecordRefusal
    <2>2. party'.pin = pin
      BY <2>1 DEF Inv, TypeOK
    <2>3. Agree(pin, pin, Len(pin))
      BY <1>1 DEF Agree
    <2> QED
      BY <1>1, <1>2, <1>3, <2>1, <2>2, <2>3
  <1>8. \/ party' = party
        \/ \E log \in Logs : Pin(log) \/ Admit(log) \/ \E n \in Moves(log) : RecordRefusal(log, n)
        \/ \E lease \in leases : Authenticate(lease)
    <2>1. CASE UNCHANGED vars
      BY <2>1 DEF vars
    <2>2. CASE Next
      BY <2>2 DEF Next, Tick, Enroll, Resolve, Export, Transition, Adopt, Refuse, Transfer
    <2> QED
      BY <2>1, <2>2
  <1>9. party' # party => Fine
    BY <1>4, <1>5, <1>6, <1>7, <1>8
  <1> QED
    BY <1>9

\* A party's pin moves only to where the identity is: a fork of its history counts only
\* under the recovery quorum it knows to be in force, no key returns that left before
\* the two parted, and without a newer log it stays in its own history (judgeVerified
\* with precedence, controlAllowed, verifyResolution).
THEOREM SafePins == Spec => PinsHold
PROOF
  <1>1. Inv /\ [Next]_vars =>
          /\ [\A n \in DOMAIN party.pin : ForksAt(party.pin, party.pin', n) =>
                party.pin'[n].rec = Last(party.pin).rec]_party
          /\ [\A n \in DOMAIN party.pin : SharedUpTo(party.pin, party.pin', n) =>
                Acting(Last(party.pin')) \cap Retired(SubSeq(party.pin, 1, n)) = {}]_party
          /\ [~ party.kept => IsPrefix(party.pin, party'.pin)]_party
    <2> SUFFICES ASSUME Inv, [Next]_vars, party' # party
                 PROVE  /\ Governs(party.pin, party'.pin) /\ Excludes(party.pin, party'.pin)
                        /\ ~ party.kept => IsPrefix(party.pin, party'.pin)
      BY DEF Governs, Excludes
    <2> QED
      BY PinStep
  <1>2. Inv /\ [Next]_vars => Inv'
    BY InvNext
  <1> QED
    BY <1>1, <1>2, InvInit, PTL DEF Spec, PinsHold, ForksGoverned, RetiredStayOut, PinsExtend

\* A key change after a lease waited for it, at its issuer or at a later resolver.
LEMMA LeasesMean == Inv => LeasesAgree
PROOF
  <1> SUFFICES ASSUME Inv, NEW lease \in leases, NEW h \in Held,
                      IsPrefix(lease.log, held[h].log),
                      NEW n \in (Len(lease.log) + 1)..Len(held[h].log),
                      held[h].log[n].op # Last(lease.log).op \/ held[h].log[n].rec # Last(lease.log).rec,
                      \A m \in Moves(held[h].log) : m > Len(lease.log) => lease.at <= held[h].log[m].at
               PROVE  lease.at + Lease + Margin <= held[h].log[n].at
    BY DEF LeasesAgree
  <1> DEFINE old == lease.log
             new == held[h].log
             k == Len(old)
             S == {i \in (k + 1)..n : i \notin Moves(new)}
  <1>1. Known(held, old) /\ Covered(held, lease) /\ lease.at \in Nat
    BY InvMeans
  <1>2. old \in Seq(Control) /\ k \in Nat /\ k >= 1
    BY <1>1, KnownMeans
  <1>3. new \in Seq(Control) /\ Len(new) \in Nat /\ Descends(held, new) /\ Verifies(new)
    BY RowMeans
  <1>4. Agree(old, new, k)
    BY <1>2, <1>3, PrefixAgrees
  <1>5. k \in 1..Len(new) /\ n \in k..Len(new) /\ n \in 1..Len(new) /\ new[k] = Last(old)
    BY <1>2, <1>3, <1>4 DEF Agree, Last
  <1>6. S # {} /\ S \in SUBSET Nat
    <2>1. \E i \in (k + 1)..n : i \notin Moves(new)
      BY <1>3, <1>5, Changed
    <2> QED
      BY <1>2, <2>1
  <1>7. PICK j \in S : \A i \in S : j <= i
    BY <1>6, LeastNumber
  <1>8. /\ j \in (k + 1)..n /\ j \in 2..Len(new) /\ j \in 1..Len(new) /\ j - 1 \in 1..Len(new) /\ n \in j..Len(new)
        /\ j \notin Moves(new)
    BY <1>2, <1>3, <1>5, <1>7
  <1>9. new[j].at <= new[n].at /\ new[j].at \in Nat /\ new[n].at \in Nat /\ new[j - 1].at \in Nat
    BY <1>3, <1>5, <1>8, Forward, HeadType
  <1>10. lease.at \in Nat /\ Lease \in Nat /\ Margin \in Nat
    BY <1>1, ClockAssumption
  <1>11. new[j].at >= lease.at + Lease + Margin
    <2>1. CASE j = k + 1
      <3> DEFINE g == Last(old).resolver
                 row == held[g]
      <3>1. new[j].resolver = g
        BY <1>2, <1>3, <1>5, <1>8, <2>1, Step
      <3>2. g \in Held /\ Agree(new, row.log, j)
        <4>1. Stored(held, new, j)
          BY <1>3, <1>8 DEF Descends, ChangesStored
        <4> QED
          BY <3>1, <4>1, InvMeans DEF Stored
      <3>3. row.log \in Seq(Control) /\ Len(row.log) \in Nat
        BY <3>2, RowMeans
      <3>4. j \in 1..j /\ j \in Nat
        BY <1>8
      <3>5. row.log[j] = new[j] /\ j \notin Moves(row.log) /\ Len(row.log) >= j
        BY <1>3, <1>8, <3>2, <3>3, <3>4, SameMoves DEF Agree
      <3>6. Len(row.log) > k
        BY <1>2, <2>1, <3>3, <3>5
      <3>7. row.log[k + 1].at >= lease.at + Lease + Margin
        BY <1>1, <2>1, <3>5, <3>6 DEF Covered, Last
      <3> QED
        BY <2>1, <3>5, <3>7
    <2>2. CASE j # k + 1
      <3>1. j - 1 \in (k + 1)..n /\ j - 1 \notin S /\ j \in 3..Len(new) /\ j - 1 > k
        BY <1>2, <1>7, <1>8, <2>2
      <3>2. j - 1 \in Moves(new)
        BY <3>1
      <3>3. new[j].at >= new[j - 1].at + Lease + Margin
        BY <1>3, <1>8, <3>1, <3>2 DEF Descends, ChangesWait
      <3>4. lease.at <= new[j - 1].at
        BY <3>1, <3>2
      <3>5. PICK at \in Nat : at = new[j - 1].at
        BY <1>9
      <3>6. PICK later \in Nat : later = new[j].at
        BY <1>9
      <3>7. later >= at + Lease + Margin /\ lease.at <= at
        BY <3>3, <3>4, <3>5, <3>6
      <3>8. later >= lease.at + Lease + Margin
        BY <1>10, <3>7
      <3> QED
        BY <3>6, <3>8
    <2> QED
      BY <2>1, <2>2
  <1>12. lease.at + Lease + Margin <= new[n].at
    <2> HIDE DEF old, new, k, S
    <2> QED
      BY <1>9, <1>11, <1>10
  <1> QED
    BY <1>12

\* No lease vouches for keys that a later head of the same history has replaced: the
\* change waited a margin beyond it, or it was issued after the identity had moved on
\* (resolve, the barrier of transitionIdentity and the first lease of rehomeIdentity).
THEOREM SafeLeases == Spec => []LeasesAgree
PROOF
  <1> QED
    BY LeasesMean, InvInit, InvNext, PTL DEF Spec
=============================================================================
