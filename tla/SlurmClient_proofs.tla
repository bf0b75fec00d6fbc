------------------------- MODULE SlurmClient_proofs -------------------------
(***************************************************************************)
(* What a round with Slurm reports, for any number of jobs and names,      *)
(* whatever the host does with the script. The invariant describes the     *)
(* text a round has printed so far: its sections, and of every row of a    *)
(* listing that it was true of its job at some moment of the round;        *)
(* parsing is then shown to find the rows of the target and no others.     *)
(***************************************************************************)
EXTENDS SlurmClient, FiniteSetTheorems, SequenceTheorems, WellFoundedInduction, TLAPS

OutputRows ==
    [marker : {"none", Cancel, Queue, Accounting}, id : Jobs \cup {ByName}, name : JobNames \cup {"none"},
     state : RawStates \cup {"none", "message"}, elapsed : {0, 1}]

TargetState == [id : Jobs \cup {ByName}, name : JobNames \cup {"none"}, cancel : BOOLEAN]

StatusState ==
    [round : BOOLEAN, found : BOOLEAN, id : Jobs \cup {ByName},
     state : {"Pending", "Active", "Stopped", "Expired", "Failed", "Unknown"}, elapsed : {0, 1}, cancelError : BOOLEAN]

Shapes ==
    /\ cluster \in [Jobs -> RawStates]
    /\ queued \subseteq {j \in Jobs : cluster[j] # "NONE"}
    /\ nameOf \in [Jobs -> JobNames]
    /\ submission \in [Jobs -> {"none", "sending", "id", "ambiguous", "refused"}]
    /\ misled \subseteq Jobs
    /\ roundAt \in {"idle", "scancel", "squeue", "sacct", "parse", "reported"}
    /\ target \in TargetState
    /\ output \in Seq(OutputRows)
    /\ seen \in [Jobs -> SUBSET RawStates]
    /\ status \in StatusState

(* The cluster: a job that is pending or running is in the queue, and the  *)
(* history of a round holds the state the job has now.                     *)
ClusterInv ==
    /\ \A j \in Jobs : cluster[j] \in {"PENDING", "RUNNING"} => j \in queued
    /\ \A j \in Jobs : roundAt # "idle" => cluster[j] \in seen[j]
    /\ target.id \in Jobs => target.name = nameOf[target.id]

(* What a listing printed of a job was true of it during the round.        *)
JobRow(row, names, states) ==
    /\ row.marker = "none"
    /\ row.id \in Jobs
    /\ row.name = names[row.id]
    /\ row.state \in states[row.id] \ {"NONE"}
    /\ row.elapsed \in {0, elapsed(row.state)}

Live(j) == seen[j] \subseteq {"PENDING", "RUNNING"}

Refusal(row) == row.marker = "none" /\ row.id = target.id /\ row.name = target.name

(* The section of cancellations: empty, or (n = 1) the refusal.  Without a *)
(* refusal, every job the target had has been cancelled or has ended.      *)
CancelPart(n) ==
    /\ n + 1 <= Len(output)
    /\ output[1] = Marker(Cancel)
    /\ n = 1 => Refusal(output[2])
    /\ target.cancel /\ n = 0 =>
          \A j \in Jobs : Targeted(j) /\ "NONE" \notin seen[j] => seen[j] \cap {"CANCELLED", "COMPLETED", "TIMEOUT"} # {}

(* The section of the queue, up to line e: its rows, and one of every job  *)
(* that is live throughout the round unless the section is empty; or the   *)
(* stray marker.                                                           *)
QueuePart(n, e) ==
    /\ e \in n + 2 .. Len(output)
    /\ output[n + 2] = Marker(Queue)
    /\ \/ /\ \A i \in n + 3 .. e : JobRow(output[i], nameOf, seen)
          /\ \A j \in Jobs : n + 3 <= e /\ Live(j) => \E i \in n + 3 .. e : output[i].id = j
       \/ e = n + 3 /\ output[e] = Marker(Queue)

(* The section of accounting, after line e: the jobs it had heard of.      *)
AccountingPart(e) ==
    /\ e + 1 <= Len(output)
    /\ output[e + 1] = Marker(Accounting)
    /\ \A i \in e + 2 .. Len(output) : JobRow(output[i], nameOf, seen)

RoundInv ==
    /\ roundAt = "scancel" => output = <<Marker(Cancel)>>
    /\ roundAt = "squeue" => \E n \in {0, 1} : CancelPart(n) /\ Len(output) = n + 1
    /\ roundAt = "sacct" => \E n \in {0, 1}, e \in Nat : CancelPart(n) /\ QueuePart(n, e) /\ e = Len(output)
    /\ roundAt \in {"parse", "reported"} =>
          \E n \in {0, 1}, e \in Nat : CancelPart(n) /\ QueuePart(n, e) /\ AccountingPart(e)
    /\ roundAt = "reported" => status \in {NoStatus, parseStatuses(output, target)}

SlurmInv == Shapes /\ ClusterInv /\ DefiniteRefusal /\ RoundInv

----------------------------------------------------------------------------
(* Numbers, sequences and sections.                                        *)

(* A nonempty set of naturals has a least element, and a greatest one when *)
(* it is bounded.                                                          *)
LEMMA LeastIndex ==
  ASSUME NEW T, T \subseteq Nat, T # {}
  PROVE  \E x \in T : \A y \in T : x <= y
<1> DEFINE R == OpToRel(<, Nat)
<1>1. IsWellFoundedOn(R, Nat)
  BY NatLessThanWellFounded
<1>2. \A x, y \in Nat : x < y => <<x, y>> \in R
  BY DEF OpToRel
<1> HIDE DEF R
<1>3. PICK x \in T : \A y \in T : ~(<<y, x>> \in R)
  BY <1>1, WFMin
<1>4. \A y \in T : ~(y < x)
  BY Zenon, <1>2, <1>3
<1>5. \A y \in T : x <= y
  BY <1>4
<1>6. QED
  BY Zenon, <1>5

LEMMA GreatestNat ==
  ASSUME NEW N \in Nat, NEW T, T \subseteq 1 .. N, T # {}
  PROVE  \E x \in T : \A y \in T : y <= x
<1> DEFINE U == {N - y : y \in T}
<1>1. U \subseteq Nat /\ U # {}
  <2>1. \A y \in T : N - y \in Nat
    OBVIOUS
  <2>2. \E y \in T : TRUE
    BY Zenon
  <2>3. QED
    BY Zenon, <2>1, <2>2
<1>2. PICK u \in U : \A v \in U : u <= v
  BY Zenon, <1>1, LeastIndex
<1>3. PICK x \in T : u = N - x
  BY Zenon, <1>2
<1>4. ASSUME NEW y \in T
      PROVE  y <= x
  <2>1. u <= N - y
    BY Zenon, <1>2
  <2>2. QED
    BY <1>3, <2>1
<1>5. QED
  BY Zenon, <1>4

(* The script prints a marker and then the rows of a listing.              *)
Appended(o, s, m, rows) ==
    /\ Len(s) \in Nat /\ Len(rows) \in Nat /\ Len(o) = Len(s) + 1 + Len(rows)
    /\ \A i \in 1 .. Len(s) : o[i] = s[i]
    /\ o[Len(s) + 1] = m
    /\ \A i \in Len(s) + 2 .. Len(o) : \E k \in 1 .. Len(rows) : o[i] = rows[k]
    /\ \A k \in 1 .. Len(rows) : \E i \in Len(s) + 2 .. Len(o) : o[i] = rows[k]

LEMMA Printed ==
  ASSUME NEW S, NEW s \in Seq(S), NEW m \in S, NEW r \in Seq(S), NEW o, o = s \o <<m>> \o r
  PROVE  o \in Seq(S) /\ Appended(o, s, m, r)
<1>1. <<m>> \in Seq(S) /\ Len(<<m>>) = 1 /\ <<m>>[1] = m
  OBVIOUS
<1>2. PICK p : p = s \o <<m>>
  BY Zenon
<1>3. p \in Seq(S) /\ Len(p) = Len(s) + 1 /\ (\A i \in 1 .. Len(s) : p[i] = s[i]) /\ p[Len(s) + 1] = m
  BY <1>1, <1>2
<1>4. o = p \o r
  BY Zenon, <1>2
<1>5. Len(o) = Len(p) + Len(r) /\ o \in Seq(S)
  BY <1>3, <1>4
<1>6. \A i \in 1 .. Len(p) : o[i] = p[i]
  BY <1>3, <1>4
<1>7. \A i \in Len(p) + 1 .. Len(o) : o[i] = r[i - Len(p)]
  BY <1>3, <1>4, <1>5
<1>8. Len(s) \in Nat /\ Len(r) \in Nat
  OBVIOUS
<1>9. Len(o) = Len(s) + 1 + Len(r) /\ (\A i \in 1 .. Len(s) : o[i] = s[i]) /\ o[Len(s) + 1] = m
  BY <1>3, <1>5, <1>6, <1>8
<1>10. \A i \in Len(s) + 2 .. Len(o) : o[i] = r[i - Len(p)] /\ i - Len(p) \in 1 .. Len(r)
  BY <1>3, <1>5, <1>7, <1>8
<1>11. ASSUME NEW k \in 1 .. Len(r)
       PROVE  \E i \in Len(s) + 2 .. Len(o) : o[i] = r[k]
  <2>1. k + Len(p) \in Len(s) + 2 .. Len(o) /\ (k + Len(p)) - Len(p) = k
    BY <1>3, <1>5, <1>8
  <2>2. o[k + Len(p)] = r[(k + Len(p)) - Len(p)]
    BY Zenon, <1>10, <2>1
  <2>3. QED
    BY Zenon, <2>1, <2>2
<1>12. QED
  BY Zenon, <1>5, <1>8, <1>9, <1>10, <1>11 DEF Appended

(* A listing of a set of jobs has rows of these jobs and a row of each.    *)
Lists(rows, S, w) ==
    /\ \A i \in 1 .. Len(rows) : \E j \in S : rows[i] = Line(j, w)
    /\ \A j \in S : \E i \in 1 .. Len(rows) : rows[i] = Line(j, w)

LEMMA ListingRows ==
  ASSUME NEW S, S \subseteq Jobs, NEW w \in BOOLEAN, NEW rows \in Listings(S, w), NEW R, \A j \in S : Line(j, w) \in R
  PROVE  rows \in Seq(R) /\ Lists(rows, S, w)
<1> DEFINE N == Cardinality(S)
<1>1. N \in Nat
  BY Zenon, SlurmAssumption, FS_Subset, FS_CardinalityType
<1> HIDE DEF N
<1>2. PICK order \in [1 .. N -> S] : {order[i] : i \in DOMAIN order} = S /\ rows = [i \in 1 .. N |-> Line(order[i], w)]
  BY Zenon DEF Listings, N
<1>3. \A i \in 1 .. N : order[i] \in S /\ rows[i] = Line(order[i], w)
  BY Zenon, <1>2
<1>4. DOMAIN rows = 1 .. N
  BY Zenon, <1>2
<1>5. rows \in Seq(R)
  <2>1. rows \in [1 .. N -> R]
    BY Zenon, <1>2, <1>3
  <2>2. QED
    BY Zenon, <1>1, <2>1, SeqDef
<1>6. DOMAIN rows = 1 .. Len(rows)
  BY Zenon, <1>5, LenProperties
<1>7. \A j \in S : \E i \in 1 .. N : order[i] = j
  BY Zenon, <1>2
<1>8. QED
  BY Zenon, <1>3, <1>4, <1>5, <1>6, <1>7 DEF Lists

(* The marker a section starts at, and whether p and e enclose a section.  *)
MarkerLine(lines, m) == CHOOSE i \in {k \in DOMAIN lines : lines[k].marker # "none"} : lines[i].marker = m

Encloses(lines, p, e) ==
    /\ p \in Nat /\ e \in Nat
    /\ p + 1 <= e /\ e <= Len(lines) + 1
    /\ \A i \in p + 1 .. e - 1 : lines[i].marker = "none"
    /\ e # Len(lines) + 1 => lines[e].marker # "none"

(* A section goes from its marker to the next marker or to the end.        *)
LEMMA SectionAt ==
  ASSUME NEW lines, NEW m, NEW p, NEW e, Len(lines) \in Nat, DOMAIN lines = 1 .. Len(lines),
         p = MarkerLine(lines, m), Encloses(lines, p, e)
  PROVE  Sections(lines, m) = SubSeq(lines, p + 1, e - 1)
<1> DEFINE markers == {i \in DOMAIN lines : lines[i].marker # "none"}
           first == CHOOSE i \in markers : lines[i].marker = m
           next == {i \in markers : i > first} \cup {Len(lines) + 1}
           bound == CHOOSE i \in next : \A k \in next : i <= k
<1>0. p \in Nat /\ e \in Nat /\ p + 1 <= e /\ e <= Len(lines) + 1
  BY Zenon DEF Encloses
<1>1. first = p
  BY Zenon DEF MarkerLine
<1>2. Sections(lines, m) = SubSeq(lines, first + 1, bound - 1)
  BY Zenon DEF Sections
<1> HIDE DEF first
<1>3. next \subseteq Nat
  BY <1>0, <1>1
<1>4. e \in next
  <2>1. CASE e = Len(lines) + 1
    BY Zenon, <2>1
  <2>2. CASE e # Len(lines) + 1
    <3>1. e \in 1 .. Len(lines) /\ e > p
      BY <1>0, <2>2
    <3>2. QED
      BY Zenon, <1>1, <2>2, <3>1 DEF Encloses
  <2>3. QED
    BY Zenon, <2>1, <2>2
<1>5. ASSUME NEW k \in next
      PROVE  e <= k
  <2>1. CASE k = Len(lines) + 1
    BY <1>0, <2>1
  <2>2. CASE k # Len(lines) + 1
    <3>1. k \in markers /\ k > p
      BY Zenon, <1>1, <2>2
    <3>2. k \in Nat /\ lines[k].marker # "none"
      BY Zenon, <1>3, <3>1
    <3>3. ~(k \in p + 1 .. e - 1)
      BY Zenon, <3>2 DEF Encloses
    <3>4. QED
      BY <1>0, <3>1, <3>2, <3>3
  <2>3. QED
    BY Zenon, <2>1, <2>2
<1>6. \A i \in next : (\A k \in next : i <= k) => i = e
  <2> SUFFICES ASSUME NEW i \in next, \A k \in next : i <= k
               PROVE  i = e
    BY Zenon
  <2>1. i <= e /\ e <= i /\ i \in Nat /\ e \in Nat
    BY Zenon, <1>0, <1>3, <1>4, <1>5
  <2>2. QED
    BY <2>1
<1> HIDE DEF next
<1>7. bound = e
  BY Zenon, <1>4, <1>5, <1>6
<1>8. QED
  BY Zenon, <1>1, <1>2, <1>7

LEMMA MarkerFields ==
  /\ \A m : Marker(m).marker = m
  /\ Cancel # Queue /\ Queue # Accounting /\ Cancel # Accounting
  /\ Cancel # "none" /\ Queue # "none" /\ Accounting # "none"
<1>1. \A m : Marker(m).marker = m
  BY Zenon DEF Marker
<1>2. QED
  BY Zenon, <1>1 DEF Cancel, Queue, Accounting

(* What parseStatuses makes of the output of a script that ran to its end. *)
LEMMA SectionsOf ==
  ASSUME NEW n \in {0, 1}, NEW e \in Nat, output \in Seq(OutputRows),
         CancelPart(n), QueuePart(n, e), AccountingPart(e)
  PROVE  /\ Sections(output, Cancel) = SubSeq(output, 2, n + 1)
         /\ Sections(output, Accounting) = SubSeq(output, e + 2, Len(output))
         /\ \/ /\ Sections(output, Queue) = SubSeq(output, n + 3, e)
               /\ \A i \in n + 3 .. e : JobRow(output[i], nameOf, seen)
               /\ \A j \in Jobs : n + 3 <= e /\ Live(j) => \E i \in n + 3 .. e : output[i].id = j
            \/ Sections(output, Queue) = <<>>
<1> DEFINE L == Len(output)
           mark(i) == output[i].marker
           markers == {k \in DOMAIN output : output[k].marker # "none"}
<1>1. L \in Nat /\ DOMAIN output = 1 .. L
  BY Zenon, LenProperties
<1>2. e \in n + 2 .. L /\ e + 1 <= L
  BY Zenon DEF QueuePart, AccountingPart
<1>3. mark(1) = Cancel /\ mark(n + 2) = Queue /\ mark(e + 1) = Accounting
  BY Zenon, MarkerFields DEF CancelPart, QueuePart, AccountingPart
<1>4. \A i \in 2 .. n + 1 : mark(i) = "none"
  <2>1. n = 1 => mark(2) = "none"
    BY Zenon DEF CancelPart, Refusal
  <2>2. \A i \in 2 .. n + 1 : n = 1 /\ i = 2
    OBVIOUS
  <2>3. QED
    BY Zenon, <2>1, <2>2
<1>5. \A i \in e + 2 .. L : mark(i) = "none"
  BY Zenon DEF AccountingPart, JobRow
<1>6. \A i \in n + 3 .. e : mark(i) \in {"none", Queue}
  <2>1. CASE \A i \in n + 3 .. e : JobRow(output[i], nameOf, seen)
    BY Zenon, <2>1 DEF JobRow
  <2>2. CASE e = n + 3 /\ output[e] = Marker(Queue)
    <3>1. \A i \in n + 3 .. e : i = e
      BY <1>2, <2>2
    <3>2. QED
      BY Zenon, <2>2, <3>1, MarkerFields
  <2>3. QED
    BY Zenon, <2>1, <2>2 DEF QueuePart
<1>7. \A i \in 1 .. L : i = 1 \/ i \in 2 .. n + 1 \/ i = n + 2 \/ i \in n + 3 .. e \/ i = e + 1 \/ i \in e + 2 .. L
  BY <1>1, <1>2
<1>8. \A i \in 1 .. L : /\ mark(i) = Cancel => i = 1
                        /\ mark(i) = Accounting => i = e + 1
                        /\ mark(i) = Queue => i = n + 2 \/ i \in n + 3 .. e
  BY Zenon, <1>3, <1>4, <1>5, <1>6, <1>7, MarkerFields
<1>9. 1 \in 1 .. L /\ n + 2 \in 1 .. L /\ e + 1 \in 1 .. L
  BY <1>1, <1>2
<1>10. {1, n + 2, e + 1} \subseteq markers
  BY Zenon, <1>1, <1>3, <1>9, MarkerFields
<1>11. Sections(output, Cancel) = SubSeq(output, 2, n + 1)
  <2>1. 1 = MarkerLine(output, Cancel)
    BY Zenon, <1>1, <1>3, <1>8, <1>10 DEF MarkerLine
  <2>2. \A i \in 1 + 1 .. (n + 2) - 1 : output[i].marker = "none"
    BY <1>4
  <2>3. 1 \in Nat /\ n + 2 \in Nat /\ 1 + 1 <= n + 2 /\ n + 2 <= Len(output) + 1 /\ 1 + 1 = 2 /\ (n + 2) - 1 = n + 1
    BY <1>1, <1>2
  <2>4. output[n + 2].marker # "none"
    BY Zenon, <1>3, MarkerFields
  <2>5. Sections(output, Cancel) = SubSeq(output, 1 + 1, (n + 2) - 1)
    <3>1. Encloses(output, 1, n + 2)
      BY Zenon, <2>2, <2>3, <2>4 DEF Encloses
    <3>2. QED
      BY Zenon, <1>1, <2>1, <3>1, SectionAt
  <2>6. QED
    BY Zenon, <2>3, <2>5
<1>12. Sections(output, Accounting) = SubSeq(output, e + 2, Len(output))
  <2>1. e + 1 = MarkerLine(output, Accounting)
    BY Zenon, <1>1, <1>3, <1>8, <1>10 DEF MarkerLine
  <2>2. \A i \in (e + 1) + 1 .. (L + 1) - 1 : output[i].marker = "none"
    BY <1>1, <1>5
  <2>3. e + 1 \in Nat /\ L + 1 \in Nat /\ (e + 1) + 1 <= L + 1 /\ L + 1 <= L + 1 /\ (e + 1) + 1 = e + 2 /\ (L + 1) - 1 = L
    BY <1>1, <1>2
  <2>4. Sections(output, Accounting) = SubSeq(output, (e + 1) + 1, (L + 1) - 1)
    <3>1. Encloses(output, e + 1, L + 1)
      BY Zenon, <2>2, <2>3 DEF Encloses
    <3>2. QED
      BY Zenon, <1>1, <2>1, <3>1, SectionAt
  <2>5. QED
    BY Zenon, <2>3, <2>4
<1>13. CASE \A i \in n + 3 .. e : JobRow(output[i], nameOf, seen)
  <2>1. n + 2 = MarkerLine(output, Queue)
    <3>1. \A i \in n + 3 .. e : mark(i) = "none"
      BY Zenon, <1>13 DEF JobRow
    <3>2. QED
      BY Zenon, <1>1, <1>3, <1>8, <1>10, <3>1, MarkerFields DEF MarkerLine
  <2>2. \A i \in (n + 2) + 1 .. (e + 1) - 1 : output[i].marker = "none"
    <3>1. (n + 2) + 1 = n + 3 /\ (e + 1) - 1 = e
      OBVIOUS
    <3>2. QED
      BY Zenon, <1>13, <3>1 DEF JobRow
  <2>3. n + 2 \in Nat /\ e + 1 \in Nat /\ (n + 2) + 1 <= e + 1 /\ e + 1 <= Len(output) + 1 /\ (n + 2) + 1 = n + 3 /\ (e + 1) - 1 = e
    BY <1>1, <1>2
  <2>4. output[e + 1].marker # "none"
    BY Zenon, <1>3, MarkerFields
  <2>5. Sections(output, Queue) = SubSeq(output, (n + 2) + 1, (e + 1) - 1)
    <3>1. Encloses(output, n + 2, e + 1)
      BY Zenon, <2>2, <2>3, <2>4 DEF Encloses
    <3>2. QED
      BY Zenon, <1>1, <2>1, <3>1, SectionAt
  <2>6. Sections(output, Queue) = SubSeq(output, n + 3, e)
    BY Zenon, <2>3, <2>5
  <2>7. \/ \A j \in Jobs : n + 3 <= e /\ Live(j) => \E i \in n + 3 .. e : output[i].id = j
        \/ e = n + 3 /\ output[e] = Marker(Queue)
    BY Zenon DEF QueuePart
  <2>8. ~(e = n + 3 /\ output[e] = Marker(Queue))
    <3>1. e = n + 3 => e \in n + 3 .. e
      OBVIOUS
    <3>2. QED
      BY Zenon, <1>13, <3>1, MarkerFields DEF JobRow
  <2>9. QED
    BY Zenon, <1>11, <1>12, <1>13, <2>6, <2>7, <2>8
<1>14. CASE e = n + 3 /\ output[e] = Marker(Queue)
  <2>0. PICK p : p = MarkerLine(output, Queue)
    BY Zenon
  <2>1. p \in markers /\ output[p].marker = Queue
    BY Zenon, <1>3, <1>10, <2>0 DEF MarkerLine
  <2>2. p \in 1 .. L /\ (p = n + 2 \/ p \in n + 3 .. e)
    BY Zenon, <1>1, <1>8, <2>1
  <2>3. p \in Nat /\ (p = n + 2 \/ p = n + 3)
    BY <1>14, <2>2
  <2>4. output[p + 1].marker # "none"
    <3>1. CASE p = n + 2
      <4>1. p + 1 = e
        BY <1>14, <3>1
      <4>2. QED
        BY Zenon, <1>14, <4>1, MarkerFields
    <3>2. CASE p = n + 3
      BY Zenon, <1>3, <1>14, <3>2, MarkerFields
    <3>3. QED
      BY Zenon, <2>3, <3>1, <3>2
  <2>5. p + 1 \in Nat /\ p + 1 <= p + 1 /\ p + 1 <= Len(output) + 1 /\ (\A i \in p + 1 .. (p + 1) - 1 : FALSE)
    BY <1>1, <2>2, <2>3
  <2>6. Sections(output, Queue) = SubSeq(output, p + 1, (p + 1) - 1)
    <3>1. Encloses(output, p, p + 1)
      BY Zenon, <2>3, <2>4, <2>5 DEF Encloses
    <3>2. QED
      BY Zenon, <1>1, <2>0, <3>1, SectionAt
  <2>7. SubSeq(output, p + 1, (p + 1) - 1) = <<>>
    BY <2>3, <2>5
  <2>8. QED
    BY Zenon, <1>11, <1>12, <2>6, <2>7
<1>15. QED
  BY Zenon, <1>13, <1>14 DEF QueuePart

----------------------------------------------------------------------------
(* What is reported.                                                       *)

LEMMA LastRowIn ==
  ASSUME NEW rows, NEW N \in Nat, NEW S, S \subseteq 1 .. N, S # {}
  PROVE  \E i \in S : LastRow(rows, S) = rows[i]
<1>1. \E i \in S : \A k \in S : k <= i
  BY Zenon, GreatestNat
<1>2. QED
  BY Zenon, <1>1 DEF LastRow

LEMMA NoStatusFields ==
  /\ NoStatus \in StatusState
  /\ NoStatus.round = FALSE /\ NoStatus.found = FALSE /\ NoStatus.id = ByName
  BY DEF NoStatus, StatusState

LEMMA JobRowFields ==
  ASSUME Shapes, NEW row, JobRow(row, nameOf, seen)
  PROVE  /\ row.id \in Jobs
         /\ row.state \in {"PENDING", "RUNNING", "COMPLETED", "TIMEOUT", "CANCELLED"}
         /\ row.state \in seen[row.id]
         /\ row.elapsed \in {0, 1}
         /\ row.elapsed # 0 => row.state # "PENDING"
<1>1. row.id \in Jobs /\ row.state \in seen[row.id] /\ row.state # "NONE" /\ row.elapsed \in {0, elapsed(row.state)}
  BY Zenon DEF JobRow
<1>2. seen[row.id] \subseteq RawStates
  BY Zenon, <1>1 DEF Shapes
<1>3. elapsed(row.state) = IF row.state \in {"NONE", "PENDING"} THEN 0 ELSE 1
  BY Zenon DEF elapsed
<1>4. row.state \in {"PENDING", "RUNNING", "COMPLETED", "TIMEOUT", "CANCELLED"}
  BY Zenon, <1>1, <1>2 DEF RawStates
<1>5. QED
  BY Zenon, <1>1, <1>3, <1>4

(* An observation is a row of the target, with the elapsed time of a row   *)
(* of the same job; and every listed job of the target is observed.        *)
Observed(o, acct, queue, t) ==
    /\ o = NoStatus \/
         \E row, other : /\ JobRow(row, nameOf, seen) /\ KeyOf(row, t) /\ JobRow(other, nameOf, seen) /\ other.id = row.id
                         /\ o = [NoStatus EXCEPT !.found = TRUE, !.id = row.id, !.state = normalizeState(row.state),
                                                 !.elapsed = other.elapsed]
    /\ (\E i \in DOMAIN queue : KeyOf(queue[i], t)) => o # NoStatus
    /\ (\E i \in DOMAIN acct : KeyOf(acct[i], t)) => o # NoStatus

LEMMA ObservationOf ==
  ASSUME Shapes, NEW acct, NEW queue, NEW t, NEW A \in Nat, NEW Q \in Nat, DOMAIN acct = 1 .. A, DOMAIN queue = 1 .. Q,
         \A i \in 1 .. A : JobRow(acct[i], nameOf, seen), \A i \in 1 .. Q : JobRow(queue[i], nameOf, seen),
         NEW o, o = Observation(acct, queue, t)
  PROVE  Observed(o, acct, queue, t)
<1> DEFINE taken == {i \in DOMAIN acct : \A k \in 1 .. i - 1 : acct[k].id # acct[i].id}
           a == {i \in taken : KeyOf(acct[i], t)}
           q == {i \in DOMAIN queue : KeyOf(queue[i], t)}
           row == IF q # {} THEN LastRow(queue, q) ELSE LastRow(acct, a)
           earlier == {i \in taken : acct[i].id = row.id}
           time == IF row.elapsed = 0 /\ earlier # {} THEN LastRow(acct, earlier).elapsed ELSE row.elapsed
           report == [NoStatus EXCEPT !.found = TRUE, !.id = row.id, !.state = normalizeState(row.state), !.elapsed = time]
<1>1. o = IF q \cup a = {} THEN NoStatus ELSE report
  BY Zenon DEF Observation
<1>2. taken \subseteq 1 .. A /\ a \subseteq 1 .. A /\ q \subseteq 1 .. Q /\ earlier \subseteq 1 .. A
  BY Zenon
<1>3. ASSUME q \cup a # {}
      PROVE  /\ JobRow(row, nameOf, seen) /\ KeyOf(row, t)
             /\ \E other : JobRow(other, nameOf, seen) /\ other.id = row.id /\ time = other.elapsed
  <2>1. JobRow(row, nameOf, seen) /\ KeyOf(row, t)
    <3>1. CASE q # {}
      <4>1. PICK i \in q : LastRow(queue, q) = queue[i]
        BY Zenon, <1>2, <3>1, LastRowIn
      <4>2. QED
        BY Zenon, <1>2, <3>1, <4>1
    <3>2. CASE q = {}
      <4>1. a # {}
        BY Zenon, <1>3, <3>2
      <4>2. PICK i \in a : LastRow(acct, a) = acct[i]
        BY Zenon, <1>2, <4>1, LastRowIn
      <4>3. QED
        BY Zenon, <1>2, <3>2, <4>2
    <3>3. QED
      BY Zenon, <3>1, <3>2
  <2> HIDE DEF row, taken
  <2>2. CASE row.elapsed = 0 /\ earlier # {}
    <3>1. PICK i \in earlier : LastRow(acct, earlier) = acct[i]
      BY Zenon, <1>2, <2>2, LastRowIn
    <3>2. JobRow(acct[i], nameOf, seen) /\ acct[i].id = row.id
      BY Zenon, <1>2, <3>1
    <3>3. QED
      BY Zenon, <2>1, <2>2, <3>1, <3>2
  <2>3. CASE ~(row.elapsed = 0 /\ earlier # {})
    BY Zenon, <2>1, <2>3
  <2>4. QED
    BY Zenon, <2>1, <2>2, <2>3
<1>4. report # NoStatus
  BY DEF NoStatus
<1>5. ASSUME NEW i \in 1 .. A, KeyOf(acct[i], t)
      PROVE  a # {}
  <2> DEFINE same == {k \in 1 .. A : acct[k].id = acct[i].id}
  <2>1. same # {} /\ same \subseteq Nat
    <3>1. 1 .. A \subseteq Nat
      OBVIOUS
    <3>2. QED
      BY Zenon, <3>1
  <2>2. PICK k \in same : \A l \in same : k <= l
    BY Zenon, <2>1, LeastIndex
  <2>3. k \in 1 .. A /\ acct[k].id = acct[i].id
    BY Zenon, <2>2
  <2>4. \A l \in 1 .. k - 1 : l \in 1 .. A /\ ~(k <= l)
    BY <2>3
  <2>5. k \in taken
    BY Zenon, <2>2, <2>3, <2>4
  <2>6. acct[k].name = acct[i].name
    BY Zenon, <2>3 DEF JobRow
  <2>7. KeyOf(acct[k], t)
    BY Zenon, <1>5, <2>3, <2>6 DEF KeyOf
  <2>8. QED
    BY Zenon, <2>5, <2>7
<1>6. ASSUME NEW i \in 1 .. Q, KeyOf(queue[i], t)
      PROVE  q # {}
  BY Zenon, <1>6
<1> HIDE DEF a, q, report
<1>7. (\E i \in 1 .. Q : KeyOf(queue[i], t)) => o # NoStatus
  BY Zenon, <1>1, <1>4, <1>6
<1>8. (\E i \in 1 .. A : KeyOf(acct[i], t)) => o # NoStatus
  BY Zenon, <1>1, <1>4, <1>5
<1>9. CASE q \cup a # {}
  <2>1. PICK other : JobRow(other, nameOf, seen) /\ other.id = row.id /\ time = other.elapsed
    BY Zenon, <1>3, <1>9
  <2>2. o = [NoStatus EXCEPT !.found = TRUE, !.id = row.id, !.state = normalizeState(row.state), !.elapsed = other.elapsed]
    BY Zenon, <1>1, <1>9, <2>1 DEF report
  <2>3. JobRow(row, nameOf, seen) /\ KeyOf(row, t)
    BY Zenon, <1>3, <1>9
  <2>4. QED
    BY Zenon, <1>7, <1>8, <2>1, <2>2, <2>3 DEF Observed
<1>10. CASE q \cup a = {}
  BY Zenon, <1>1, <1>7, <1>8, <1>10 DEF Observed
<1>11. QED
  BY Zenon, <1>9, <1>10

(* The rows of a section are the lines lo to hi.                           *)
Slice(rows, lines, lo, hi) ==
    /\ \E N \in Nat : /\ DOMAIN rows = 1 .. N
                      /\ \A i \in 1 .. N : \E k \in lo .. hi : rows[i] = lines[k]
                      /\ \A k \in lo .. hi : \E i \in 1 .. N : rows[i] = lines[k]
    /\ lo > hi => rows = <<>>

LEMMA SubRows ==
  ASSUME NEW S, NEW lines \in Seq(S), NEW lo \in Nat, NEW hi \in Nat, 1 <= lo, lo <= hi + 1, hi <= Len(lines)
  PROVE  Slice(SubSeq(lines, lo, hi), lines, lo, hi)
<1> DEFINE N == (hi - lo) + 1
           rows == SubSeq(lines, lo, hi)
<1>1. N \in Nat /\ DOMAIN rows = 1 .. N
  BY SMTT(20)
<1>2. \A i \in 1 .. N : rows[i] = lines[(lo + i) - 1] /\ (lo + i) - 1 \in lo .. hi
  BY SMTT(20)
<1>3. \A k \in lo .. hi : (k - lo) + 1 \in 1 .. N /\ (lo + ((k - lo) + 1)) - 1 = k
  OBVIOUS
<1>4. lo > hi => rows = <<>>
  BY SMTT(20)
<1> HIDE DEF N, rows
<1>5. \A k \in lo .. hi : \E i \in 1 .. N : rows[i] = lines[k]
  BY Zenon, <1>2, <1>3
<1>6. Slice(rows, lines, lo, hi)
  BY Zenon, <1>1, <1>2, <1>4, <1>5 DEF Slice
<1>7. QED
  BY Zenon, <1>6 DEF rows

(* What the state of a reported row means.                                 *)
Held(id, state) ==
    CASE state = "Pending" -> "PENDING" \in seen[id]
      [] state = "Active" -> "RUNNING" \in seen[id]
      [] state = "Stopped" -> {"COMPLETED", "CANCELLED"} \cap seen[id] # {}
      [] state = "Expired" -> "TIMEOUT" \in seen[id]
      [] OTHER -> FALSE

LEMMA NormalizedHeld ==
  ASSUME NEW id, NEW raw \in {"PENDING", "RUNNING", "COMPLETED", "TIMEOUT", "CANCELLED"}, raw \in seen[id]
  PROVE  /\ Held(id, normalizeState(raw))
         /\ normalizeState(raw) \in {"Pending", "Active", "Stopped", "Expired", "Failed", "Unknown"}
<1>1. CASE raw = "PENDING"
  <2>1. normalizeState(raw) = "Pending"
    BY <1>1 DEF normalizeState, PendingStates, ActiveStates, StoppedStates, FailedStates
  <2>2. QED
    BY <1>1, <2>1 DEF Held
<1>2. CASE raw = "RUNNING"
  <2>1. normalizeState(raw) = "Active"
    BY <1>2 DEF normalizeState, PendingStates, ActiveStates, StoppedStates, FailedStates
  <2>2. QED
    BY <1>2, <2>1 DEF Held
<1>3. CASE raw \in {"COMPLETED", "CANCELLED"}
  <2>1. normalizeState(raw) = "Stopped"
    BY <1>3 DEF normalizeState, PendingStates, ActiveStates, StoppedStates, FailedStates
  <2>2. QED
    BY <1>3, <2>1 DEF Held
<1>4. CASE raw = "TIMEOUT"
  <2>1. normalizeState(raw) = "Expired"
    BY <1>4 DEF normalizeState, PendingStates, ActiveStates, StoppedStates, FailedStates
  <2>2. QED
    BY <1>4, <2>1 DEF Held
<1>5. QED
  BY Zenon, <1>1, <1>2, <1>3, <1>4

(* scancel said why it failed, and accounting printed nothing of a job.    *)
Spoken == \A i \in DOMAIN Sections(output, Cancel) : Sections(output, Cancel)[i].state # "none"

Unheard(j) == \A i \in DOMAIN Sections(output, Accounting) : Sections(output, Accounting)[i].id # j

LEMMA Reported ==
  ASSUME Shapes, ClusterInv, NEW n \in {0, 1}, NEW e \in Nat, CancelPart(n), QueuePart(n, e), AccountingPart(e),
         NEW r, r = parseStatuses(output, target)
  PROVE  /\ r \in StatusState /\ r.round
         /\ target.cancel /\ n = 1 /\ Spoken => r.cancelError
         /\ r.found => /\ Targeted(r.id)
                       /\ Held(r.id, r.state)
                       /\ r.elapsed > 0 => seen[r.id] \cap {"RUNNING", "COMPLETED", "TIMEOUT", "CANCELLED"} # {}
         /\ \A j \in Jobs : Targeted(j) /\ Live(j) =>
                r.found \/ (Sections(output, Queue) = <<>> /\ Unheard(j))
<1> DEFINE acct == Sections(output, Accounting)
           queue == Sections(output, Queue)
           refusals == Sections(output, Cancel)
           L == Len(output)
<1>1. output \in Seq(OutputRows) /\ L \in Nat /\ target \in TargetState
  BY Zenon, LenProperties DEF Shapes
<1>2. n + 2 <= e /\ e + 1 <= L /\ n + 1 <= L
  BY <1>1 DEF QueuePart, AccountingPart
<1>3. /\ refusals = SubSeq(output, 2, n + 1)
      /\ acct = SubSeq(output, e + 2, L)
      /\ \/ /\ queue = SubSeq(output, n + 3, e)
            /\ \A i \in n + 3 .. e : JobRow(output[i], nameOf, seen)
            /\ \A j \in Jobs : n + 3 <= e /\ Live(j) => \E i \in n + 3 .. e : output[i].id = j
         \/ queue = <<>>
  BY Zenon, <1>1, SectionsOf
<1>4. PICK o, error : /\ o = Observation(acct, queue, target)
                      /\ error = (target.cancel /\ \E i \in DOMAIN refusals :
                                                  RefusalOf(refusals[i], target) /\ refusals[i].state # "none")
                      /\ r = [o EXCEPT !.round = TRUE, !.cancelError = error]
  BY Zenon DEF parseStatuses
<1> HIDE DEF acct, queue, refusals
<1>5. PICK A \in Nat : /\ DOMAIN acct = 1 .. A
                       /\ \A i \in 1 .. A : JobRow(acct[i], nameOf, seen)
  <2>1. PICK lo \in Nat : lo = e + 2 /\ 1 <= lo /\ lo <= L + 1 /\ L <= L
    BY <1>1, <1>2
  <2>2. Slice(acct, output, lo, L)
    <3>1. Slice(SubSeq(output, lo, L), output, lo, L)
      BY Zenon, <1>1, <2>1, SubRows
    <3>2. QED
      BY Zenon, <1>3, <2>1, <3>1
  <2>3. \A i \in lo .. L : JobRow(output[i], nameOf, seen)
    BY Zenon, <2>1 DEF AccountingPart
  <2>4. QED
    BY Zenon, <2>1, <2>2, <2>3 DEF Slice
<1>6. PICK Q \in Nat : /\ DOMAIN queue = 1 .. Q
                       /\ \A i \in 1 .. Q : JobRow(queue[i], nameOf, seen)
                       /\ queue = <<>> \/ \A j \in Jobs : Live(j) => \E i \in 1 .. Q : queue[i].id = j
  <2>1. CASE queue = <<>>
    <3>1. DOMAIN queue = 1 .. 0 /\ 0 \in Nat /\ ~(\E i \in 1 .. 0 : TRUE)
      BY <2>1
    <3>2. QED
      BY Zenon, <2>1, <3>1
  <2>2. CASE /\ queue = SubSeq(output, n + 3, e)
             /\ \A i \in n + 3 .. e : JobRow(output[i], nameOf, seen)
             /\ \A j \in Jobs : n + 3 <= e /\ Live(j) => \E i \in n + 3 .. e : output[i].id = j
    <3>1. PICK lo \in Nat : lo = n + 3 /\ 1 <= lo /\ lo <= e + 1 /\ e <= L /\ (lo <= e \/ lo > e)
      BY <1>1, <1>2
    <3>2. Slice(queue, output, lo, e)
      <4>1. Slice(SubSeq(output, lo, e), output, lo, e)
        BY Zenon, <1>1, <3>1, SubRows
      <4>2. QED
        BY Zenon, <2>2, <3>1, <4>1
    <3>3. PICK N \in Nat : /\ DOMAIN queue = 1 .. N
                           /\ \A i \in 1 .. N : \E k \in lo .. e : queue[i] = output[k]
                           /\ \A k \in lo .. e : \E i \in 1 .. N : queue[i] = output[k]
      BY Zenon, <3>2 DEF Slice
    <3>4. \A i \in 1 .. N : JobRow(queue[i], nameOf, seen)
      BY Zenon, <2>2, <3>1, <3>3
    <3>5. lo <= e => \A j \in Jobs : Live(j) => \E i \in 1 .. N : queue[i].id = j
      <4>1. lo <= e => \A j \in Jobs : Live(j) => \E i \in lo .. e : output[i].id = j
        BY Zenon, <2>2, <3>1
      <4>2. ASSUME NEW j \in Jobs, NEW k \in lo .. e, output[k].id = j
            PROVE  \E i \in 1 .. N : queue[i].id = j
        <5>1. PICK i \in 1 .. N : queue[i] = output[k]
          BY Zenon, <3>3
        <5>2. QED
          BY Zenon, <4>2, <5>1
      <4>3. QED
        BY Zenon, <4>1, <4>2
    <3>6. QED
      BY Zenon, <3>1, <3>2, <3>3, <3>4, <3>5 DEF Slice
  <2>3. QED
    BY Zenon, <1>3, <2>1, <2>2
<1>7. /\ o = NoStatus \/
            \E row, other : /\ JobRow(row, nameOf, seen) /\ KeyOf(row, target) /\ JobRow(other, nameOf, seen) /\ other.id = row.id
                            /\ o = [NoStatus EXCEPT !.found = TRUE, !.id = row.id, !.state = normalizeState(row.state),
                                                    !.elapsed = other.elapsed]
      /\ (\E i \in 1 .. Q : KeyOf(queue[i], target)) => o # NoStatus
      /\ (\E i \in 1 .. A : KeyOf(acct[i], target)) => o # NoStatus
  <2>1. Observed(o, acct, queue, target)
    BY Zenon, <1>4, <1>5, <1>6, ObservationOf
  <2>2. QED
    BY Zenon, <1>5, <1>6, <2>1 DEF Observed
<1>8. /\ o \in StatusState
      /\ o.found => /\ Targeted(o.id)
                    /\ Held(o.id, o.state)
                    /\ o.elapsed > 0 => seen[o.id] \cap {"RUNNING", "COMPLETED", "TIMEOUT", "CANCELLED"} # {}
      /\ o # NoStatus => o.found
  <2>1. CASE o = NoStatus
    BY Zenon, <2>1, NoStatusFields
  <2>2. CASE o # NoStatus
    <3>1. PICK row, other : /\ JobRow(row, nameOf, seen) /\ KeyOf(row, target) /\ JobRow(other, nameOf, seen) /\ other.id = row.id
                            /\ o = [NoStatus EXCEPT !.found = TRUE, !.id = row.id, !.state = normalizeState(row.state),
                                                    !.elapsed = other.elapsed]
      BY Zenon, <1>7, <2>2
    <3>2. /\ row.id \in Jobs
          /\ row.state \in {"PENDING", "RUNNING", "COMPLETED", "TIMEOUT", "CANCELLED"}
          /\ row.state \in seen[row.id]
      BY Zenon, <3>1, JobRowFields
    <3>3. /\ other.elapsed \in {0, 1}
          /\ other.state \in {"PENDING", "RUNNING", "COMPLETED", "TIMEOUT", "CANCELLED"}
          /\ other.state \in seen[row.id]
          /\ other.elapsed # 0 => other.state # "PENDING"
      BY Zenon, <3>1, JobRowFields
    <3>4. /\ Held(row.id, normalizeState(row.state))
          /\ normalizeState(row.state) \in {"Pending", "Active", "Stopped", "Expired", "Failed", "Unknown"}
      BY Zenon, <3>2, NormalizedHeld
    <3>5. o \in StatusState /\ o.found /\ o.id = row.id /\ o.state = normalizeState(row.state) /\ o.elapsed = other.elapsed
      <4>1. PICK id, state, time : id = row.id /\ state = normalizeState(row.state) /\ time = other.elapsed
        BY Zenon
      <4>2. o = [NoStatus EXCEPT !.found = TRUE, !.id = id, !.state = state, !.elapsed = time]
        BY Zenon, <3>1, <4>1
      <4>3. id \in Jobs /\ time \in {0, 1} /\ state \in {"Pending", "Active", "Stopped", "Expired", "Failed", "Unknown"}
        BY Zenon, <3>2, <3>3, <3>4, <4>1
      <4>4. o \in StatusState /\ o.found /\ o.id = id /\ o.state = state /\ o.elapsed = time
        BY <4>2, <4>3 DEF NoStatus, StatusState
      <4>5. QED
        BY Zenon, <4>1, <4>4
    <3>6. Targeted(row.id)
      BY Zenon, <3>1 DEF Targeted, KeyOf, JobRow
    <3>7. o.elapsed > 0 => other.elapsed # 0
      BY <3>3, <3>5
    <3>8. QED
      BY Zenon, <3>2, <3>3, <3>4, <3>5, <3>6, <3>7
  <2>3. QED
    BY Zenon, <2>1, <2>2
<1>9. error \in BOOLEAN
  BY Zenon, <1>1, <1>4 DEF TargetState
<1>10. target.cancel /\ n = 1 /\ Spoken => error
  <2> SUFFICES ASSUME target.cancel, n = 1, \A i \in DOMAIN refusals : refusals[i].state # "none"
               PROVE  \E i \in DOMAIN refusals : RefusalOf(refusals[i], target) /\ refusals[i].state # "none"
    BY Zenon, <1>4 DEF Spoken, refusals
  <2>1. refusals = SubSeq(output, 2, 2) /\ 2 <= L
    BY <1>1, <1>2, <1>3
  <2>2. 1 \in DOMAIN refusals /\ refusals[1] = output[2]
    BY <1>1, <2>1
  <2>3. RefusalOf(output[2], target)
    BY Zenon DEF CancelPart, Refusal, RefusalOf, KeyOf
  <2>4. QED
    BY Zenon, <2>2, <2>3
<1>11. /\ r \in StatusState /\ r.round /\ r.cancelError = error
       /\ r.found = o.found /\ r.id = o.id /\ r.state = o.state /\ r.elapsed = o.elapsed
  <2>1. o \in StatusState /\ error \in BOOLEAN /\ r = [o EXCEPT !.round = TRUE, !.cancelError = error]
    BY Zenon, <1>4, <1>8, <1>9
  <2>2. QED
    BY <2>1 DEF StatusState
<1>12. ASSUME NEW j \in Jobs, Targeted(j), Live(j), ~o.found
       PROVE  queue = <<>> /\ \A i \in DOMAIN acct : acct[i].id # j
  <2>1. \A row : JobRow(row, nameOf, seen) /\ row.id = j => KeyOf(row, target)
    BY Zenon, <1>12 DEF Targeted, KeyOf, JobRow
  <2>2. o = NoStatus
    BY Zenon, <1>8, <1>12
  <2>3. ~(\E i \in 1 .. Q : queue[i].id = j) /\ ~(\E i \in 1 .. A : acct[i].id = j)
    BY Zenon, <1>5, <1>6, <1>7, <2>1, <2>2
  <2>4. queue = <<>>
    BY Zenon, <1>6, <1>12, <2>3
  <2>5. QED
    BY Zenon, <1>5, <2>3, <2>4
<1>13. \A j \in Jobs : Targeted(j) /\ Live(j) => r.found \/ (queue = <<>> /\ Unheard(j))
  BY Zenon, <1>11, <1>12 DEF Unheard, acct
<1>14. QED
  BY Zenon, <1>8, <1>10, <1>11, <1>13 DEF queue

----------------------------------------------------------------------------
(* The steps of the cluster and of a submission.                           *)

LEMMA SlurmStart == SlurmInit => SlurmInv
<1> SUFFICES ASSUME SlurmInit
             PROVE  SlurmInv
  BY Zenon
<1>1. target \in TargetState /\ target.id = ByName
  BY DEF SlurmInit, NoTarget, TargetState
<1>2. output \in Seq(OutputRows)
  BY DEF SlurmInit
<1>3. Shapes
  BY Zenon, <1>1, <1>2, NoStatusFields DEF SlurmInit, Shapes, RawStates
<1>4. ClusterInv /\ DefiniteRefusal
  BY Zenon, <1>1, SlurmAssumption DEF SlurmInit, ClusterInv, DefiniteRefusal
<1>5. RoundInv
  BY Zenon DEF SlurmInit, RoundInv
<1>6. QED
  BY Zenon, <1>3, <1>4, <1>5 DEF SlurmInv

(* What a round has printed stays true while the cluster moves on: the     *)
(* history of the round only grows.                                        *)
LEMMA RoundKept ==
  ASSUME Shapes, RoundInv, UNCHANGED <<nameOf, target, output, roundAt, status>>,
         \A j \in Jobs : seen[j] \subseteq seen'[j]
  PROVE  RoundInv'
<1>1. \A row : JobRow(row, nameOf, seen) => JobRow(row, nameOf', seen')
  BY Zenon DEF JobRow
<1>2. \A j \in Jobs : (Live(j))' => Live(j)
  BY Zenon DEF Live
<1>3. \A j \in Jobs : (Targeted(j))' <=> Targeted(j)
  BY Zenon DEF Targeted
<1>5. \A n \in {0, 1} : CancelPart(n) => (CancelPart(n))'
  <2> SUFFICES ASSUME NEW n \in {0, 1}, CancelPart(n)
               PROVE  (CancelPart(n))'
    BY Zenon
  <2>1. n + 1 <= Len(output') /\ output'[1] = Marker(Cancel) /\ (n = 1 => (Refusal(output[2]))')
    BY Zenon DEF CancelPart, Refusal
  <2>2. ASSUME target'.cancel, n = 0, NEW j \in Jobs, (Targeted(j))', "NONE" \notin seen'[j]
        PROVE  seen'[j] \cap {"CANCELLED", "COMPLETED", "TIMEOUT"} # {}
    <3>1. seen[j] \cap {"CANCELLED", "COMPLETED", "TIMEOUT"} # {}
      BY Zenon, <1>3, <2>2 DEF CancelPart
    <3>2. QED
      BY Zenon, <3>1
  <2>3. QED
    BY Zenon, <2>1, <2>2 DEF CancelPart
<1>6. \A n \in {0, 1}, e \in Nat : QueuePart(n, e) => (QueuePart(n, e))'
  <2> SUFFICES ASSUME NEW n \in {0, 1}, NEW e \in Nat, QueuePart(n, e)
               PROVE  (QueuePart(n, e))'
    BY Zenon
  <2>1. e \in n + 2 .. Len(output') /\ output'[n + 2] = Marker(Queue)
    BY Zenon DEF QueuePart
  <2>2. CASE /\ \A i \in n + 3 .. e : JobRow(output[i], nameOf, seen)
             /\ \A j \in Jobs : n + 3 <= e /\ Live(j) => \E i \in n + 3 .. e : output[i].id = j
    <3>1. \A i \in n + 3 .. e : JobRow(output'[i], nameOf', seen')
      BY Zenon, <1>1, <2>2
    <3>2. \A j \in Jobs : n + 3 <= e /\ (Live(j))' => \E i \in n + 3 .. e : output'[i].id = j
      BY Zenon, <1>2, <2>2
    <3>3. QED
      BY Zenon, <2>1, <3>1, <3>2 DEF QueuePart
  <2>3. CASE e = n + 3 /\ output[e] = Marker(Queue)
    BY Zenon, <2>1, <2>3 DEF QueuePart
  <2>4. QED
    BY Zenon, <2>2, <2>3 DEF QueuePart
<1>7. \A e \in Nat : AccountingPart(e) => (AccountingPart(e))'
  <2> SUFFICES ASSUME NEW e \in Nat, AccountingPart(e)
               PROVE  (AccountingPart(e))'
    BY Zenon
  <2>1. e + 1 <= Len(output') /\ output'[e + 1] = Marker(Accounting)
    BY Zenon DEF AccountingPart
  <2>2. \A i \in e + 2 .. Len(output') : JobRow(output'[i], nameOf', seen')
    BY Zenon, <1>1 DEF AccountingPart
  <2>3. QED
    BY Zenon, <2>1, <2>2 DEF AccountingPart
<1>8. roundAt' = "squeue" => \E n \in {0, 1} : (CancelPart(n))' /\ Len(output') = n + 1
  BY Zenon, <1>5 DEF RoundInv
<1>9. roundAt' = "sacct" => \E n \in {0, 1}, e \in Nat : (CancelPart(n))' /\ (QueuePart(n, e))' /\ e = Len(output')
  BY Zenon, <1>5, <1>6 DEF RoundInv
<1>10. roundAt' \in {"parse", "reported"} =>
         \E n \in {0, 1}, e \in Nat : (CancelPart(n))' /\ (QueuePart(n, e))' /\ (AccountingPart(e))'
  BY Zenon, <1>5, <1>6, <1>7 DEF RoundInv
<1>11. /\ roundAt' = "scancel" => output' = <<Marker(Cancel)>>
       /\ roundAt' = "reported" => status' \in {NoStatus, parseStatuses(output', target')}
  BY Zenon DEF RoundInv
<1>12. QED
  BY Zenon, <1>8, <1>9, <1>10, <1>11 DEF RoundInv

LEMMA ClusterStep ==
  ASSUME SlurmInv, NEW j \in Jobs, NEW raw \in RawStates \ {"NONE"},
         cluster' = [cluster EXCEPT ![j] = raw], Witnessed(j, raw), queued' = queued \/ queued' = queued \cup {j},
         raw \in {"PENDING", "RUNNING"} => j \in queued', submission[j] = "refused" => j \in misled,
         UNCHANGED <<nameOf, submission, misled, roundAt, target, output, status>>
  PROVE  SlurmInv'
<1>1. Shapes /\ ClusterInv /\ DefiniteRefusal /\ RoundInv
  BY Zenon DEF SlurmInv
<1>2. cluster \in [Jobs -> RawStates] /\ seen \in [Jobs -> SUBSET RawStates]
  BY Zenon, <1>1 DEF Shapes
<1>3. cluster' \in [Jobs -> RawStates] /\ cluster'[j] = raw /\ (\A k \in Jobs \ {j} : cluster'[k] = cluster[k])
  BY Zenon, <1>2
<1>4. /\ seen' \in [Jobs -> SUBSET RawStates]
      /\ \A k \in Jobs : seen[k] \subseteq seen'[k]
      /\ roundAt # "idle" => raw \in seen'[j]
  <2>1. CASE roundAt = "idle"
    BY Zenon, <1>2, <2>1 DEF Witnessed
  <2>2. CASE roundAt # "idle"
    <3>1. seen' = [seen EXCEPT ![j] = seen[j] \cup {raw}]
      BY Zenon, <2>2 DEF Witnessed
    <3>2. seen'[j] = seen[j] \cup {raw} /\ (\A k \in Jobs \ {j} : seen'[k] = seen[k])
      BY Zenon, <1>2, <3>1
    <3>3. seen[j] \cup {raw} \in SUBSET RawStates
      BY Zenon, <1>2
    <3>4. seen' \in [Jobs -> SUBSET RawStates]
      BY Zenon, <1>2, <3>1, <3>3
    <3>5. QED
      BY Zenon, <3>2, <3>4
  <2>3. QED
    BY Zenon, <2>1, <2>2
<1>5. queued' \subseteq {k \in Jobs : cluster'[k] # "NONE"}
  BY Zenon, <1>1, <1>3 DEF Shapes
<1>6. Shapes'
  BY Zenon, <1>1, <1>3, <1>4, <1>5 DEF Shapes
<1>7. \A k \in Jobs : cluster'[k] \in {"PENDING", "RUNNING"} => k \in queued'
  BY Zenon, <1>1, <1>3 DEF ClusterInv
<1>8. \A k \in Jobs : roundAt' # "idle" => cluster'[k] \in seen'[k]
  BY Zenon, <1>1, <1>3, <1>4 DEF ClusterInv
<1>9. ClusterInv'
  BY Zenon, <1>1, <1>7, <1>8 DEF ClusterInv
<1>10. DefiniteRefusal'
  BY Zenon, <1>1, <1>3 DEF DefiniteRefusal
<1>11. RoundInv'
  BY Zenon, <1>1, <1>4, RoundKept
<1>12. QED
  BY Zenon, <1>6, <1>9, <1>10, <1>11 DEF SlurmInv

LEMMA JobStep ==
  ASSUME SlurmInv, NEW j \in Jobs,
         JobRuns(j) \/ JobEnds(j) \/ JobRequeued(j) \/ JobLeavesQueue(j) \/ Sbatch(j)
  PROVE  SlurmInv'
<1>1. Shapes /\ ClusterInv /\ DefiniteRefusal /\ RoundInv
  BY Zenon DEF SlurmInv
<1>2. ASSUME NEW raw \in {"PENDING", "RUNNING", "COMPLETED", "TIMEOUT"}, cluster[j] \in {"PENDING", "RUNNING"},
             JobBecomes(j, raw), queued' = queued
      PROVE  SlurmInv'
  <2>1. j \in queued' /\ (submission[j] = "refused" => j \in misled) /\ raw \in RawStates \ {"NONE"}
    BY Zenon, <1>1, <1>2 DEF ClusterInv, DefiniteRefusal, RawStates
  <2>2. /\ cluster' = [cluster EXCEPT ![j] = raw] /\ Witnessed(j, raw)
        /\ UNCHANGED <<nameOf, submission, misled, roundAt, target, output, status>>
    BY Zenon, <1>2 DEF JobBecomes
  <2>3. QED
    BY Zenon, <1>2, <2>1, <2>2, ClusterStep
<1>3. CASE JobRuns(j) \/ JobEnds(j) \/ JobRequeued(j)
  BY Zenon, <1>2, <1>3 DEF JobRuns, JobEnds, JobRequeued
<1>4. CASE Sbatch(j)
  <2>1. PICK raw : raw = "PENDING"
    BY Zenon
  <2>2. raw \in RawStates \ {"NONE"} /\ (submission[j] = "refused" => j \in misled)
    BY Zenon, <1>4, <2>1 DEF Sbatch, RawStates
  <2>3. /\ cluster' = [cluster EXCEPT ![j] = raw] /\ Witnessed(j, raw) /\ queued' = queued \cup {j}
        /\ UNCHANGED <<nameOf, submission, misled, roundAt, target, output, status>>
    BY Zenon, <1>4, <2>1 DEF Sbatch
  <2>4. QED
    BY Zenon, <2>2, <2>3, ClusterStep
<1>5. CASE JobLeavesQueue(j)
  <2>1. /\ queued' = queued \ {j} /\ cluster[j] \notin {"PENDING", "RUNNING"}
        /\ UNCHANGED <<cluster, nameOf, submission, misled, roundAt, target, output, seen, status>>
    BY Zenon, <1>5 DEF JobLeavesQueue
  <2>2. Shapes' /\ ClusterInv' /\ DefiniteRefusal'
    BY Zenon, <1>1, <2>1 DEF Shapes, ClusterInv, DefiniteRefusal
  <2>3. RoundInv'
    BY Zenon, <1>1, <2>1, RoundKept
  <2>4. QED
    BY Zenon, <2>2, <2>3 DEF SlurmInv
<1>6. QED
  BY Zenon, <1>3, <1>4, <1>5

(* A definite refusal is only returned when sbatch queued nothing, or for  *)
(* an exit that misleads.                                                  *)
LEMMA SubmitStep ==
  ASSUME SlurmInv, NEW j \in Jobs, Submit(j) \/ SubmitReturns(j)
  PROVE  SlurmInv'
<1>1. Shapes /\ ClusterInv /\ DefiniteRefusal /\ RoundInv
  BY Zenon DEF SlurmInv
<1>2. UNCHANGED <<cluster, queued, nameOf, roundAt, target, output, seen, status>>
  BY Zenon DEF Submit, SubmitReturns
<1>3. PICK to \in {"sending", "id", "ambiguous", "refused"} :
          /\ submission' = [submission EXCEPT ![j] = to]
          /\ misled \subseteq misled' /\ misled' \subseteq misled \cup {j}
          /\ to = "refused" => cluster[j] = "NONE" \/ j \in misled'
  <2>1. CASE Submit(j)
    BY Zenon, <2>1 DEF Submit
  <2>2. CASE SubmitReturns(j)
    <3>1. PICK exit \in Exits(j) : /\ submission' = [submission EXCEPT ![j] = SubmitResult(exit)]
                                   /\ misled' = IF exit = "failed" THEN misled \cup {j} ELSE misled
      BY Zenon, <2>2 DEF SubmitReturns
    <3>2. SubmitResult(exit) \in {"sending", "id", "ambiguous", "refused"}
      BY DEF SubmitResult
    <3>3. SubmitResult(exit) = "refused" => exit = "failed" \/ exit = "refused"
      <4>1. exit \in {"refused", "accepted", "255", "timeout", "garbled", "failed"}
        BY DEF Exits
      <4>2. QED
        BY <4>1 DEF SubmitResult, AmbiguousExit
    <3>4. exit = "refused" => cluster[j] = "NONE"
      BY DEF Exits
    <3>5. misled \subseteq misled' /\ misled' \subseteq misled \cup {j} /\ (exit = "failed" => j \in misled')
      BY Zenon, <3>1
    <3>6. QED
      BY Zenon, <3>1, <3>2, <3>3, <3>4, <3>5
  <2>3. QED
    BY Zenon, <2>1, <2>2
<1>4. /\ submission' \in [Jobs -> {"none", "sending", "id", "ambiguous", "refused"}]
      /\ submission'[j] = to /\ \A k \in Jobs \ {j} : submission'[k] = submission[k]
  BY Zenon, <1>1, <1>3 DEF Shapes
<1>5. Shapes' /\ ClusterInv'
  BY Zenon, <1>1, <1>2, <1>3, <1>4 DEF Shapes, ClusterInv
<1>6. DefiniteRefusal'
  BY Zenon, <1>1, <1>2, <1>3, <1>4 DEF DefiniteRefusal
<1>7. RoundInv'
  BY Zenon, <1>1, <1>2, RoundKept
<1>8. QED
  BY Zenon, <1>5, <1>6, <1>7 DEF SlurmInv

----------------------------------------------------------------------------
(* The steps of a round.                                                   *)

LEMMA MarkerTypes ==
  /\ Marker(Cancel) \in OutputRows /\ Marker(Queue) \in OutputRows /\ Marker(Accounting) \in OutputRows
  /\ target \in TargetState => \A said \in {"none", "message"} :
        LET row == [Text EXCEPT !.id = target.id, !.name = target.name, !.state = said]
        IN  row \in OutputRows /\ Refusal(row)
<1>1. Marker(Cancel) \in OutputRows /\ Marker(Queue) \in OutputRows /\ Marker(Accounting) \in OutputRows
  BY DEF OutputRows, Marker
<1>2. ASSUME target \in TargetState, NEW said \in {"none", "message"}
      PROVE  LET row == [Text EXCEPT !.id = target.id, !.name = target.name, !.state = said]
             IN  row \in OutputRows /\ Refusal(row)
  BY <1>2 DEF TargetState, Refusal, Text, OutputRows
<1>3. QED
  BY Zenon, <1>1, <1>2

LEMMA LineFields ==
  ASSUME Shapes, ClusterInv, roundAt # "idle", NEW j \in Jobs, cluster[j] # "NONE", NEW w \in BOOLEAN
  PROVE  Line(j, w) \in OutputRows /\ JobRow(Line(j, w), nameOf, seen) /\ Line(j, w).id = j
<1>1. cluster[j] \in RawStates /\ nameOf[j] \in JobNames /\ cluster[j] \in seen[j]
  BY Zenon DEF Shapes, ClusterInv
<1>2. PICK time : time = (IF w THEN elapsed(cluster[j]) ELSE 0)
  BY Zenon
<1>3. time \in {0, elapsed(cluster[j])} /\ time \in {0, 1}
  BY Zenon, <1>2 DEF elapsed
<1>4. PICK row, name, state : row = Line(j, w) /\ name = nameOf[j] /\ state = cluster[j]
  BY Zenon
<1>5. row = [marker |-> "none", id |-> j, name |-> name, state |-> state, elapsed |-> time]
  BY Zenon, <1>2, <1>4 DEF Line
<1>6. name \in JobNames /\ state \in RawStates
  BY Zenon, <1>1, <1>4
<1>7. row \in OutputRows /\ row.marker = "none" /\ row.id = j /\ row.name = name /\ row.state = state /\ row.elapsed = time
  BY <1>3, <1>5, <1>6 DEF OutputRows
<1>8. JobRow(row, nameOf, seen)
  BY Zenon, <1>1, <1>3, <1>4, <1>7 DEF JobRow
<1>9. QED
  BY Zenon, <1>4, <1>7, <1>8

LEMMA TargetTypes ==
  ASSUME Shapes, NEW t \in Targets
  PROVE  t \in TargetState /\ (t.id \in Jobs => t.name = nameOf[t.id])
<1>1. nameOf \in [Jobs -> JobNames]
  BY Zenon DEF Shapes
<1>2. CASE t \in [id : {ByName}, name : JobNames, cancel : BOOLEAN]
  BY <1>2, SlurmAssumption DEF TargetState
<1>3. CASE t \in {[id |-> j, name |-> nameOf[j], cancel |-> c] : j \in {i \in Jobs : submission[i] = "id"}, c \in BOOLEAN}
  <2>1. PICK j \in Jobs, c \in BOOLEAN : t = [id |-> j, name |-> nameOf[j], cancel |-> c]
    BY SMTT(20), <1>3
  <2>2. t.id = j /\ t.name = nameOf[j]
    BY Zenon, <2>1
  <2>3. t \in TargetState
    <3>1. PICK name : name = nameOf[j]
      BY Zenon
    <3>2. name \in JobNames \cup {"none"} /\ t = [id |-> j, name |-> name, cancel |-> c]
      BY Zenon, <1>1, <2>1, <3>1
    <3>3. QED
      BY <3>2 DEF TargetState
  <2>4. QED
    BY Zenon, <2>2, <2>3
<1>4. QED
  BY SMTT(20), <1>2, <1>3 DEF Targets

LEMMA BeginRoundStep ==
  ASSUME SlurmInv, NEW t \in Targets, BeginRound(t)
  PROVE  SlurmInv'
<1>1. Shapes /\ ClusterInv /\ DefiniteRefusal
  BY Zenon DEF SlurmInv
<1>2. /\ target' = t /\ output' = <<Marker(Cancel)>> /\ seen' = [j \in Jobs |-> {cluster[j]}]
      /\ roundAt' = (IF t.cancel THEN "scancel" ELSE "squeue")
      /\ UNCHANGED <<cluster, queued, nameOf, submission, misled, status>>
  BY Zenon DEF BeginRound
<1>3. t \in TargetState /\ (t.id \in Jobs => t.name = nameOf[t.id])
  BY Zenon, <1>1, TargetTypes
<1>4. output' \in Seq(OutputRows) /\ Len(output') = 1 /\ output'[1] = Marker(Cancel)
  BY <1>2, MarkerTypes
<1>5. seen' \in [Jobs -> SUBSET RawStates] /\ \A j \in Jobs : cluster[j] \in seen'[j]
  <2>1. \A j \in Jobs : {cluster[j]} \in SUBSET RawStates
    BY Zenon, <1>1 DEF Shapes
  <2>2. QED
    BY Zenon, <1>2, <2>1
<1>6. Shapes'
  BY Zenon, <1>1, <1>2, <1>3, <1>4, <1>5 DEF Shapes
<1>7. ClusterInv' /\ DefiniteRefusal'
  BY Zenon, <1>1, <1>2, <1>3, <1>5 DEF ClusterInv, DefiniteRefusal
<1>8. ~t.cancel => (CancelPart(0))' /\ Len(output') = 0 + 1
  <2>1. 0 + 1 = 1 /\ 0 # 1 /\ 1 <= 1
    OBVIOUS
  <2>2. QED
    BY Zenon, <1>2, <1>4, <2>1 DEF CancelPart
<1>9. RoundInv'
  BY Zenon, <1>2, <1>8 DEF RoundInv
<1>10. QED
  BY Zenon, <1>6, <1>7, <1>9 DEF SlurmInv

(* scancel either ends every job of the target that is pending or running, *)
(* or prints its refusal.                                                  *)
LEMMA ScancelStep ==
  ASSUME SlurmInv, Scancel
  PROVE  SlurmInv'
<1>1. Shapes /\ ClusterInv /\ DefiniteRefusal /\ RoundInv
  BY Zenon DEF SlurmInv
<1>2. roundAt = "scancel" /\ roundAt' = "squeue" /\ UNCHANGED <<queued, nameOf, submission, misled, target, status>>
  BY Zenon DEF Scancel
<1>3. output = <<Marker(Cancel)>> /\ output \in Seq(OutputRows) /\ Len(output) = 1 /\ output[1] = Marker(Cancel)
  <2>1. output = <<Marker(Cancel)>>
    BY Zenon, <1>1, <1>2 DEF RoundInv
  <2>2. QED
    BY <2>1, MarkerTypes
<1>4. cluster \in [Jobs -> RawStates] /\ seen \in [Jobs -> SUBSET RawStates] /\ target \in TargetState
  BY Zenon, <1>1 DEF Shapes
<1>5. CASE LET hit == {j \in Jobs : Targeted(j) /\ cluster[j] \in {"PENDING", "RUNNING"}}
           IN  /\ cluster' = [j \in Jobs |-> IF j \in hit THEN "CANCELLED" ELSE cluster[j]]
               /\ seen' = [j \in Jobs |-> seen[j] \cup {cluster'[j]}]
               /\ UNCHANGED output
  <2>1. PICK hit : /\ hit = {j \in Jobs : Targeted(j) /\ cluster[j] \in {"PENDING", "RUNNING"}}
                   /\ cluster' = [j \in Jobs |-> IF j \in hit THEN "CANCELLED" ELSE cluster[j]]
                   /\ seen' = [j \in Jobs |-> seen[j] \cup {cluster'[j]}]
                   /\ output' = output
    BY Zenon, <1>5
  <2>2. \A j \in Jobs : j \in hit <=> Targeted(j) /\ cluster[j] \in {"PENDING", "RUNNING"}
    BY Zenon, <2>1
  <2>3. \A j \in Jobs : /\ j \in hit => cluster'[j] = "CANCELLED"
                        /\ j \notin hit => cluster'[j] = cluster[j]
                        /\ seen'[j] = seen[j] \cup {cluster'[j]}
    BY Zenon, <2>1
  <2>4. \A j \in Jobs : cluster'[j] \in RawStates
    BY Zenon, <1>4, <2>3 DEF RawStates
  <2>5. cluster' \in [Jobs -> RawStates]
    <3>1. \A j \in Jobs : (IF j \in hit THEN "CANCELLED" ELSE cluster[j]) \in RawStates
      BY Zenon, <1>4 DEF RawStates
    <3>2. QED
      BY Zenon, <2>1, <3>1
  <2>6. seen' \in [Jobs -> SUBSET RawStates]
    <3>1. \A j \in Jobs : seen[j] \cup {cluster'[j]} \in SUBSET RawStates
      BY Zenon, <1>4, <2>4
    <3>2. QED
      BY Zenon, <2>1, <3>1
  <2>7. queued' \subseteq {j \in Jobs : cluster'[j] # "NONE"}
    BY Zenon, <1>1, <1>2, <2>3 DEF Shapes
  <2>8. Shapes'
    BY Zenon, <1>1, <1>2, <2>1, <2>5, <2>6, <2>7 DEF Shapes
  <2>9. ClusterInv'
    <3>1. \A j \in Jobs : cluster'[j] \in {"PENDING", "RUNNING"} => j \in queued'
      BY Zenon, <1>1, <1>2, <2>3 DEF ClusterInv
    <3>2. \A j \in Jobs : cluster'[j] \in seen'[j]
      BY Zenon, <2>3
    <3>3. QED
      BY Zenon, <1>1, <1>2, <3>1, <3>2 DEF ClusterInv
  <2>10. DefiniteRefusal'
    BY Zenon, <1>1, <1>2, <2>2, <2>3 DEF DefiniteRefusal
  <2>11. (CancelPart(0))' /\ Len(output') = 0 + 1
    <3>1. ASSUME NEW j \in Jobs, (Targeted(j))', "NONE" \notin seen'[j]
          PROVE  seen'[j] \cap {"CANCELLED", "COMPLETED", "TIMEOUT"} # {}
      <4>1. Targeted(j)
        BY Zenon, <1>2, <3>1 DEF Targeted
      <4>2. cluster'[j] \in seen'[j] /\ cluster'[j] # "NONE"
        BY Zenon, <2>3, <3>1
      <4>3. cluster'[j] \in {"CANCELLED", "COMPLETED", "TIMEOUT"}
        BY Zenon, <2>2, <2>3, <2>4, <4>1, <4>2 DEF RawStates
      <4>4. QED
        BY Zenon, <4>2, <4>3
    <3>2. 0 + 1 = 1 /\ 0 # 1 /\ 1 <= 1
      OBVIOUS
    <3>3. QED
      BY Zenon, <1>3, <2>1, <3>1, <3>2 DEF CancelPart
  <2>12. RoundInv'
    BY Zenon, <1>2, <2>11 DEF RoundInv
  <2>13. QED
    BY Zenon, <2>8, <2>9, <2>10, <2>12 DEF SlurmInv
<1>6. CASE /\ \E said \in {"none", "message"} :
                output' = Append(output, [Text EXCEPT !.id = target.id, !.name = target.name, !.state = said])
           /\ UNCHANGED <<cluster, seen>>
  <2>1. PICK row \in OutputRows : output' = Append(output, row) /\ Refusal(row)
    BY Zenon, <1>4, <1>6, MarkerTypes
  <2>2. output' \in Seq(OutputRows) /\ Len(output') = 2 /\ output'[1] = Marker(Cancel) /\ output'[2] = row
    BY <1>3, <2>1
  <2>3. Shapes' /\ ClusterInv' /\ DefiniteRefusal'
    BY Zenon, <1>1, <1>2, <1>6, <2>2 DEF Shapes, ClusterInv, DefiniteRefusal
  <2>4. (Refusal(output[2]))'
    BY Zenon, <1>2, <2>1, <2>2 DEF Refusal
  <2>5. (CancelPart(1))' /\ Len(output') = 1 + 1
    <3>1. 1 + 1 = 2 /\ 1 # 0 /\ 2 <= 2
      OBVIOUS
    <3>2. QED
      BY Zenon, <2>2, <2>4, <3>1 DEF CancelPart
  <2>6. RoundInv'
    BY Zenon, <1>2, <2>5 DEF RoundInv
  <2>7. QED
    BY Zenon, <2>3, <2>6 DEF SlurmInv
<1>7. QED
  BY Zenon, <1>5, <1>6 DEF Scancel

(* A command prints a section after what has been printed.                 *)
Prints(m, rows) ==
    /\ output' = output \o <<m>> \o rows
    /\ UNCHANGED <<cluster, queued, nameOf, submission, misled, target, seen, status>>

LEMMA PrintedSection ==
  ASSUME Shapes, NEW m \in OutputRows, NEW rows \in Seq(OutputRows), Prints(m, rows)
  PROVE  output' \in Seq(OutputRows) /\ Appended(output', output, m, rows)
<1>1. PICK s, o : s = output /\ o = output'
  BY Zenon
<1>2. s \in Seq(OutputRows) /\ o = s \o <<m>> \o rows
  BY Zenon, <1>1 DEF Shapes, Prints
<1>3. o \in Seq(OutputRows) /\ Appended(o, s, m, rows)
  BY Zenon, <1>2, Printed
<1>4. QED
  BY Zenon, <1>1, <1>3

LEMMA PartsKept ==
  ASSUME Shapes, NEW m \in OutputRows, NEW rows \in Seq(OutputRows), Prints(m, rows)
  PROVE  /\ \A n \in {0, 1} : CancelPart(n) => (CancelPart(n))'
         /\ \A n \in {0, 1}, e \in Nat : QueuePart(n, e) => (QueuePart(n, e))'
<1>1. /\ Len(output) \in Nat /\ Len(output') \in Nat /\ Len(output) <= Len(output')
      /\ \A i \in 1 .. Len(output) : output'[i] = output[i]
  <2>1. /\ Len(output) \in Nat /\ Len(rows) \in Nat /\ Len(output') = Len(output) + 1 + Len(rows)
        /\ \A i \in 1 .. Len(output) : output'[i] = output[i]
    BY Zenon, PrintedSection DEF Appended
  <2>2. Len(output') \in Nat /\ Len(output) <= Len(output')
    BY <2>1
  <2>3. QED
    BY Zenon, <2>1, <2>2
<1>2. UNCHANGED <<nameOf, target, seen>>
  BY Zenon DEF Prints
<1>3. \A j \in Jobs : ((Targeted(j))' <=> Targeted(j)) /\ ((Live(j))' <=> Live(j))
  BY Zenon, <1>2 DEF Targeted, Live
<1>5. ASSUME NEW n \in {0, 1}, CancelPart(n)
      PROVE  (CancelPart(n))'
  <2>1. n + 1 <= Len(output)
    BY Zenon, <1>5 DEF CancelPart
  <2>2. n + 1 <= Len(output') /\ 1 \in 1 .. Len(output) /\ (n = 1 => 2 \in 1 .. Len(output))
    BY <1>1, <2>1
  <2>3. output'[1] = Marker(Cancel) /\ (n = 1 => (Refusal(output[2]))')
    BY Zenon, <1>1, <1>2, <1>5, <2>2 DEF CancelPart, Refusal
  <2>4. target'.cancel /\ n = 0 =>
          \A j \in Jobs : (Targeted(j))' /\ "NONE" \notin seen'[j] => seen'[j] \cap {"CANCELLED", "COMPLETED", "TIMEOUT"} # {}
    BY Zenon, <1>2, <1>3, <1>5 DEF CancelPart
  <2>5. QED
    BY Zenon, <2>2, <2>3, <2>4 DEF CancelPart
<1>6. ASSUME NEW n \in {0, 1}, NEW e \in Nat, QueuePart(n, e)
      PROVE  (QueuePart(n, e))'
  <2>1. e \in n + 2 .. Len(output)
    BY Zenon, <1>6 DEF QueuePart
  <2>2. e \in n + 2 .. Len(output') /\ n + 2 \in 1 .. Len(output) /\ e \in 1 .. Len(output)
        /\ \A i \in n + 3 .. e : i \in 1 .. Len(output)
    BY <1>1, <2>1
  <2>3. output'[n + 2] = Marker(Queue)
    BY Zenon, <1>1, <1>6, <2>2 DEF QueuePart
  <2>4. CASE /\ \A i \in n + 3 .. e : JobRow(output[i], nameOf, seen)
             /\ \A j \in Jobs : n + 3 <= e /\ Live(j) => \E i \in n + 3 .. e : output[i].id = j
    <3>1. \A i \in n + 3 .. e : JobRow(output'[i], nameOf', seen')
      BY Zenon, <1>1, <1>2, <2>2, <2>4
    <3>2. \A j \in Jobs : n + 3 <= e /\ (Live(j))' => \E i \in n + 3 .. e : output'[i].id = j
      BY Zenon, <1>1, <1>3, <2>2, <2>4
    <3>3. QED
      BY Zenon, <2>2, <2>3, <3>1, <3>2 DEF QueuePart
  <2>5. CASE e = n + 3 /\ output[e] = Marker(Queue)
    BY Zenon, <1>1, <2>2, <2>3, <2>5 DEF QueuePart
  <2>6. QED
    BY Zenon, <1>6, <2>4, <2>5 DEF QueuePart
<1>7. QED
  BY Zenon, <1>5, <1>6

(* What a listing of the jobs S prints.                                    *)
Shows(S) == \A j \in S : \E i \in Len(output) + 2 .. Len(output') : output'[i].id = j

LEMMA PrintedListing ==
  ASSUME Shapes, ClusterInv, roundAt # "idle", NEW m \in OutputRows, NEW w \in BOOLEAN,
         NEW S, S \subseteq {j \in Jobs : cluster[j] # "NONE"}, NEW rows \in Listings(S, w), Prints(m, rows)
  PROVE  /\ rows \in Seq(OutputRows)
         /\ \A i \in Len(output) + 2 .. Len(output') : JobRow(output'[i], nameOf', seen')
         /\ Shows(S)
<1>1. S \subseteq Jobs /\ \A j \in S : Line(j, w) \in OutputRows /\ JobRow(Line(j, w), nameOf, seen) /\ Line(j, w).id = j
  BY Zenon, LineFields
<1>2. rows \in Seq(OutputRows) /\ Lists(rows, S, w)
  BY Zenon, <1>1, ListingRows
<1>3. Appended(output', output, m, rows)
  BY Zenon, <1>2, PrintedSection
<1>4. /\ \A i \in Len(output) + 2 .. Len(output') : \E k \in 1 .. Len(rows) : output'[i] = rows[k]
      /\ \A k \in 1 .. Len(rows) : \E i \in Len(output) + 2 .. Len(output') : output'[i] = rows[k]
  BY Zenon, <1>3 DEF Appended
<1>5. nameOf' = nameOf /\ seen' = seen
  BY Zenon DEF Prints
<1>6. ASSUME NEW i \in Len(output) + 2 .. Len(output')
      PROVE  JobRow(output'[i], nameOf', seen')
  <2>1. PICK k \in 1 .. Len(rows) : output'[i] = rows[k]
    BY Zenon, <1>4
  <2>2. PICK j \in S : rows[k] = Line(j, w)
    BY Zenon, <1>2 DEF Lists
  <2>3. QED
    BY Zenon, <1>1, <1>5, <2>1, <2>2
<1>7. ASSUME NEW j \in S
      PROVE  \E i \in Len(output) + 2 .. Len(output') : output'[i].id = j
  <2>1. PICK i \in Len(output) + 2 .. Len(output') : output'[i] = Line(j, w)
    BY Zenon, <1>2, <1>4 DEF Lists
  <2>2. QED
    BY Zenon, <1>1, <2>1
<1>8. QED
  BY Zenon, <1>2, <1>6, <1>7 DEF Shows

(* A job that is live throughout the round is live now, and in the queue.  *)
LEMMA LiveNow ==
  ASSUME Shapes, ClusterInv, roundAt # "idle", NEW j \in Jobs, Live(j)
  PROVE  cluster[j] # "NONE" /\ j \in queued
  BY Zenon DEF ClusterInv, Live

(* What a command of the script leaves alone.                              *)
LEMMA PrintsFrame ==
  ASSUME Shapes, ClusterInv, DefiniteRefusal, NEW m \in OutputRows, NEW rows \in Seq(OutputRows), Prints(m, rows),
         roundAt \in {"squeue", "sacct"}, roundAt' \in {"sacct", "parse"}
  PROVE  Shapes' /\ ClusterInv' /\ DefiniteRefusal'
<1>1. output' \in Seq(OutputRows)
  BY Zenon, PrintedSection
<1>2. Shapes'
  BY Zenon, <1>1 DEF Shapes, Prints
<1>3. ClusterInv' /\ DefiniteRefusal'
  BY Zenon DEF ClusterInv, DefiniteRefusal, Prints
<1>4. QED
  BY Zenon, <1>2, <1>3

LEMMA SqueueStep ==
  ASSUME SlurmInv, Squeue
  PROVE  SlurmInv'
<1>1. Shapes /\ ClusterInv /\ DefiniteRefusal /\ RoundInv
  BY Zenon DEF SlurmInv
<1>2. roundAt = "squeue" /\ roundAt' = "sacct"
  BY Zenon DEF Squeue
<1>3. PICK rows \in Listings(queued, FALSE) \cup {<<>>} \cup {<<Marker(Queue)>>} : Prints(Marker(Queue), rows)
  BY Zenon DEF Squeue, Prints
<1>4. PICK m : m = Marker(Queue) /\ m \in OutputRows
  BY Zenon, MarkerTypes
<1>5. Prints(m, rows)
  BY Zenon, <1>3, <1>4
<1>6. PICK n \in {0, 1} : CancelPart(n) /\ Len(output) = n + 1
  BY Zenon, <1>1, <1>2 DEF RoundInv
<1>7. ASSUME rows \in Listings(queued, FALSE)
      PROVE  /\ rows \in Seq(OutputRows)
             /\ \A i \in Len(output) + 2 .. Len(output') : JobRow(output'[i], nameOf', seen')
             /\ Shows(queued)
  <2>1. queued \subseteq {j \in Jobs : cluster[j] # "NONE"} /\ FALSE \in BOOLEAN /\ roundAt # "idle"
    BY Zenon, <1>1, <1>2 DEF Shapes
  <2>2. QED
    BY Zenon, <1>1, <1>4, <1>5, <1>7, <2>1, PrintedListing
<1>8. rows \in Seq(OutputRows)
  <2>1. <<>> \in Seq(OutputRows) /\ <<m>> \in Seq(OutputRows)
    BY <1>4
  <2>2. QED
    BY Zenon, <1>3, <1>4, <1>7, <2>1
<1>9. Shapes' /\ ClusterInv' /\ DefiniteRefusal'
  BY Zenon, <1>1, <1>2, <1>4, <1>5, <1>8, PrintsFrame
<1>10. (CancelPart(n))'
  BY Zenon, <1>1, <1>4, <1>5, <1>6, <1>8, PartsKept
<1>11. Appended(output', output, m, rows)
  BY Zenon, <1>1, <1>4, <1>5, <1>8, PrintedSection
<1>12. PICK e \in Nat : e = Len(output') /\ e = (n + 2) + Len(rows) /\ Len(rows) \in Nat
  <2>1. Len(rows) \in Nat /\ Len(output') = Len(output) + 1 + Len(rows)
    BY Zenon, <1>11 DEF Appended
  <2>2. QED
    BY <1>6, <2>1
<1>13. e \in n + 2 .. Len(output') /\ Len(output) + 1 = n + 2 /\ Len(output) + 2 = n + 3
  BY <1>6, <1>12
<1>14. output'[n + 2] = Marker(Queue)
  BY Zenon, <1>4, <1>11, <1>13 DEF Appended
<1>15. (QueuePart(n, e))'
  <2>1. CASE rows \in Listings(queued, FALSE)
    <3>1. \A i \in n + 3 .. e : JobRow(output'[i], nameOf', seen')
      BY Zenon, <1>7, <1>12, <1>13, <2>1
    <3>2. \A j \in Jobs : (Live(j))' => j \in queued
      <4>1. \A j \in Jobs : (Live(j))' => Live(j)
        BY Zenon, <1>5 DEF Live, Prints
      <4>2. QED
        BY Zenon, <1>1, <1>2, <4>1, LiveNow
    <3>3. \A j \in Jobs : n + 3 <= e /\ (Live(j))' => \E i \in n + 3 .. e : output'[i].id = j
      <4>1. \A j \in queued : \E i \in n + 3 .. e : output'[i].id = j
        <5>1. n + 3 .. e = Len(output) + 2 .. Len(output')
          BY Zenon, <1>12, <1>13
        <5>2. Shows(queued)
          BY Zenon, <1>7, <2>1
        <5>3. QED
          BY Zenon, <5>1, <5>2 DEF Shows
      <4>2. QED
        BY Zenon, <3>2, <4>1
    <3>4. QED
      BY Zenon, <1>13, <1>14, <3>1, <3>3 DEF QueuePart
  <2>2. CASE rows = <<>>
    <3>1. e = n + 2 /\ ~(n + 3 <= e) /\ \A i \in n + 3 .. e : FALSE
      BY <1>12, <2>2
    <3>2. QED
      BY Zenon, <1>13, <1>14, <3>1 DEF QueuePart
  <2>3. CASE rows = <<m>>
    <3>1. e = n + 3 /\ 1 \in 1 .. Len(rows) /\ rows[1] = m
      BY <1>12, <2>3
    <3>2. PICK i \in Len(output) + 2 .. Len(output') : output'[i] = m
      <4>1. \A k \in 1 .. Len(rows) : \E i \in Len(output) + 2 .. Len(output') : output'[i] = rows[k]
        BY Zenon, <1>11 DEF Appended
      <4>2. QED
        BY Zenon, <3>1, <4>1
    <3>3. i = e
      BY <1>12, <1>13, <3>1, <3>2
    <3>4. QED
      BY Zenon, <1>4, <1>13, <1>14, <3>1, <3>2, <3>3 DEF QueuePart
  <2>4. QED
    BY Zenon, <1>3, <1>4, <2>1, <2>2, <2>3
<1>16. RoundInv'
  BY Zenon, <1>2, <1>10, <1>12, <1>15 DEF RoundInv
<1>17. QED
  BY Zenon, <1>9, <1>16 DEF SlurmInv

LEMMA SacctStep ==
  ASSUME SlurmInv, Sacct
  PROVE  SlurmInv'
<1>1. Shapes /\ ClusterInv /\ DefiniteRefusal /\ RoundInv
  BY Zenon DEF SlurmInv
<1>2. roundAt = "sacct" /\ roundAt' = "parse"
  BY Zenon DEF Sacct
<1>3. PICK heard : /\ heard \subseteq {j \in Jobs : cluster[j] # "NONE"}
                   /\ \E rows \in Listings(heard, TRUE) : Prints(Marker(Accounting), rows)
  <2>1. PICK names \in {N \in SUBSET JobNames : target.name \in N} :
          LET known == {j \in Jobs : cluster[j] # "NONE" /\ nameOf[j] \in names}
          IN  \E heard \in IF Host("lag") THEN SUBSET known ELSE {known} :
                 \E rows \in Listings(heard, TRUE) : output' = output \o <<Marker(Accounting)>> \o rows
    BY Zenon DEF Sacct
  <2>2. PICK known : /\ known = {j \in Jobs : cluster[j] # "NONE" /\ nameOf[j] \in names}
                     /\ \E heard \in IF Host("lag") THEN SUBSET known ELSE {known} :
                          \E rows \in Listings(heard, TRUE) : output' = output \o <<Marker(Accounting)>> \o rows
    BY Zenon, <2>1
  <2>3. PICK heard \in IF Host("lag") THEN SUBSET known ELSE {known} :
          \E rows \in Listings(heard, TRUE) : output' = output \o <<Marker(Accounting)>> \o rows
    BY Zenon, <2>2
  <2>4. heard \subseteq known
    BY Zenon, <2>3
  <2>5. QED
    BY Zenon, <2>2, <2>3, <2>4 DEF Sacct, Prints
<1>4. PICK rows \in Listings(heard, TRUE) : Prints(Marker(Accounting), rows)
  BY Zenon, <1>3
<1>5. PICK m : m = Marker(Accounting) /\ m \in OutputRows
  BY Zenon, MarkerTypes
<1>6. Prints(m, rows)
  BY Zenon, <1>4, <1>5
<1>7. PICK n \in {0, 1}, e \in Nat : CancelPart(n) /\ QueuePart(n, e) /\ e = Len(output)
  BY Zenon, <1>1, <1>2 DEF RoundInv
<1>8. TRUE \in BOOLEAN /\ roundAt # "idle"
  BY Zenon, <1>2
<1>9. /\ rows \in Seq(OutputRows)
      /\ \A i \in Len(output) + 2 .. Len(output') : JobRow(output'[i], nameOf', seen')
  BY Zenon, <1>1, <1>3, <1>4, <1>5, <1>6, <1>8, PrintedListing
<1>10. Shapes' /\ ClusterInv' /\ DefiniteRefusal'
  BY Zenon, <1>1, <1>2, <1>5, <1>6, <1>9, PrintsFrame
<1>11. (CancelPart(n))' /\ (QueuePart(n, e))'
  BY Zenon, <1>1, <1>5, <1>6, <1>7, <1>9, PartsKept
<1>12. Appended(output', output, m, rows)
  BY Zenon, <1>1, <1>5, <1>6, <1>9, PrintedSection
<1>13. Len(rows) \in Nat /\ Len(output') = (e + 1) + Len(rows)
  BY <1>7, <1>12 DEF Appended
<1>14. e + 1 <= Len(output')
  BY <1>13
<1>15. output'[e + 1] = Marker(Accounting)
  BY Zenon, <1>5, <1>7, <1>12 DEF Appended
<1>16. (AccountingPart(e))'
  BY Zenon, <1>7, <1>9, <1>14, <1>15 DEF AccountingPart
<1>17. RoundInv'
  BY Zenon, <1>2, <1>11, <1>16 DEF RoundInv
<1>18. QED
  BY Zenon, <1>10, <1>17 DEF SlurmInv

LEMMA ObserveStep ==
  ASSUME SlurmInv, Observe
  PROVE  SlurmInv'
<1>1. Shapes /\ ClusterInv /\ DefiniteRefusal /\ RoundInv
  BY Zenon DEF SlurmInv
<1>2. /\ roundAt = "parse" /\ roundAt' = "reported"
      /\ UNCHANGED <<cluster, queued, nameOf, submission, misled, target, output, seen>>
  BY Zenon DEF Observe
<1>3. status' \in {NoStatus, parseStatuses(output, target)}
  BY Zenon DEF Observe
<1>4. PICK n \in {0, 1}, e \in Nat : CancelPart(n) /\ QueuePart(n, e) /\ AccountingPart(e)
  BY Zenon, <1>1, <1>2 DEF RoundInv
<1>5. parseStatuses(output, target) \in StatusState
  BY Zenon, <1>1, <1>4, Reported
<1>6. status' \in StatusState
  BY Zenon, <1>3, <1>5, NoStatusFields
<1>7. Shapes' /\ ClusterInv' /\ DefiniteRefusal'
  BY Zenon, <1>1, <1>2, <1>6 DEF Shapes, ClusterInv, DefiniteRefusal
<1>8. (CancelPart(n))' /\ (QueuePart(n, e))' /\ (AccountingPart(e))'
  <2>1. \A j \in Jobs : ((Targeted(j))' <=> Targeted(j)) /\ ((Live(j))' <=> Live(j))
    BY Zenon, <1>2 DEF Targeted, Live
  <2>2. (CancelPart(n))'
    BY Zenon, <1>2, <1>4, <2>1 DEF CancelPart, Refusal
  <2>3. (QueuePart(n, e))'
    BY Zenon, <1>2, <1>4, <2>1 DEF QueuePart
  <2>4. (AccountingPart(e))'
    BY Zenon, <1>2, <1>4, <2>1 DEF AccountingPart
  <2>5. QED
    BY Zenon, <2>2, <2>3, <2>4
<1>9. RoundInv'
  BY Zenon, <1>2, <1>3, <1>8 DEF RoundInv
<1>10. QED
  BY Zenon, <1>7, <1>9 DEF SlurmInv

LEMMA EndRoundStep ==
  ASSUME SlurmInv, EndRound
  PROVE  SlurmInv'
<1>1. Shapes /\ ClusterInv /\ DefiniteRefusal
  BY Zenon DEF SlurmInv
<1>2. /\ roundAt' = "idle" /\ target' = NoTarget /\ output' = <<>> /\ seen' = [j \in Jobs |-> {}] /\ status' = NoStatus
      /\ UNCHANGED <<cluster, queued, nameOf, submission, misled>>
  BY Zenon DEF EndRound
<1>3. NoTarget \in TargetState /\ NoTarget.id = ByName
  BY DEF NoTarget, TargetState
<1>4. <<>> \in Seq(OutputRows)
  OBVIOUS
<1>5. Shapes'
  BY Zenon, <1>1, <1>2, <1>3, <1>4, NoStatusFields DEF Shapes
<1>6. ClusterInv' /\ DefiniteRefusal'
  BY Zenon, <1>1, <1>2, <1>3, SlurmAssumption DEF ClusterInv, DefiniteRefusal
<1>7. RoundInv'
  BY Zenon, <1>2 DEF RoundInv
<1>8. QED
  BY Zenon, <1>5, <1>6, <1>7 DEF SlurmInv

LEMMA SlurmStep == SlurmInv /\ [SlurmNext]_slurmVars => SlurmInv'
<1> SUFFICES ASSUME SlurmInv, [SlurmNext]_slurmVars
             PROVE  SlurmInv'
  BY Zenon
<1>1. ASSUME NEW j \in Jobs,
             JobRuns(j) \/ JobEnds(j) \/ JobRequeued(j) \/ JobLeavesQueue(j) \/ Sbatch(j) \/ Submit(j) \/ SubmitReturns(j)
      PROVE  SlurmInv'
  BY Zenon, <1>1, JobStep, SubmitStep
<1>2. ASSUME NEW t \in Targets, BeginRound(t)
      PROVE  SlurmInv'
  BY Zenon, <1>2, BeginRoundStep
<1>3. CASE Scancel \/ Squeue \/ Sacct \/ Observe \/ EndRound
  BY Zenon, <1>3, ScancelStep, SqueueStep, SacctStep, ObserveStep, EndRoundStep
<1>4. CASE UNCHANGED slurmVars
  <2>1. UNCHANGED <<cluster, queued, nameOf, submission, misled, roundAt, target, output, seen, status>>
    BY Zenon, <1>4 DEF slurmVars
  <2>2. Shapes /\ ClusterInv /\ DefiniteRefusal /\ RoundInv
    BY Zenon DEF SlurmInv
  <2>3. Shapes' /\ ClusterInv' /\ DefiniteRefusal'
    BY Zenon, <2>1, <2>2 DEF Shapes, ClusterInv, DefiniteRefusal
  <2>4. RoundInv'
    BY Zenon, <2>1, <2>2, RoundKept
  <2>5. QED
    BY Zenon, <2>3, <2>4 DEF SlurmInv
<1>5. QED
  BY Zenon, <1>1, <1>2, <1>3, <1>4 DEF SlurmNext

(* The inductive invariant of the dialogue with Slurm (internal/slurm):    *)
(* every row a script has printed was true during the round, and the       *)
(* sections of its output are where parseStatuses looks for them.          *)
THEOREM SlurmInvariant == SlurmSpec => []SlurmInv
<1>1. SlurmInit => SlurmInv
  BY SlurmStart
<1>2. SlurmInv /\ [SlurmNext]_slurmVars => SlurmInv'
  BY SlurmStep
<1>3. QED
  BY <1>1, <1>2, PTL DEF SlurmSpec

(* The types of the cluster, of a submission and of a round.               *)
THEOREM SlurmTypes == SlurmSpec => []SlurmTypeOK
<1>1. SlurmInv => SlurmTypeOK
  <2> SUFFICES ASSUME SlurmInv
               PROVE  SlurmTypeOK
    BY Zenon
  <2>1. Shapes
    BY Zenon DEF SlurmInv
  <2>2. target.id \in Jobs \cup {ByName} /\ status.id \in Jobs \cup {ByName}
    BY Zenon, <2>1 DEF Shapes, TargetState, StatusState
  <2>3. QED
    BY Zenon, <2>1, <2>2 DEF Shapes, SlurmTypeOK
<1>2. QED
  BY <1>1, SlurmInvariant, PTL

(* Submit returns a refusal only for a submission that queued no job, and  *)
(* sbatch does not run afterwards; but for a client ended by a signal, and *)
(* an sbatch that failed with its request under way.                       *)
THEOREM RefusalIsDefinite == SlurmSpec => []DefiniteRefusal
<1>1. SlurmInv => DefiniteRefusal
  BY Zenon DEF SlurmInv
<1>2. QED
  BY <1>1, SlurmInvariant, PTL

LEMMA ReportOf ==
  ASSUME SlurmInv, roundAt = "reported", status # NoStatus
  PROVE  \E n \in {0, 1}, e \in Nat :
            CancelPart(n) /\ QueuePart(n, e) /\ AccountingPart(e) /\ status = parseStatuses(output, target)
  BY Zenon DEF SlurmInv, RoundInv

(* parseStatuses joins three answers read at different moments: what it    *)
(* reports of the target was true of a job of the target during the round. *)
THEOREM ReportIsTrue == SlurmSpec => []ReportedStateHeld
<1>1. SlurmInv => ReportedStateHeld
  <2> SUFFICES ASSUME SlurmInv, roundAt = "reported", status.found
               PROVE  /\ Targeted(status.id)
                      /\ Held(status.id, status.state)
                      /\ status.elapsed > 0 => seen[status.id] \cap {"RUNNING", "COMPLETED", "TIMEOUT", "CANCELLED"} # {}
    BY Zenon DEF ReportedStateHeld, Held
  <2>1. status # NoStatus
    BY Zenon, NoStatusFields
  <2>2. PICK n \in {0, 1}, e \in Nat :
            CancelPart(n) /\ QueuePart(n, e) /\ AccountingPart(e) /\ status = parseStatuses(output, target)
    BY Zenon, <2>1, ReportOf
  <2>3. Shapes /\ ClusterInv
    BY Zenon DEF SlurmInv
  <2>4. QED
    BY Zenon, <2>2, <2>3, Reported
<1>2. QED
  BY <1>1, SlurmInvariant, PTL

(* A job that is pending or running throughout the round is found unless   *)
(* the queue was not listed and accounting had not heard of the job.       *)
THEOREM LiveJobIsFound == SlurmSpec => []LiveJobFound
<1>1. SlurmInv => LiveJobFound
  <2> SUFFICES ASSUME SlurmInv, roundAt = "reported", status.round, NEW j \in Jobs, Targeted(j),
                      seen[j] \subseteq {"PENDING", "RUNNING"}
               PROVE  status.found \/ (Sections(output, Queue) = <<>> /\ Unheard(j))
    BY Zenon DEF LiveJobFound, Unheard
  <2>1. status # NoStatus
    BY Zenon, NoStatusFields
  <2>2. PICK n \in {0, 1}, e \in Nat :
            CancelPart(n) /\ QueuePart(n, e) /\ AccountingPart(e) /\ status = parseStatuses(output, target)
    BY Zenon, <2>1, ReportOf
  <2>3. Shapes /\ ClusterInv /\ Live(j)
    BY Zenon DEF SlurmInv, Live
  <2>4. QED
    BY Zenon, <2>2, <2>3, Reported
<1>2. QED
  BY <1>1, SlurmInvariant, PTL

(* A cancellation that failed is reported: without an error, every job the *)
(* target had when the round began was cancelled or has ended, unless      *)
(* scancel failed without a word.                                          *)
THEOREM CancellationIsNotLost == SlurmSpec => []CancelNotLost
<1>1. SlurmInv => CancelNotLost
  <2> SUFFICES ASSUME SlurmInv, roundAt = "reported", status.round, target.cancel, ~status.cancelError,
                      Spoken, NEW j \in Jobs, Targeted(j), "NONE" \notin seen[j]
               PROVE  seen[j] \cap {"CANCELLED", "COMPLETED", "TIMEOUT"} # {}
    BY Zenon DEF CancelNotLost, Spoken
  <2>1. status # NoStatus
    BY Zenon, NoStatusFields
  <2>2. PICK n \in {0, 1}, e \in Nat :
            CancelPart(n) /\ QueuePart(n, e) /\ AccountingPart(e) /\ status = parseStatuses(output, target)
    BY Zenon, <2>1, ReportOf
  <2>3. Shapes /\ ClusterInv
    BY Zenon DEF SlurmInv
  <2>4. n # 1
    BY Zenon, <2>2, <2>3, Reported
  <2>5. n = 0
    BY Zenon, <2>4
  <2>6. QED
    BY Zenon, <2>2, <2>5 DEF CancelPart
<1>2. QED
  BY <1>1, SlurmInvariant, PTL
=============================================================================
