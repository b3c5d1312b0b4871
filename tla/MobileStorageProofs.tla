-------------------------- MODULE MobileStorageProofs --------------------------
(***************************************************************************)
(* For any number of changes, wherever they are made and however they      *)
(* overlap: what the mobile app stores.  Every step moves the queue of     *)
(* AsyncStorage in one way: one operation leaves it, or none, and one      *)
(* joins it, or none.  The lemmas on Moves say what that leaves of the     *)
(* others; the invariants, of records, changes, preferences and sound      *)
(* files in turn, are about who is in the queue and in which order.        *)
(***************************************************************************)
EXTENDS MobileProofs

OpKinds == {"hydrate", "load", "patch", "write", "pref"}

Shape(op) == op \in [kind : OpKinds, rec : {op.rec}, val : {op.val}, here : BOOLEAN, alone : BOOLEAN]

Sequence == \E S : ops \in Seq(S)

\* The queue's operations, and in which order they can be: hydrations first, of records of
\* their own each; one load at most, the mounted screen's.
Queue ==
  /\ Sequence
  /\ \A i \in DOMAIN ops : Shape(ops[i])
  /\ \A i, j \in DOMAIN ops : ops[i].kind = "hydrate" /\ ops[j].kind # "hydrate" => i < j
  /\ \A i, j \in DOMAIN ops : ops[i].kind = "hydrate" /\ ops[j].kind = "hydrate" /\ i # j
                                => ops[i].val \cap ops[j].val = {}
  /\ \A i, j \in Loads : i = j

-----------------------------------------------------------------------------
(* The queue moves: one operation leaves it, or none, and one joins it, or none *)

Alike(a, b) ==
  /\ Shape(a) /\ a.kind = b.kind /\ a.rec = b.rec /\ a.val = b.val
  /\ (a.here => b.here) /\ (a.alone => b.alone)

\* How many of the operations stay when the k-th leaves, 0 for none, and where they were.
Staying(k) == IF k = 0 THEN Len(ops) ELSE Len(ops) - 1
Was(k, i)  == IF k = 0 \/ i < k THEN i ELSE i + 1

Moves(k, joins) ==
  /\ Sequence' /\ Len(ops) \in Nat /\ DOMAIN ops = 1..Len(ops)
  /\ k \in 0..Len(ops) /\ joins \in {0, 1}
  /\ DOMAIN ops' = 1..(Staying(k) + joins)
  /\ \A i \in 1..Staying(k) : Alike(ops'[i], ops[Was(k, i)])

Newest(k) == ops'[Staying(k) + 1]

\* Those who stay belong to the screen they belonged to.
Seated(k) == \A i \in 1..Staying(k) : ops'[i].here = ops[Was(k, i)].here

LEMMA NoneMoves ==
  ASSUME Queue, UNCHANGED ops
  PROVE  Moves(0, 0) /\ Seated(0)
<1>1. PICK S : ops \in Seq(S)
  BY DEF Queue, Sequence
<1>2. Len(ops) \in Nat /\ DOMAIN ops = 1..Len(ops) /\ Sequence'
  BY <1>1 DEF Sequence
<1> QED
  BY <1>2 DEF Moves, Seated, Staying, Was, Alike, Queue, Shape

LEMMA HeadLeaves ==
  ASSUME Queue, ops # <<>>, ops' = Tail(ops)
  PROVE  Moves(1, 0) /\ Seated(1) /\ Head(ops) = ops[1] /\ 1 \in DOMAIN ops
<1>1. PICK S : ops \in Seq(S)
  BY DEF Queue, Sequence
<1>2. /\ Len(ops) \in Nat \ {0} /\ DOMAIN ops = 1..Len(ops) /\ ops' \in Seq(S) /\ Head(ops) = ops[1]
      /\ DOMAIN ops' = 1..(Len(ops) - 1) /\ \A i \in 1..(Len(ops) - 1) : ops'[i] = ops[i + 1]
  BY <1>1
<1> QED
  BY <1>2 DEF Moves, Seated, Staying, Was, Alike, Queue, Shape, Sequence

LEMMA HeadLeavesOneJoins ==
  ASSUME Queue, ops # <<>>, NEW op, ops' = Append(Tail(ops), op)
  PROVE  Moves(1, 1) /\ Seated(1) /\ Newest(1) = op /\ Head(ops) = ops[1] /\ 1 \in DOMAIN ops
<1>1. PICK S : ops \in Seq(S)
  BY DEF Queue, Sequence
<1>2. PICK n \in Nat : n = Len(ops) - 1
  BY <1>1
<1>3. /\ Len(ops) = n + 1 /\ DOMAIN ops = 1..Len(ops) /\ Head(ops) = ops[1]
      /\ Tail(ops) \in Seq(S \cup {op}) /\ Len(Tail(ops)) = n
      /\ \A i \in 1..n : Tail(ops)[i] = ops[i + 1]
  BY <1>1, <1>2
<1>4. /\ ops' \in Seq(S \cup {op}) /\ DOMAIN ops' = 1..(n + 1) /\ ops'[n + 1] = op
      /\ \A i \in 1..n : ops'[i] = ops[i + 1]
  BY <1>3
<1> QED
  BY <1>3, <1>4 DEF Moves, Seated, Staying, Was, Alike, Newest, Queue, Shape, Sequence

LEMMA OneJoins ==
  ASSUME Queue, NEW op, ops' = Append(ops, op)
  PROVE  Moves(0, 1) /\ Seated(0) /\ Newest(0) = op
<1>1. PICK S : ops \in Seq(S)
  BY DEF Queue, Sequence
<1>2. ops \in Seq(S \cup {op}) /\ Len(ops) \in Nat /\ DOMAIN ops = 1..Len(ops)
  BY <1>1
<1>3. /\ ops' \in Seq(S \cup {op}) /\ DOMAIN ops' = 1..(Len(ops) + 1) /\ ops'[Len(ops) + 1] = op
      /\ \A i \in 1..Len(ops) : ops'[i] = ops[i]
  BY <1>2
<1> QED
  BY <1>2, <1>3 DEF Moves, Seated, Staying, Was, Alike, Newest, Queue, Shape, Sequence

\* A change is asked for: those of its record are no longer alone.
LEMMA PatchJoins ==
  ASSUME Queue, NEW r, NEW patch, ops' = WithPatch(r, patch)
  PROVE  /\ Moves(0, 1) /\ Seated(0)
         /\ \A i \in DOMAIN ops : ops[i].rec = r => ~ops'[i].alone
         /\ Shape(Newest(0)) /\ Newest(0).kind = "patch" /\ Newest(0).rec = r /\ Newest(0).val = patch
         /\ Newest(0).here /\ Newest(0).alone = ~Changing(r)
<1> DEFINE others == [i \in DOMAIN ops |-> IF ops[i].rec = r THEN [ops[i] EXCEPT !.alone = FALSE] ELSE ops[i]]
           op == [Op("patch", r, patch) EXCEPT !.alone = ~Changing(r)]
<1>1. PICK S : ops \in Seq(S)
  BY DEF Queue, Sequence
<1>2. Len(ops) \in Nat /\ DOMAIN ops = 1..Len(ops)
  BY <1>1
<1>3. ASSUME NEW i \in DOMAIN ops
      PROVE  Alike(others[i], ops[i]) /\ others[i].here = ops[i].here /\ (ops[i].rec = r => ~others[i].alone)
  BY DEF Queue, Shape, Alike
<1>4. /\ Shape(op) /\ op.kind = "patch" /\ op.rec = r /\ op.val = patch /\ op.here /\ op.alone = ~Changing(r)
  <2>1. Changing(r) \in BOOLEAN
    BY DEF Changing
  <2> QED
    BY <2>1 DEF Op, Shape, OpKinds
<1>5. /\ DOMAIN others = DOMAIN ops /\ ops' = Append(others, op)
  BY DEF WithPatch
<1>6. PICK T : others \in Seq(T) /\ op \in T
  <2>1. \A i \in 1..Len(ops) : others[i] \in {others[j] : j \in 1..Len(ops)} \cup {op}
    BY <1>2
  <2>2. others = [i \in 1..Len(ops) |-> others[i]]
    BY <1>2
  <2> HIDE DEF others, op
  <2>3. others \in Seq({others[j] : j \in 1..Len(ops)} \cup {op})
    BY <1>2, <2>1, <2>2
  <2> QED
    BY <2>3
<1> HIDE DEF others, op
<1>7. /\ ops' \in Seq(T) /\ DOMAIN ops' = 1..(Len(ops) + 1) /\ ops'[Len(ops) + 1] = op
      /\ \A i \in 1..Len(ops) : ops'[i] = others[i]
  BY <1>2, <1>5, <1>6
<1>8. Moves(0, 1) /\ Seated(0)
  BY <1>2, <1>3, <1>7 DEF Moves, Seated, Staying, Was, Sequence
<1> QED
  BY <1>2, <1>3, <1>4, <1>7, <1>8 DEF Newest, Staying

\* A screen is left, with the load it waits for; the next may load.
LEMMA VisitMoves ==
  ASSUME Queue, NEW screen, VisitStorage(screen)
  PROVE  \E k \in Nat :
           /\ Moves(k, IF screen \in ScreenRecords THEN 1 ELSE 0)
           /\ IF Loads = {} THEN k = 0 ELSE k \in Loads
           /\ \A i \in 1..Staying(k) : ~ops'[i].here
           /\ screen \in ScreenRecords => Newest(k) = Op("load", screen, Unset)
<1> DEFINE left == [i \in DOMAIN ops |-> [ops[i] EXCEPT !.here = FALSE]]
           gone == CHOOSE i \in Loads : TRUE
           kept == IF Loads = {} THEN left ELSE Without(left, gone)
           op   == Op("load", screen, Unset)
<1>1. PICK S : ops \in Seq(S)
  BY DEF Queue, Sequence
<1>2. Len(ops) \in Nat /\ DOMAIN ops = 1..Len(ops)
  BY <1>1
<1>3. PICK k \in Nat : (IF Loads = {} THEN k = 0 ELSE k \in Loads /\ k = gone) /\ k \in 0..Len(ops)
  BY <1>2 DEF Loads
<1>4. \A i \in DOMAIN ops : Alike(left[i], ops[i]) /\ ~left[i].here
  BY DEF Queue, Shape, Alike
<1>5. ops' = IF screen \in ScreenRecords THEN Append(kept, op) ELSE kept
  BY DEF VisitStorage
<1>6. /\ DOMAIN left = DOMAIN ops /\ Len(left) = Len(ops)
      /\ left \in Seq({left[i] : i \in DOMAIN ops})
  <2>1. left = [i \in 1..Len(ops) |-> left[i]] /\ \A i \in 1..Len(ops) : left[i] \in {left[j] : j \in DOMAIN ops}
    BY <1>2
  <2> HIDE DEF left
  <2> QED
    BY <1>2, <2>1
<1>a. Loads # {} => k \in 1..Len(ops)
  BY <1>2, <1>3 DEF Loads
<1>7. PICK n \in Nat : n = Staying(k)
  <2>1. Staying(k) \in Nat
    BY <1>2, <1>3, <1>a DEF Staying
  <2> QED
    BY <2>1
<1>8. /\ DOMAIN kept = 1..n /\ \A i \in 1..n : kept[i] = left[Was(k, i)] /\ Was(k, i) \in DOMAIN ops
      /\ kept = [i \in 1..n |-> kept[i]]
  <2>1. CASE Loads = {}
    <3>1. kept = left /\ k = 0 /\ n = Len(ops)
      BY <1>3, <1>7, <2>1 DEF Staying
    <3> HIDE DEF left, kept
    <3> QED
      BY <1>2, <1>6, <3>1 DEF Was
  <2>2. CASE Loads # {}
    <3>0. k \in 1..Len(ops)
      BY <1>a, <2>2
    <3>1. n = Len(ops) - 1
      <4>1. k # 0
        BY <1>2, <3>0
      <4> QED
        BY <1>7, <4>1 DEF Staying
    <3>2. kept = Without(left, gone)
      BY <2>2
    <3>3. k = gone
      BY <1>3, <2>2
    <3> HIDE DEF left, kept, gone
    <3>4. kept = [i \in 1..n |-> left[IF i < k THEN i ELSE i + 1]]
      BY <1>6, <3>0, <3>1, <3>2, <3>3 DEF Without
    <3> QED
      BY <1>2, <3>0, <3>1, <3>4 DEF Was
  <2> QED
    BY <2>1, <2>2
<1>9. PICK T : kept \in Seq(T) /\ op \in T /\ Len(kept) = n
  <2>1. \A i \in 1..n : kept[i] \in {kept[j] : j \in 1..n} \cup {op}
    OBVIOUS
  <2> HIDE DEF kept, op
  <2>2. kept \in Seq({kept[j] : j \in 1..n} \cup {op}) /\ Len(kept) = n
    BY <1>8, <2>1
  <2> QED
    BY <2>2
<1> HIDE DEF left, kept, op, gone
<1>10. /\ ops' \in Seq(T) /\ DOMAIN ops' = 1..(n + IF screen \in ScreenRecords THEN 1 ELSE 0)
       /\ \A i \in 1..n : ops'[i] = kept[i]
       /\ screen \in ScreenRecords => ops'[n + 1] = op
  BY <1>5, <1>9
<1>11. \A i \in 1..n : Alike(ops'[i], ops[Was(k, i)]) /\ ~ops'[i].here
  BY <1>4, <1>8, <1>10
<1>12. Moves(k, IF screen \in ScreenRecords THEN 1 ELSE 0)
  BY <1>2, <1>3, <1>7, <1>10, <1>11 DEF Moves, Sequence
<1> QED
  BY <1>3, <1>7, <1>10, <1>11, <1>12 DEF Newest, op

\* At launch.
LEMMA Launches ==
  /\ Hydrations \in Seq({Hydrations[1], Hydrations[2], Hydrations[3]})
  /\ DOMAIN Hydrations = {1, 2, 3}
  /\ Hydrations[1] = Op("hydrate", "launch", {"locale"})
  /\ Hydrations[2] = Op("hydrate", "launch", ThemeRecords)
  /\ Hydrations[3] = Op("hydrate", "launch", {"sound"})
  BY DEF Hydrations

\* Where the operations of the moved queue were.
Stay(k) == 1..Staying(k)
End(k)  == Staying(k) + 1

LEMMA Places ==
  ASSUME NEW k, NEW joins, Moves(k, joins)
  PROVE  /\ DOMAIN ops' = IF joins = 1 THEN Stay(k) \cup {End(k)} ELSE Stay(k)
         /\ End(k) \in Nat /\ \A i \in Stay(k) : i \in Nat /\ i < End(k)
         /\ \A i \in Stay(k) : Alike(ops'[i], ops[Was(k, i)]) /\ Was(k, i) \in DOMAIN ops \ {k} /\ Was(k, i) \in Nat
         /\ \A i, j \in Stay(k) : (i < j <=> Was(k, i) < Was(k, j)) /\ (i = j <=> Was(k, i) = Was(k, j))
         /\ \A j \in DOMAIN ops \ {k} : \E i \in Stay(k) : Was(k, i) = j
         /\ joins \in {0, 1} /\ Sequence'
<1>1. /\ Len(ops) \in Nat /\ DOMAIN ops = 1..Len(ops) /\ k \in 0..Len(ops) /\ joins \in {0, 1} /\ Sequence'
      /\ DOMAIN ops' = 1..(Staying(k) + joins)
      /\ \A i \in 1..Staying(k) : Alike(ops'[i], ops[Was(k, i)])
  BY DEF Moves
<1>2. PICK n \in Nat : n = Len(ops)
  BY <1>1
<1>3. DOMAIN ops = 1..n /\ k \in 0..n
  BY <1>1, <1>2
<1>4. CASE k = 0
  <2>1. Staying(k) = n /\ End(k) = n + 1 /\ Stay(k) = 1..n
    BY <1>2, <1>4 DEF Staying, Stay, End
  <2>2. \A i : Was(k, i) = i
    BY <1>4 DEF Was
  <2>3. DOMAIN ops' = IF joins = 1 THEN 1..n \cup {n + 1} ELSE 1..n
    <3>1. CASE joins = 1
      BY <1>1, <2>1, <3>1
    <3>2. CASE joins = 0
      BY <1>1, <2>1, <3>2
    <3> QED
      BY <1>1, <3>1, <3>2
  <2>4. /\ n + 1 \in Nat /\ \A i \in 1..n : i \in Nat /\ i < n + 1
        /\ \A i \in 1..n : i \in (1..n) \ {k}
        /\ (1..n) \ {k} = 1..n
    BY <1>4
  <2> QED
    BY <1>1, <1>3, <2>1, <2>2, <2>3, <2>4
<1>5. CASE k # 0
  <2>0. k \in 1..n /\ n - 1 \in Nat
    BY <1>3, <1>5
  <2>1. Staying(k) = n - 1 /\ End(k) = n /\ Stay(k) = 1..(n - 1)
    BY <1>2, <1>5 DEF Staying, Stay, End
  <2>2. \A i : Was(k, i) = IF i < k THEN i ELSE i + 1
    BY <1>5 DEF Was
  <2>3. DOMAIN ops' = IF joins = 1 THEN 1..(n - 1) \cup {n} ELSE 1..(n - 1)
    <3>1. CASE joins = 1
      BY <1>1, <2>0, <2>1, <3>1
    <3>2. CASE joins = 0
      BY <1>1, <2>0, <2>1, <3>2
    <3> QED
      BY <1>1, <3>1, <3>2
  <2>4. /\ \A i \in 1..(n - 1) : i \in Nat /\ i < n
        /\ \A i \in 1..(n - 1) : LET w == IF i < k THEN i ELSE i + 1 IN w \in (1..n) \ {k} /\ w \in Nat
    BY <2>0
  <2>5. \A i, j \in 1..(n - 1) : LET w == IF i < k THEN i ELSE i + 1
                                      v == IF j < k THEN j ELSE j + 1
                                  IN  (i < j <=> w < v) /\ (i = j <=> w = v)
    BY <2>0
  <2>6. ASSUME NEW j \in (1..n) \ {k} PROVE \E i \in 1..(n - 1) : (IF i < k THEN i ELSE i + 1) = j
    <3>1. CASE j < k
      BY <2>0, <3>1
    <3>2. CASE ~(j < k)
      <4>1. j - 1 \in 1..(n - 1) /\ ~(j - 1 < k) /\ (j - 1) + 1 = j
        BY <2>0, <2>6, <3>2
      <4> QED
        BY <4>1
    <3> QED
      BY <3>1, <3>2
  <2>7. \A j \in (1..n) \ {k} : \E i \in Stay(k) : Was(k, i) = j
    BY <2>1, <2>2, <2>6
  <2>8. \A i \in Stay(k) : Alike(ops'[i], ops[Was(k, i)]) /\ Was(k, i) \in DOMAIN ops \ {k} /\ Was(k, i) \in Nat
    BY <1>1, <1>3, <2>1, <2>2, <2>4
  <2>9. \A i, j \in Stay(k) : (i < j <=> Was(k, i) < Was(k, j)) /\ (i = j <=> Was(k, i) = Was(k, j))
    BY <2>1, <2>2, <2>5
  <2> QED
    BY <1>1, <1>3, <2>1, <2>3, <2>4, <2>7, <2>8, <2>9
<1> QED
  BY <1>4, <1>5

LEMMA NoneJoins == ASSUME NEW k, Moves(k, 0) PROVE \A i \in DOMAIN ops' : i \in Stay(k)
<1>1. DOMAIN ops' = IF 0 = 1 THEN Stay(k) \cup {End(k)} ELSE Stay(k)
  BY Places
<1> QED
  BY <1>1

LEMMA QueueMoves ==
  ASSUME Queue, NEW k, NEW joins, Moves(k, joins),
         joins = 1 => /\ Shape(Newest(k)) /\ Newest(k).kind # "hydrate"
                      /\ Newest(k).kind = "load" => Loads \subseteq {k}
  PROVE  Queue'
<1>0. /\ DOMAIN ops' = IF joins = 1 THEN Stay(k) \cup {End(k)} ELSE Stay(k)
      /\ End(k) \in Nat /\ \A i \in Stay(k) : i \in Nat /\ i < End(k)
      /\ \A i, j \in Stay(k) : (i < j <=> Was(k, i) < Was(k, j)) /\ (i = j <=> Was(k, i) = Was(k, j))
      /\ Sequence'
  BY Places
<1>1. \A i \in DOMAIN ops' : i \in Stay(k) \/ (joins = 1 /\ i = End(k) /\ ops'[i] = Newest(k))
  BY <1>0 DEF Newest, End
<1>3. \A i \in Stay(k) : /\ ops'[i].kind = ops[Was(k, i)].kind /\ ops'[i].val = ops[Was(k, i)].val
                         /\ Was(k, i) \in DOMAIN ops \ {k} /\ Shape(ops'[i])
  BY Places DEF Alike
<1>2. \A i \in DOMAIN ops' : Shape(ops'[i])
  BY <1>1, <1>3
<1>4. ASSUME NEW i \in DOMAIN ops', NEW j \in DOMAIN ops', ops'[i].kind = "hydrate", ops'[j].kind # "hydrate"
      PROVE  i < j
  <2>1. i \in Stay(k)
    BY <1>1, <1>4
  <2>2. CASE j \in Stay(k)
    BY <1>3, <1>4, <2>1, <2>2, <1>0 DEF Queue
  <2>3. CASE j = End(k)
    BY <2>1, <2>3, <1>0
  <2> QED
    BY <1>1, <2>2, <2>3
<1>5. ASSUME NEW i \in DOMAIN ops', NEW j \in DOMAIN ops', ops'[i].kind = "hydrate", ops'[j].kind = "hydrate", i # j
      PROVE  ops'[i].val \cap ops'[j].val = {}
  <2>1. i \in Stay(k) /\ j \in Stay(k)
    BY <1>1, <1>5
  <2>2. Was(k, i) # Was(k, j)
    BY <1>0, <1>5, <2>1
  <2> QED
    BY <1>3, <1>5, <2>1, <2>2 DEF Queue
<1>6. ASSUME NEW i \in Loads', NEW j \in Loads' PROVE i = j
  <2>1. /\ i \in DOMAIN ops' /\ j \in DOMAIN ops' /\ ops'[i].kind = "load" /\ ops'[j].kind = "load"
    BY DEF Loads
  <2>2. CASE i \in Stay(k) /\ j \in Stay(k)
    <3>1. Was(k, i) \in Loads /\ Was(k, j) \in Loads
      BY <1>3, <2>1, <2>2 DEF Loads
    <3> QED
      BY <1>0, <2>2, <3>1 DEF Queue
  <2>3. ASSUME NEW x \in Stay(k), ops'[x].kind = "load", joins = 1, Newest(k).kind = "load" PROVE FALSE
    <3>1. Was(k, x) \in Loads /\ Was(k, x) # k
      BY <1>3, <2>3 DEF Loads
    <3> QED
      BY <2>3, <3>1
  <2> QED
    BY <1>1, <2>1, <2>2, <2>3
<1> QED
  BY <1>2, <1>4, <1>5, <1>6, <1>0 DEF Queue

-----------------------------------------------------------------------------
(* What is stored, held and shown *)

FieldsOf(r) == DOMAIN DefaultRecord[r]

Counters == {"passkeyCount", "reviews"}

RecordOK(r, it) ==
  it \in [FieldsOf(r) -> FieldValues] /\ \A f \in FieldsOf(r) \cap Counters : it[f] \in Nat

PatchOK(r, it) ==
  DOMAIN it \subseteq FieldsOf(r) /\ \A f \in DOMAIN it : it[f] \in FieldValues /\ (f \in Counters => it[f] \in Nat)

\* An operation, while a screen is mounted.
OpOK(op, screen) ==
  /\ op.kind = "hydrate" => op.rec = "launch" /\ op.val \subseteq Prefs
  /\ op.kind \in {"load", "patch", "write"} => op.rec \in ScreenRecords /\ (op.here => op.rec = screen)
  /\ op.kind = "load" => op.here
  /\ op.kind = "patch" => PatchOK(op.rec, op.val)
  /\ op.kind = "write" => RecordOK(op.rec, op.val.record) /\ PatchOK(op.rec, op.val.asked)
  /\ op.kind = "pref" => op.rec \in Prefs /\ op.val \in PrefValues[op.rec]

DiskOK ==
  /\ disk = [r \in Records |-> disk[r]]
  /\ \A r \in ScreenRecords : disk[r] # Unset => RecordOK(r, disk[r])
  /\ \A p \in Prefs : disk[p] # Unset => disk[p] \in PrefValues[p]

MemOK == mem = [p \in Prefs |-> mem[p]] /\ \A p \in Prefs : mem[p] \in PrefValues[p]

ScreenOK == copy # Unset => Mounted \in ScreenRecords /\ RecordOK(Mounted, copy)

SettledOK == settled = [r \in ScreenRecords |-> settled[r]] /\ \A r \in ScreenRecords : DOMAIN settled[r] \subseteq FieldsOf(r)

JobsOK == /\ jobs \subseteq [kind : {"import", "clear"}, stage : {"pick", "remove", "record"}, was : SoundRecords,
                             new : Nat \cup {Unset}]
          /\ files \in Seq(BOOLEAN)

OpsOK == \A i \in DOMAIN ops : OpOK(ops[i], Mounted)

StoreInv == Queue /\ OpsOK /\ DiskOK /\ MemOK /\ ScreenOK /\ SettledOK /\ JobsOK

\* The operations that stay are as they were, if the screen does.
LEMMA OpsMove ==
  ASSUME OpsOK, NEW k, NEW joins, Moves(k, joins), Mounted' = Mounted, joins = 1 => OpOK(Newest(k), Mounted),
         Seated(k)
  PROVE  OpsOK'
<1>0. DOMAIN ops' = IF joins = 1 THEN Stay(k) \cup {End(k)} ELSE Stay(k)
  BY Places
<1>1. \A i \in DOMAIN ops' : i \in Stay(k) \/ (joins = 1 /\ ops'[i] = Newest(k))
  BY <1>0 DEF Newest, End
<1>2. ASSUME NEW i \in Stay(k) PROVE OpOK(ops'[i], Mounted)
  <2>1. Alike(ops'[i], ops[Was(k, i)]) /\ OpOK(ops[Was(k, i)], Mounted)
    BY Places DEF OpsOK
  <2> QED
    BY <2>1 DEF Alike, OpOK, Seated, Stay
<1> QED
  BY <1>1, <1>2 DEF OpsOK

LEMMA OpsStep ==
  ASSUME Queue, OpsOK, NEW k, NEW joins, Moves(k, joins), Seated(k), Mounted' = Mounted,
         joins = 1 => /\ Shape(Newest(k)) /\ Newest(k).kind \in {"patch", "write", "pref"}
                      /\ OpOK(Newest(k), Mounted)
  PROVE  Queue' /\ OpsOK'
BY QueueMoves, OpsMove

\* At launch and at every relaunch.
LEMMA LaunchedOps ==
  \A i \in DOMAIN Hydrations : \A screen :
    Shape(Hydrations[i]) /\ Hydrations[i].kind = "hydrate" /\ OpOK(Hydrations[i], screen)
<1>1. ASSUME NEW val \in SUBSET Prefs, NEW screen, NEW op, op = Op("hydrate", "launch", val)
      PROVE  Shape(op) /\ op.kind = "hydrate" /\ OpOK(op, screen)
  <2>1. /\ op.kind = "hydrate" /\ op.rec = "launch" /\ op.val = val
        /\ op = [kind |-> op.kind, rec |-> op.rec, val |-> op.val, here |-> op.here, alone |-> op.alone]
        /\ op.here \in BOOLEAN /\ op.alone \in BOOLEAN
    BY <1>1 DEF Op
  <2> QED
    BY <2>1 DEF Shape, OpKinds, OpOK
<1>2. {"locale"} \in SUBSET Prefs /\ ThemeRecords \in SUBSET Prefs /\ {"sound"} \in SUBSET Prefs
  BY DEF Prefs
<1> QED
  BY <1>1, <1>2, Launches

LEMMA HydrationsApart ==
  \A i, j \in DOMAIN Hydrations : i # j => Hydrations[i].val \cap Hydrations[j].val = {}
BY Launches DEF Op, ThemeRecords

LEMMA QueueAtLaunch ==
  (ops = Hydrations => Queue /\ OpsOK) /\ (ops' = Hydrations => Queue' /\ OpsOK')
<1>1. \E S : Hydrations \in Seq(S)
  BY Launches
<1>2. ASSUME ops = Hydrations PROVE Queue /\ OpsOK
  <2>1. Loads = {}
    BY <1>2, LaunchedOps DEF Loads
  <2> QED
    BY <1>1, <1>2, <2>1, LaunchedOps, HydrationsApart DEF Queue, OpsOK, Sequence
<1>3. ASSUME ops' = Hydrations PROVE Queue' /\ OpsOK'
  <2>1. Loads' = {}
    BY <1>3, LaunchedOps DEF Loads
  <2> QED
    BY <1>1, <1>3, <2>1, LaunchedOps, HydrationsApart DEF Queue, OpsOK, Sequence
<1> QED
  BY <1>2, <1>3

-----------------------------------------------------------------------------
(* Records and patches *)

LEMMA YesNo == TRUE \in FieldValues /\ FALSE \in FieldValues /\ \A x : (~x) \in FieldValues
<1>1. \A x : (~x) \in BOOLEAN
  OBVIOUS
<1> QED
  BY <1>1, Zenon DEF FieldValues

LEMMA SecurityFields ==
  FieldsOf("security") = {"passkeysEnabled", "passkeyCount", "otherDevice", "biometricsEnabled", "pinEnabled",
                          "pinSet", "daily", "monthly", "newRecipient", "simChangeAlerts", "recoveryContact",
                          "camera", "mic", "tipsSeen"}
<1>1. ASSUME NEW yes, NEW no
      PROVE  DOMAIN [passkeysEnabled |-> yes, passkeyCount |-> 1, otherDevice |-> yes, biometricsEnabled |-> yes,
                     pinEnabled |-> yes, pinSet |-> yes, daily |-> "usual", monthly |-> "usual",
                     newRecipient |-> "usual", simChangeAlerts |-> yes, recoveryContact |-> yes,
                     camera |-> yes, mic |-> yes, tipsSeen |-> no]
             = {"passkeysEnabled", "passkeyCount", "otherDevice", "biometricsEnabled", "pinEnabled",
                "pinSet", "daily", "monthly", "newRecipient", "simChangeAlerts", "recoveryContact",
                "camera", "mic", "tipsSeen"}
  OBVIOUS
<1>2. DefaultRecord["security"] = DefaultSecurity
  BY DEF DefaultRecord
<1> QED
  BY <1>1, <1>2, Zenon DEF FieldsOf, DefaultSecurity

LEMMA DefaultSecurityOK == RecordOK("security", DefaultSecurity)
<1>1. ASSUME NEW yes \in FieldValues, NEW no \in FieldValues, NEW it,
             it = [passkeysEnabled |-> yes, passkeyCount |-> 1, otherDevice |-> yes, biometricsEnabled |-> yes,
                   pinEnabled |-> yes, pinSet |-> yes, daily |-> "usual", monthly |-> "usual",
                   newRecipient |-> "usual", simChangeAlerts |-> yes, recoveryContact |-> yes,
                   camera |-> yes, mic |-> yes, tipsSeen |-> no]
      PROVE  RecordOK("security", it)
  <2>1. 1 \in FieldValues /\ "usual" \in FieldValues
    BY DEF FieldValues
  <2>2. it = [f \in FieldsOf("security") |-> it[f]]
    BY <1>1, SecurityFields
  <2>3. \A f \in FieldsOf("security") : it[f] \in FieldValues
    BY <1>1, <2>1, SecurityFields
  <2>4. FieldsOf("security") \cap Counters = {"passkeyCount"} /\ it["passkeyCount"] = 1
    BY <1>1, SecurityFields DEF Counters
  <2> QED
    BY <2>2, <2>3, <2>4 DEF RecordOK
<1> QED
  BY <1>1, YesNo, Zenon DEF DefaultSecurity

LEMMA DefaultsOK == \A r \in ScreenRecords : RecordOK(r, DefaultRecord[r])
<1>1. RecordOK("identity", DefaultIdentity)
  BY DEF RecordOK, FieldsOf, Counters, DefaultRecord, DefaultIdentity, FieldValues
<1>2. DefaultRecord["security"] = DefaultSecurity /\ DefaultRecord["identity"] = DefaultIdentity
  BY DEF DefaultRecord
<1> QED
  BY <1>1, <1>2, DefaultSecurityOK DEF ScreenRecords

LEMMA StoredOK == ASSUME DiskOK, NEW r \in ScreenRecords PROVE RecordOK(r, Stored(r))
BY DefaultsOK DEF DiskOK, Stored

LEMMA RecordIsThere == ASSUME NEW r \in ScreenRecords, NEW it, RecordOK(r, it) PROVE it # Unset
BY UnsetAssumption DEF RecordOK, FieldsOf

LEMMA MergeOK ==
  ASSUME NEW r \in ScreenRecords, NEW it, NEW patch, RecordOK(r, it), PatchOK(r, patch)
  PROVE  RecordOK(r, Merge(it, patch))
BY DEF RecordOK, PatchOK, Merge, FieldsOf

LEMMA SecurityPatchOK ==
  ASSUME NEW sec, RecordOK("security", sec), NEW patch \in SecurityPatches(sec)
  PROVE  PatchOK("security", patch)
<1>1. sec.passkeyCount + 1 \in Nat
  BY SecurityFields DEF RecordOK, Counters
<1>2. \A f \in FieldsOf("security") \ {"passkeyCount"} : f \notin Counters
  BY SecurityFields DEF Counters
<1>3. ASSUME NEW f \in FieldsOf("security"), NEW v \in FieldValues, f = "passkeyCount" => v \in Nat
      PROVE  PatchOK("security", [g \in {f} |-> v])
  BY <1>2, <1>3 DEF PatchOK
<1>4. \A v : /\ [passkeysEnabled |-> v] = [g \in {"passkeysEnabled"} |-> v]
             /\ [passkeyCount |-> v] = [g \in {"passkeyCount"} |-> v]
             /\ [otherDevice |-> v] = [g \in {"otherDevice"} |-> v]
             /\ [biometricsEnabled |-> v] = [g \in {"biometricsEnabled"} |-> v]
             /\ [pinEnabled |-> v] = [g \in {"pinEnabled"} |-> v]
             /\ [daily |-> v] = [g \in {"daily"} |-> v]
             /\ [monthly |-> v] = [g \in {"monthly"} |-> v]
             /\ [newRecipient |-> v] = [g \in {"newRecipient"} |-> v]
             /\ [simChangeAlerts |-> v] = [g \in {"simChangeAlerts"} |-> v]
             /\ [recoveryContact |-> v] = [g \in {"recoveryContact"} |-> v]
             /\ [camera |-> v] = [g \in {"camera"} |-> v]
             /\ [mic |-> v] = [g \in {"mic"} |-> v]
             /\ [tipsSeen |-> v] = [g \in {"tipsSeen"} |-> v]
  OBVIOUS
<1>5. PatchOK("security", [pinSet |-> TRUE, pinEnabled |-> TRUE])
  <2>1. ASSUME NEW v \in FieldValues PROVE PatchOK("security", [pinSet |-> v, pinEnabled |-> v])
    BY SecurityFields, <2>1 DEF PatchOK, Counters
  <2> QED
    BY <2>1, YesNo, Zenon
<1>6. \/ patch \in PasskeyPanel(sec) \/ patch \in DevicePanel(sec) \/ patch \in BiometryPanel(sec)
      \/ patch \in PinPanel(sec) \/ patch \in LimitPanel(sec) \/ patch \in SimPanel(sec)
      \/ patch \in RecoveryPanel(sec) \/ patch \in PrivacyPanel(sec) \/ patch \in TipsPanel(sec)
  BY DEF SecurityPatches
<1>7. ASSUME NEW v \in FieldValues
      PROVE  /\ PatchOK("security", [passkeysEnabled |-> v]) /\ PatchOK("security", [otherDevice |-> v])
             /\ PatchOK("security", [biometricsEnabled |-> v]) /\ PatchOK("security", [pinEnabled |-> v])
             /\ PatchOK("security", [daily |-> v]) /\ PatchOK("security", [monthly |-> v])
             /\ PatchOK("security", [newRecipient |-> v]) /\ PatchOK("security", [simChangeAlerts |-> v])
             /\ PatchOK("security", [recoveryContact |-> v]) /\ PatchOK("security", [camera |-> v])
             /\ PatchOK("security", [mic |-> v]) /\ PatchOK("security", [tipsSeen |-> v])
  BY <1>3, <1>4, <1>7, SecurityFields
<1>8. PatchOK("security", [passkeyCount |-> sec.passkeyCount + 1])
  <2>1. sec.passkeyCount + 1 \in FieldValues
    BY <1>1 DEF FieldValues
  <2> QED
    BY <1>1, <1>3, <1>4, <2>1, SecurityFields
<1>9. "other" \in FieldValues
  BY DEF FieldValues
<1>10. CASE patch \in PasskeyPanel(sec)
  BY <1>7, <1>8, <1>10, YesNo, Zenon DEF PasskeyPanel
<1>11. CASE patch \in DevicePanel(sec)
  BY <1>7, <1>11, YesNo, Zenon DEF DevicePanel
<1>12. CASE patch \in BiometryPanel(sec) \/ patch \in SimPanel(sec) \/ patch \in RecoveryPanel(sec)
  BY <1>7, <1>12, YesNo, Zenon DEF BiometryPanel, SimPanel, RecoveryPanel
<1>13. CASE patch \in PinPanel(sec)
  BY <1>5, <1>7, <1>13, YesNo, Zenon DEF PinPanel
<1>14. CASE patch \in LimitPanel(sec)
  BY <1>7, <1>9, <1>14, Zenon DEF LimitPanel
<1>15. CASE patch \in PrivacyPanel(sec) \/ patch \in TipsPanel(sec)
  BY <1>7, <1>15, YesNo, Zenon DEF PrivacyPanel, TipsPanel
<1> QED
  BY <1>6, <1>10, <1>11, <1>12, <1>13, <1>14, <1>15

LEMMA IdentityPatchOK ==
  ASSUME NEW id, RecordOK("identity", id), NEW patch \in IdentityPatches(id)
  PROVE  PatchOK("identity", patch)
<1>1. FieldsOf("identity") = DOMAIN DefaultIdentity /\ id.reviews + 1 \in Nat
  BY DEF RecordOK, FieldsOf, DefaultRecord, DefaultIdentity, Counters
<1> QED
  BY <1>1 DEF IdentityPatches, SubmitDoc, RequestHumanReview, PatchOK, DefaultIdentity, FieldValues, Counters

-----------------------------------------------------------------------------
(* The steps, as far as what is stored is concerned *)

stored == <<disk, ops, copy, behind, settled>>

Still   == UNCHANGED stored /\ Mounted' = Mounted
Served  == ServeStorage /\ Mounted' = Mounted
Chosen  == \E p \in Prefs : \E value \in PrefValues[p] :
             ops' = Append(ops, Op("pref", p, value)) /\ UNCHANGED <<disk, copy, behind, settled>> /\ Mounted' = Mounted
Changed == \E patch : Mounted \in ScreenRecords /\ PatchOK(Mounted, patch) /\ Patch(Mounted, patch) /\ Mounted' = Mounted
Visited == VisitStorage(Mounted')

\* The provider of the sounds holds, writes and passes on records of its own kind.
LEMMA SoundEdits ==
  ASSUME NEW s \in SoundRecords
  PROVE  /\ \A v \in BOOLEAN : /\ [s EXCEPT !.clicks = v] \in SoundRecords /\ [s EXCEPT !.sonic = v] \in SoundRecords
                               /\ [s EXCEPT !.services = v] \in SoundRecords
         /\ \A v \in {"military", "cyber", "custom"} : [s EXCEPT !.pack = v] \in SoundRecords
         /\ \A u \in Nat \cup {Unset} : \A v \in {"military", "cyber", "custom"} :
              [s EXCEPT !.uri = u, !.pack = v] \in SoundRecords
         /\ s.uri \in Nat \cup {Unset} /\ s.pack \in {"military", "cyber", "custom"}
         /\ s.clicks \in BOOLEAN /\ s.sonic \in BOOLEAN /\ s.services \in BOOLEAN
BY DEF SoundRecords

LEMMA NextSounds ==
  ASSUME NEW s \in SoundRecords
  PROVE  /\ [s EXCEPT !.clicks = ~@] \in SoundRecords /\ [s EXCEPT !.sonic = ~@] \in SoundRecords
         /\ [s EXCEPT !.services = TRUE] \in SoundRecords /\ [s EXCEPT !.services = FALSE] \in SoundRecords
         /\ Unmuted(s) \in SoundRecords
<1>1. /\ \A v \in BOOLEAN : /\ [s EXCEPT !.clicks = v] \in SoundRecords /\ [s EXCEPT !.sonic = v] \in SoundRecords
                            /\ [s EXCEPT !.services = v] \in SoundRecords
      /\ (~s.clicks) \in BOOLEAN /\ (~s.sonic) \in BOOLEAN /\ TRUE \in BOOLEAN /\ FALSE \in BOOLEAN
  BY SoundEdits
<1> QED
  BY <1>1, Zenon DEF Unmuted

\* A setter of the sounds.
SoundChosen(shown, written) ==
  shown \in SoundRecords /\ written \in SoundRecords /\ PutSound(shown, written)

LEMMA SoundSetters ==
  ASSUME MemOK, JobsOK, SoundSettings
  PROVE  /\ (\E shown, written : SoundChosen(shown, written)) \/ UNCHANGED stored
         /\ UNCHANGED nav /\ mem' = [mem EXCEPT !["sound"] = mem'["sound"]] /\ mem'["sound"] \in SoundRecords
<1>1. Sound \in SoundRecords /\ mem = [p \in Prefs |-> mem[p]] /\ "sound" \in Prefs
  BY DEF MemOK, Sound, PrefValues, Prefs
<1>2. ASSUME NEW shown \in SoundRecords, NEW written \in SoundRecords, NEW share, SetSound(shown, written, share)
      PROVE  SoundChosen(shown, written) /\ UNCHANGED nav
             /\ mem' = [mem EXCEPT !["sound"] = mem'["sound"]] /\ mem'["sound"] \in SoundRecords
  BY <1>1, <1>2 DEF SetSound, SoundChosen, PutSound
<1>3. CASE ToggleClicks
  BY <1>1, <1>2, <1>3, NextSounds DEF ToggleClicks
<1>4. CASE ToggleSonic
  BY <1>1, <1>2, <1>4, NextSounds DEF ToggleSonic
<1>5. CASE ChoosePack
  <2>1. PICK p \in {"military", "cyber", "custom"} :
          SetSound(Unmuted([Sound EXCEPT !.pack = p]), [Sound EXCEPT !.pack = p], FALSE)
    BY <1>5 DEF ChoosePack
  <2>2. [Sound EXCEPT !.pack = p] \in SoundRecords
    BY <1>1, SoundEdits
  <2> QED
    BY <1>2, <2>1, <2>2, NextSounds
<1>6. CASE ChooseServices
  BY <1>1, <1>2, <1>6, NextSounds DEF ChooseServices
<1>7. CASE PreviewClick
  BY <1>1, <1>7, NextSounds DEF PreviewClick, stored
<1>8. CASE UploadSound \/ ClearCustom
  BY <1>1, <1>8 DEF UploadSound, ClearCustom, StartJob, stored, Sound
<1> QED
  BY <1>3, <1>4, <1>5, <1>6, <1>7, <1>8 DEF SoundSettings

LEMMA RecordSounds ==
  ASSUME MemOK, JobsOK, NEW j \in jobs, RecordSound(j)
  PROVE  /\ SoundChosen([Sound EXCEPT !.uri = j.new, !.pack = CustomPack(j)],
                        [j.was EXCEPT !.uri = j.new, !.pack = CustomPack(j)])
         /\ UNCHANGED nav /\ mem' = [mem EXCEPT !["sound"] = mem'["sound"]] /\ mem'["sound"] \in SoundRecords
<1>1. Sound \in SoundRecords /\ mem = [p \in Prefs |-> mem[p]] /\ "sound" \in Prefs
  BY DEF MemOK, Sound, PrefValues, Prefs
<1>2. j.was \in SoundRecords /\ j.new \in Nat \cup {Unset}
  BY DEF JobsOK
<1>3. CustomPack(j) \in {"military", "cyber", "custom"}
  BY <1>2, SoundEdits DEF CustomPack
<1>4. /\ [Sound EXCEPT !.uri = j.new, !.pack = CustomPack(j)] \in SoundRecords
      /\ [j.was EXCEPT !.uri = j.new, !.pack = CustomPack(j)] \in SoundRecords
  BY <1>1, <1>2, <1>3, SoundEdits
<1> QED
  BY <1>1, <1>4 DEF RecordSound, SoundChosen, PutSound

LEMMA SoundChosenStep ==
  ASSUME NEW shown, NEW written, SoundChosen(shown, written), UNCHANGED nav
  PROVE  Chosen
<1>1. "sound" \in Prefs /\ written \in PrefValues["sound"]
  BY DEF SoundChosen, PrefValues, Prefs
<1> QED
  BY <1>1 DEF SoundChosen, PutSound, Chosen, Mounted

\* The settings of the theme and the language.
LEMMA ThemeSetters ==
  ASSUME ThemeSettings
  PROVE  \E p \in Prefs \ {"sound"} : \E value \in PrefValues[p] : SetPref(p, value)
BY DEF ThemeSettings, SetMode, SetMood, SetCustomRgb, SetLogo, SetLocale, Prefs, ThemeRecords, PrefValues

LEMMA StepKinds ==
  ASSUME MemOK, JobsOK, ScreenOK, MobileNext
  PROVE  Still \/ Served \/ Chosen \/ Changed \/ Visited \/ Relaunch
<1>1. CASE Navigate
  <2>1. PICK n : nav' = n /\ ((Shown(n) = Mounted /\ UNCHANGED storageVars) \/ Visit(Shown(n)))
    BY <1>1 DEF Navigate
  <2>2. Mounted' = Shown(n)
    BY <2>1 DEF Mounted, Shown
  <2> QED
    BY <2>1, <2>2 DEF Still, Visited, Visit, storageVars, stored
<1>2. CASE ServeStorage /\ UNCHANGED <<nav, walletVars, soundVars>>
  BY <1>2 DEF Served, Mounted
<1>3. CASE Mounted = "settings" /\ ThemeSettings /\ UNCHANGED <<nav, walletVars, soundVars>>
  <2>1. \E p \in Prefs \ {"sound"} : \E value \in PrefValues[p] : SetPref(p, value)
    BY <1>3, ThemeSetters
  <2> QED
    BY <1>3, <2>1 DEF SetPref, Chosen, Mounted
<1>4. CASE ChangeRecord
  <2>1. UNCHANGED nav
    BY <1>4 DEF ChangeRecord
  <2>2. CASE Mounted = "security" /\ copy # Unset /\ \E patch \in SecurityPatches(copy) : Patch("security", patch)
    BY <2>1, <2>2, SecurityPatchOK DEF ScreenOK, Changed, Mounted
  <2>3. CASE Mounted = "identity" /\ copy # Unset /\ \E patch \in IdentityPatches(copy) : Patch("identity", patch)
    BY <2>1, <2>3, IdentityPatchOK DEF ScreenOK, Changed, Mounted
  <2> QED
    BY <1>4, <2>2, <2>3 DEF ChangeRecord
<1>5. CASE Wallet
  BY <1>5 DEF Wallet, ServeRead, TakeRead, RefreshHome, PressFreeze, ServeFreeze, FreezeAnswered, FreezeFails, ServeLate,
              ChangedElsewhere, Others, storageVars, Still, stored, Mounted
<1>6. CASE SoundSettings
  BY <1>6, SoundSetters, SoundChosenStep DEF Still, Mounted
<1>7. CASE SoundJobs
  <2>1. PICK j \in jobs : Pick(j) \/ RemoveFile(j) \/ RecordSound(j)
    BY <1>7 DEF SoundJobs
  <2>2. CASE Pick(j) \/ RemoveFile(j)
    BY <2>2 DEF Pick, RemoveFile, storageVars, Still, stored, Mounted
  <2>3. CASE RecordSound(j)
    BY <2>3, RecordSounds, SoundChosenStep
  <2> QED
    BY <2>1, <2>2, <2>3
<1>8. CASE Kill
  BY <1>8 DEF Kill
<1> QED
  BY <1>1, <1>2, <1>3, <1>4, <1>5, <1>6, <1>7, <1>8 DEF MobileNext

-----------------------------------------------------------------------------
(* What is stored stays of its kind *)

StoredInv == DiskOK /\ MemOK /\ ScreenOK /\ SettledOK

LEMMA HeadOK ==
  ASSUME Queue, OpsOK, ops # <<>>
  PROVE  /\ 1 \in DOMAIN ops /\ Head(ops) = ops[1] /\ Shape(ops[1]) /\ OpOK(ops[1], Mounted)
         /\ ops[1].kind \in OpKinds
<1>1. PICK S : ops \in Seq(S)
  BY DEF Queue, Sequence
<1>2. 1 \in DOMAIN ops /\ Head(ops) = ops[1]
  BY <1>1
<1> QED
  BY <1>2 DEF Queue, OpsOK, Shape

LEMMA WriteBackOK ==
  ASSUME NEW op, NEW record, Shape(op), op.kind = "patch", OpOK(op, Mounted), RecordOK(op.rec, record),
         NEW w, w = WriteBack(op, record)
  PROVE  /\ Shape(w) /\ w.kind = "write" /\ w.rec = op.rec
         /\ w.val.record = record /\ w.val.asked = op.val
         /\ OpOK(w, Mounted)
         /\ (w.alone => op.alone)
<1> DEFINE v == [record |-> record, asked |-> op.val]
<1>1. op = [kind |-> op.kind, rec |-> op.rec, val |-> op.val, here |-> op.here, alone |-> op.alone]
      /\ op.here \in BOOLEAN /\ op.alone \in BOOLEAN
  BY DEF Shape
<1>2. w = [op EXCEPT !.kind = "write", !.val = v]
  BY DEF WriteBack
<1>3. v.record = record /\ v.asked = op.val
  OBVIOUS
<1> HIDE DEF v
<1>4. w = [kind |-> "write", rec |-> op.rec, val |-> v, here |-> op.here, alone |-> op.alone]
  BY <1>1, <1>2
<1>5. w.kind = "write" /\ w.rec = op.rec /\ w.val = v /\ w.here = op.here /\ w.alone = op.alone
  BY <1>4
<1>6. Shape(w)
  BY <1>1, <1>4, <1>5 DEF Shape, OpKinds
<1>7. OpOK(w, Mounted)
  BY <1>3, <1>5 DEF OpOK
<1> QED
  BY <1>3, <1>5, <1>6, <1>7 DEF v

LEMMA PrefOpOK ==
  ASSUME NEW p \in Prefs, NEW value \in PrefValues[p], NEW op, op = Op("pref", p, value)
  PROVE  /\ Shape(op) /\ op.kind = "pref" /\ op.rec = p /\ op.val = value /\ op.here /\ op.alone
         /\ OpOK(op, Mounted)
<1>1. /\ op.kind = "pref" /\ op.rec = p /\ op.val = value /\ op.here /\ op.alone
      /\ op = [kind |-> op.kind, rec |-> op.rec, val |-> op.val, here |-> op.here, alone |-> op.alone]
      /\ op.here \in BOOLEAN /\ op.alone \in BOOLEAN
  BY DEF Op
<1> QED
  BY <1>1 DEF Shape, OpKinds, OpOK

LEMMA MoodIsCustom == "mood" \in Prefs /\ "custom" \in PrefValues["mood"]
BY DEF Prefs, ThemeRecords, PrefValues

LEMMA ServePatchInv ==
  ASSUME Queue, OpsOK, StoredInv, Mounted' = Mounted, ops # <<>>, ServePatch(Head(ops)), UNCHANGED mem
  PROVE  Queue' /\ OpsOK' /\ StoredInv'
<1> DEFINE w == WriteBack(ops[1], Merge(Stored(ops[1].rec), ops[1].val))
<1>1. /\ Shape(ops[1]) /\ OpOK(ops[1], Mounted) /\ ops[1].kind = "patch" /\ Head(ops) = ops[1]
      /\ ops' = Append(Tail(ops), w)
      /\ UNCHANGED <<disk, copy, behind, settled, mem>>
  BY HeadOK DEF ServePatch
<1>2. ops[1].rec \in ScreenRecords /\ PatchOK(ops[1].rec, ops[1].val)
  BY <1>1 DEF OpOK
<1>3. RecordOK(ops[1].rec, Merge(Stored(ops[1].rec), ops[1].val))
  BY <1>2, StoredOK, MergeOK DEF StoredInv
<1>4. w = WriteBack(ops[1], Merge(Stored(ops[1].rec), ops[1].val))
  OBVIOUS
<1> HIDE DEF w
<1>a. Shape(w) /\ w.kind = "write" /\ OpOK(w, Mounted)
  BY <1>1, <1>3, <1>4, WriteBackOK
<1>5. Moves(1, 1) /\ Seated(1) /\ Newest(1) = w
  BY <1>1, HeadLeavesOneJoins
<1>6. Queue' /\ OpsOK'
  BY <1>a, <1>5, OpsStep
<1> QED
  BY <1>1, <1>6 DEF StoredInv, DiskOK, MemOK, ScreenOK, SettledOK

LEMMA ServeWriteInv ==
  ASSUME Queue, OpsOK, StoredInv, Mounted' = Mounted, ops # <<>>, ServeWrite(Head(ops)), UNCHANGED mem
  PROVE  Queue' /\ OpsOK' /\ StoredInv'
<1>1. /\ Shape(ops[1]) /\ OpOK(ops[1], Mounted) /\ ops[1].kind = "write" /\ Head(ops) = ops[1]
      /\ ops' = Tail(ops)
      /\ disk' = [disk EXCEPT ![ops[1].rec] = ops[1].val.record]
      /\ copy' = IF ops[1].here THEN ops[1].val.record ELSE copy
      /\ settled' = [settled EXCEPT ![ops[1].rec] = IF ops[1].alone THEN Merge(@, ops[1].val.asked) ELSE @]
  BY HeadOK DEF ServeWrite
<1>2. /\ ops[1].rec \in ScreenRecords /\ RecordOK(ops[1].rec, ops[1].val.record)
      /\ PatchOK(ops[1].rec, ops[1].val.asked) /\ (ops[1].here => ops[1].rec = Mounted)
  BY <1>1 DEF OpOK
<1>3. Queue' /\ OpsOK'
  BY <1>1, HeadLeaves, OpsStep
<1>4. DiskOK'
  BY <1>1, <1>2 DEF StoredInv, DiskOK, Records, ScreenRecords, Prefs, ThemeRecords
<1>5. ScreenOK'
  BY <1>1, <1>2 DEF StoredInv, ScreenOK
<1>6. SettledOK'
  BY <1>1, <1>2 DEF StoredInv, SettledOK, Merge, PatchOK
<1> QED
  BY <1>1, <1>3, <1>4, <1>5, <1>6 DEF StoredInv, MemOK

LEMMA ServeLoadInv ==
  ASSUME Queue, OpsOK, StoredInv, Mounted' = Mounted, ops # <<>>, ServeLoad(Head(ops)), UNCHANGED mem
  PROVE  Queue' /\ OpsOK' /\ StoredInv'
<1>1. /\ OpOK(ops[1], Mounted) /\ ops[1].kind = "load" /\ Head(ops) = ops[1]
      /\ ops' = Tail(ops) /\ copy' = Stored(ops[1].rec) /\ UNCHANGED <<disk, settled>>
  BY HeadOK DEF ServeLoad
<1>2. ops[1].rec = Mounted /\ Mounted \in ScreenRecords
  BY <1>1 DEF OpOK
<1>3. Queue' /\ OpsOK'
  BY <1>1, HeadLeaves, OpsStep
<1> QED
  BY <1>1, <1>2, <1>3, StoredOK DEF StoredInv, DiskOK, MemOK, ScreenOK, SettledOK

LEMMA ServeHydrateInv ==
  ASSUME Queue, OpsOK, StoredInv, Mounted' = Mounted, ops # <<>>, ServeHydrate(Head(ops))
  PROVE  Queue' /\ OpsOK' /\ StoredInv'
<1>1. /\ OpOK(ops[1], Mounted) /\ ops[1].kind = "hydrate" /\ Head(ops) = ops[1]
      /\ ops' = Tail(ops) /\ UNCHANGED <<disk, copy, settled>>
      /\ mem' = [p \in Prefs |-> IF p \in ops[1].val /\ disk[p] # Unset THEN disk[p] ELSE mem[p]]
  BY HeadOK DEF ServeHydrate
<1>2. Queue' /\ OpsOK'
  BY <1>1, HeadLeaves, OpsStep
<1>3. MemOK'
  BY <1>1 DEF StoredInv, DiskOK, MemOK
<1> QED
  BY <1>1, <1>2, <1>3 DEF StoredInv, DiskOK, ScreenOK, SettledOK

LEMMA ServePrefInv ==
  ASSUME Queue, OpsOK, StoredInv, Mounted' = Mounted, ops # <<>>, ServePref(Head(ops))
  PROVE  Queue' /\ OpsOK' /\ StoredInv'
<1>1. /\ OpOK(ops[1], Mounted) /\ ops[1].kind = "pref" /\ Head(ops) = ops[1]
      /\ disk' = [disk EXCEPT ![ops[1].rec] = ops[1].val] /\ UNCHANGED <<copy, settled, mem>>
      /\ ops' = IF ops[1].rec = "rgb" THEN Append(Tail(ops), Op("pref", "mood", "custom")) ELSE Tail(ops)
  BY HeadOK DEF ServePref
<1>2. ops[1].rec \in Prefs /\ ops[1].val \in PrefValues[ops[1].rec]
  BY <1>1 DEF OpOK
<1>3. Queue' /\ OpsOK'
  <2>1. CASE ops[1].rec = "rgb"
    <3> DEFINE op == Op("pref", "mood", "custom")
    <3>1. Shape(op) /\ op.kind = "pref" /\ OpOK(op, Mounted)
      BY MoodIsCustom, PrefOpOK
    <3> HIDE DEF op
    <3>2. ops' = Append(Tail(ops), op)
      BY <1>1, <2>1 DEF op
    <3> QED
      BY <3>1, <3>2, HeadLeavesOneJoins, OpsStep
  <2>2. CASE ops[1].rec # "rgb"
    BY <1>1, <2>2, HeadLeaves, OpsStep
  <2> QED
    BY <2>1, <2>2
<1>4. DiskOK'
  BY <1>1, <1>2 DEF StoredInv, DiskOK, Records, ScreenRecords, Prefs, ThemeRecords
<1> QED
  BY <1>1, <1>3, <1>4 DEF StoredInv, MemOK, ScreenOK, SettledOK

LEMMA ServedInv ==
  ASSUME Queue, OpsOK, StoredInv, Served
  PROVE  Queue' /\ OpsOK' /\ StoredInv'
<1>1. Mounted' = Mounted /\ ops # <<>>
  BY DEF Served, ServeStorage
<1>2. CASE (ServePatch(Head(ops)) \/ ServeWrite(Head(ops)) \/ ServeLoad(Head(ops))) /\ UNCHANGED mem
  BY <1>1, <1>2, ServePatchInv, ServeWriteInv, ServeLoadInv
<1>3. CASE ServeHydrate(Head(ops))
  BY <1>1, <1>3, ServeHydrateInv
<1>4. CASE ServePref(Head(ops))
  BY <1>1, <1>4, ServePrefInv
<1> QED
  BY <1>2, <1>3, <1>4 DEF Served, ServeStorage

\* What a change and a launch leave of what the screens store.
RecordsInv == DiskOK /\ ScreenOK /\ SettledOK

LEMMA ChosenInv ==
  ASSUME Queue, OpsOK, RecordsInv, Chosen
  PROVE  Queue' /\ OpsOK' /\ RecordsInv'
<1>0. PICK p \in Prefs : \E value \in PrefValues[p] :
        ops' = Append(ops, Op("pref", p, value)) /\ UNCHANGED <<disk, copy, behind, settled>> /\ Mounted' = Mounted
  BY DEF Chosen
<1>1. PICK value \in PrefValues[p] :
        ops' = Append(ops, Op("pref", p, value)) /\ UNCHANGED <<disk, copy, behind, settled>> /\ Mounted' = Mounted
  BY <1>0
<1>2. PICK op : op = Op("pref", p, value)
  OBVIOUS
<1>3. Shape(op) /\ op.kind = "pref" /\ OpOK(op, Mounted)
  BY <1>2, PrefOpOK
<1>4. Queue' /\ OpsOK'
  BY <1>1, <1>2, <1>3, OneJoins, OpsStep
<1> QED
  BY <1>1, <1>4 DEF RecordsInv, DiskOK, ScreenOK, SettledOK

LEMMA ChangedInv ==
  ASSUME Queue, OpsOK, RecordsInv, Changed
  PROVE  Queue' /\ OpsOK' /\ RecordsInv'
<1>1. PICK patch : Mounted \in ScreenRecords /\ PatchOK(Mounted, patch) /\ Patch(Mounted, patch) /\ Mounted' = Mounted
  BY DEF Changed
<1>2. /\ ops' = WithPatch(Mounted, patch) /\ UNCHANGED <<disk, copy, behind>>
      /\ settled' = [settled EXCEPT ![Mounted] = Forget(@, patch)]
  BY <1>1 DEF Patch
<1>3. Moves(0, 1) /\ Seated(0) /\ Shape(Newest(0)) /\ Newest(0).kind = "patch" /\ Newest(0).rec = Mounted /\ Newest(0).val = patch
  BY <1>2, PatchJoins
<1>4. OpOK(Newest(0), Mounted)
  BY <1>1, <1>3 DEF OpOK
<1>5. Queue' /\ OpsOK'
  BY <1>1, <1>3, <1>4, OpsStep
<1>6. SettledOK'
  BY <1>1, <1>2 DEF RecordsInv, SettledOK, Forget
<1> QED
  BY <1>1, <1>2, <1>5, <1>6 DEF RecordsInv, DiskOK, ScreenOK

LEMMA VisitedInv ==
  ASSUME Queue, OpsOK, RecordsInv, Visited
  PROVE  Queue' /\ OpsOK' /\ RecordsInv'
<1> DEFINE load == Op("load", Mounted', Unset)
<1>1. UNCHANGED <<disk, settled>> /\ copy' = Unset
  BY DEF Visited, VisitStorage
<1>2. PICK j \in {0, 1} : j = IF Mounted' \in ScreenRecords THEN 1 ELSE 0
  OBVIOUS
<1>3. PICK k \in Nat :
        /\ Moves(k, j)
        /\ IF Loads = {} THEN k = 0 ELSE k \in Loads
        /\ \A i \in 1..Staying(k) : ~ops'[i].here
        /\ Mounted' \in ScreenRecords => Newest(k) = load
  BY <1>2, VisitMoves DEF Visited
<1>4. /\ Shape(load) /\ load.kind = "load" /\ load.rec = Mounted'
      /\ load.here /\ load.val = Unset
  <2>1. load = [kind |-> "load", rec |-> Mounted', val |-> Unset, here |-> TRUE, alone |-> TRUE]
    BY DEF Op
  <2> HIDE DEF load
  <2> QED
    BY <2>1 DEF Shape, OpKinds
<1> HIDE DEF load
<1>5. Loads \subseteq {k}
  BY <1>3 DEF Queue
<1>6. Queue'
  BY <1>2, <1>3, <1>4, <1>5, QueueMoves
<1>7. DOMAIN ops' = IF j = 1 THEN Stay(k) \cup {End(k)} ELSE Stay(k)
  BY <1>3, Places
<1>8. ASSUME NEW i \in Stay(k) PROVE OpOK(ops'[i], Mounted')
  <2>1. Alike(ops'[i], ops[Was(k, i)]) /\ Was(k, i) \in DOMAIN ops \ {k} /\ ~ops'[i].here
    BY <1>3, <1>8, Places DEF Stay
  <2>2. OpOK(ops[Was(k, i)], Mounted) /\ ops[Was(k, i)].kind # "load"
    BY <1>5, <2>1 DEF OpsOK, Loads
  <2> QED
    BY <2>1, <2>2 DEF Alike, OpOK
<1>9. ASSUME j = 1 PROVE OpOK(ops'[End(k)], Mounted')
  <2>1. ops'[End(k)] = load /\ Mounted' \in ScreenRecords
    BY <1>2, <1>3, <1>9 DEF Newest, End
  <2> QED
    BY <1>4, <2>1 DEF OpOK
<1>10. OpsOK'
  BY <1>2, <1>7, <1>8, <1>9 DEF OpsOK
<1> QED
  BY <1>1, <1>6, <1>10 DEF RecordsInv, DiskOK, ScreenOK, SettledOK

LEMMA RelaunchInv ==
  ASSUME RecordsInv, Relaunch
  PROVE  Queue' /\ OpsOK' /\ RecordsInv'
BY QueueAtLaunch DEF Relaunch, RecordsInv, DiskOK, ScreenOK, SettledOK

LEMMA StillInv ==
  ASSUME Queue, OpsOK, RecordsInv, Still
  PROVE  Queue' /\ OpsOK' /\ RecordsInv'
<1>1. Moves(0, 0) /\ Seated(0) /\ Mounted' = Mounted
  BY NoneMoves DEF Still, stored
<1> QED
  BY <1>1, OpsStep DEF Still, stored, RecordsInv, DiskOK, ScreenOK, SettledOK

-----------------------------------------------------------------------------
(* What memory holds, and the sounds on their way *)

LEMMA DefaultsInMemory == \A p \in Prefs : DefaultPrefs[p] \in PrefValues[p]
<1>1. DefaultSound \in SoundRecords
  <2>1. ASSUME NEW yes \in BOOLEAN
        PROVE  [clicks |-> yes, sonic |-> yes, pack |-> "military", services |-> yes, uri |-> Unset] \in SoundRecords
    BY DEF SoundRecords
  <2> QED
    BY <2>1, Zenon DEF DefaultSound
<1>2. /\ DefaultPrefs["mode"] = "dark" /\ DefaultPrefs["mood"] = "tube" /\ DefaultPrefs["rgb"] = "white"
      /\ DefaultPrefs["logo"] = "plain" /\ DefaultPrefs["locale"] = "en" /\ DefaultPrefs["sound"] = DefaultSound
  BY DEF DefaultPrefs
<1> QED
  BY <1>1, <1>2 DEF Prefs, ThemeRecords, PrefValues

LEMMA ThemeValuesOK ==
  ASSUME NEW p \in Prefs, NEW value \in PrefValues[p], MemOK
  PROVE  LET held == Merge(mem, ThemeValues(p, value)) IN
           held = [q \in Prefs |-> held[q]] /\ \A q \in Prefs : held[q] \in PrefValues[q]
<1>1. Sets(p) \subseteq Prefs /\ \A q \in Sets(p) : ThemeValues(p, value)[q] \in PrefValues[q]
  BY MoodIsCustom DEF Sets, ThemeValues
<1>2. DOMAIN ThemeValues(p, value) = Sets(p) /\ DOMAIN mem = Prefs
  BY DEF ThemeValues, MemOK
<1> QED
  BY <1>1, <1>2 DEF Merge, MemOK

LEMMA MemNext ==
  ASSUME Queue, OpsOK, DiskOK, ScreenOK, SettledOK, MemOK, JobsOK, MobileNext
  PROVE  MemOK'
<1>1. CASE UNCHANGED mem
  BY <1>1 DEF MemOK
<1>2. ASSUME mem' = [mem EXCEPT !["sound"] = mem'["sound"]] /\ mem'["sound"] \in SoundRecords
      PROVE  MemOK'
  BY <1>2 DEF MemOK, PrefValues, Prefs, ThemeRecords
<1>3. CASE Navigate
  BY <1>1, <1>3 DEF Navigate, storageVars, Visit, VisitStorage
<1>4. CASE ServeStorage /\ UNCHANGED <<nav, walletVars, soundVars>>
  BY <1>4, ServedInv DEF Served, Mounted, StoredInv
<1>5. CASE Mounted = "settings" /\ ThemeSettings /\ UNCHANGED <<nav, walletVars, soundVars>>
  <2>1. \E p \in Prefs \ {"sound"} : \E value \in PrefValues[p] : SetPref(p, value)
    BY <1>5, ThemeSetters
  <2>2. PICK p \in Prefs \ {"sound"} : \E value \in PrefValues[p] : SetPref(p, value)
    BY <2>1
  <2>3. PICK value \in PrefValues[p] : SetPref(p, value)
    BY <2>2
  <2>4. mem' = Merge(mem, ThemeValues(p, value))
    BY <2>3 DEF SetPref
  <2> QED
    BY <2>4, ThemeValuesOK DEF MemOK
<1>6. CASE ChangeRecord
  BY <1>1, <1>6 DEF ChangeRecord, Patch
<1>7. CASE Wallet
  BY <1>1, <1>7 DEF Wallet, ServeRead, TakeRead, RefreshHome, PressFreeze, ServeFreeze, FreezeAnswered, FreezeFails,
                    ServeLate, ChangedElsewhere, Others, storageVars
<1>8. CASE SoundSettings
  BY <1>2, <1>8, SoundSetters
<1>9. CASE SoundJobs
  <2>1. PICK j \in jobs : Pick(j) \/ RemoveFile(j) \/ RecordSound(j)
    BY <1>9 DEF SoundJobs
  <2>2. CASE Pick(j) \/ RemoveFile(j)
    BY <1>1, <2>2 DEF Pick, RemoveFile, storageVars
  <2>3. CASE RecordSound(j)
    BY <1>2, <2>3, RecordSounds
  <2> QED
    BY <2>1, <2>2, <2>3
<1>10. CASE Kill
  BY <1>10, DefaultsInMemory DEF Kill, Relaunch, MemOK, DefaultPrefs, Prefs, ThemeRecords
<1> QED
  BY <1>3, <1>4, <1>5, <1>6, <1>7, <1>8, <1>9, <1>10 DEF MobileNext

LEMMA JobsNext ==
  ASSUME MemOK, JobsOK, MobileNext
  PROVE  JobsOK'
<1> DEFINE Jobs == [kind : {"import", "clear"}, stage : {"pick", "remove", "record"}, was : SoundRecords,
                    new : Nat \cup {Unset}]
<1>0. jobs \subseteq Jobs /\ files \in Seq(BOOLEAN) /\ Sound \in SoundRecords
  <2>1. Sound \in SoundRecords
    BY DEF MemOK, Sound, Prefs, PrefValues
  <2> QED
    BY <2>1 DEF JobsOK
<1>1. CASE UNCHANGED <<jobs, files>>
  BY <1>1 DEF JobsOK
<1>2. CASE Navigate
  BY <1>1, <1>2 DEF Navigate, soundVars, Visit
<1>3. CASE ServeStorage /\ UNCHANGED <<nav, walletVars, soundVars>>
  BY <1>1, <1>3 DEF soundVars
<1>4. CASE Mounted = "settings" /\ ThemeSettings /\ UNCHANGED <<nav, walletVars, soundVars>>
  BY <1>1, <1>4 DEF soundVars
<1>5. CASE ChangeRecord
  BY <1>1, <1>5 DEF ChangeRecord, soundVars
<1>6. CASE Wallet
  BY <1>1, <1>6 DEF Wallet, ServeRead, TakeRead, RefreshHome, PressFreeze, ServeFreeze, FreezeAnswered, FreezeFails,
                    ServeLate, ChangedElsewhere, Others, soundVars
<1>7. CASE SoundSettings
  <2>1. CASE UploadSound
    <3>1. /\ files' = Append(files, FALSE)
          /\ jobs' = jobs \cup {[kind |-> "import", stage |-> "pick", was |-> Sound, new |-> Len(files) + 1]}
      BY <2>1 DEF UploadSound, StartJob
    <3>2. Len(files) + 1 \in Nat /\ files' \in Seq(BOOLEAN)
      BY <1>0, <3>1
    <3> QED
      BY <1>0, <3>1, <3>2 DEF JobsOK
  <2>2. CASE ClearCustom
    BY <1>0, <2>2 DEF ClearCustom, StartJob, JobsOK
  <2>3. CASE ToggleClicks \/ ToggleSonic \/ ChoosePack \/ ChooseServices \/ PreviewClick
    BY <1>1, <2>3 DEF ToggleClicks, ToggleSonic, ChoosePack, ChooseServices, PreviewClick, SetSound
  <2> QED
    BY <1>7, <2>1, <2>2, <2>3 DEF SoundSettings
<1>8. CASE SoundJobs
  <2>1. PICK j \in jobs : Pick(j) \/ RemoveFile(j) \/ RecordSound(j)
    BY <1>8 DEF SoundJobs
  <2>2. \A stage \in {"pick", "remove", "record"} : [j EXCEPT !.stage = stage] \in Jobs
    BY <1>0
  <2>3. \A i, v : v \in BOOLEAN => [files EXCEPT ![i] = v] \in Seq(BOOLEAN)
    <3>1. files \in [1..Len(files) -> BOOLEAN] /\ Len(files) \in Nat
      BY <1>0
    <3>2. ASSUME NEW i, NEW v \in BOOLEAN PROVE [files EXCEPT ![i] = v] \in [1..Len(files) -> BOOLEAN]
      BY <3>1, <3>2
    <3> QED
      BY <3>1, <3>2
  <2> HIDE DEF Jobs
  <2>4. CASE Pick(j)
    <3>1. files' \in Seq(BOOLEAN)
      BY <1>0, <2>3, <2>4 DEF Pick
    <3>2. \/ jobs' = jobs \ {j}
          \/ \E stage \in {"pick", "remove", "record"} : jobs' = (jobs \ {j}) \cup {[j EXCEPT !.stage = stage]}
      BY <2>4 DEF Pick
    <3>3. jobs' \subseteq Jobs
      BY <1>0, <2>2, <3>2
    <3> QED
      BY <3>1, <3>3 DEF JobsOK, Jobs
  <2>5. CASE RemoveFile(j)
    BY <1>0, <2>2, <2>3, <2>5 DEF RemoveFile, JobsOK, Jobs
  <2>6. CASE RecordSound(j)
    BY <1>0, <2>6 DEF RecordSound, JobsOK
  <2> QED
    BY <2>1, <2>4, <2>5, <2>6
<1>9. CASE Kill
  BY <1>0, <1>9 DEF Kill, JobsOK
<1> QED
  BY <1>2, <1>3, <1>4, <1>5, <1>6, <1>7, <1>8, <1>9 DEF MobileNext

-----------------------------------------------------------------------------

LEMMA StoreInit == MobileInit => StoreInv
<1> SUFFICES ASSUME MobileInit PROVE StoreInv
  OBVIOUS
<1>1. Queue /\ OpsOK
  BY QueueAtLaunch DEF MobileInit, StorageInit
<1>2. DiskOK /\ ScreenOK /\ JobsOK
  BY DEF MobileInit, StorageInit, DiskOK, ScreenOK, JobsOK, Records, Prefs
<1>3. MemOK
  BY DefaultsInMemory DEF MobileInit, StorageInit, MemOK, DefaultPrefs, Prefs, ThemeRecords
<1>4. SettledOK
  BY DEF MobileInit, StorageInit, SettledOK
<1> QED
  BY <1>1, <1>2, <1>3, <1>4 DEF StoreInv

LEMMA StoreNext == StoreInv /\ [MobileNext]_mobileVars => StoreInv'
<1> SUFFICES ASSUME StoreInv, [MobileNext]_mobileVars PROVE StoreInv'
  OBVIOUS
<1>1. CASE MobileNext
  <2>1. MemOK' /\ JobsOK'
    BY <1>1, MemNext, JobsNext DEF StoreInv
  <2>2. Still \/ Served \/ Chosen \/ Changed \/ Visited \/ Relaunch
    BY <1>1, StepKinds DEF StoreInv
  <2>3. CASE Served
    BY <2>1, <2>3, ServedInv DEF StoreInv, StoredInv
  <2>4. CASE Still \/ Chosen \/ Changed \/ Visited \/ Relaunch
    BY <2>1, <2>4, StillInv, ChosenInv, ChangedInv, VisitedInv, RelaunchInv DEF StoreInv, RecordsInv
  <2> QED
    BY <2>2, <2>3, <2>4
<1>2. CASE UNCHANGED mobileVars
  <2>1. Still /\ UNCHANGED <<mem, jobs, files>>
    BY <1>2 DEF mobileVars, storageVars, soundVars, Still, stored, Mounted
  <2> QED
    BY <2>1, StillInv DEF StoreInv, RecordsInv, MemOK, JobsOK
<1> QED
  BY <1>1, <1>2

-----------------------------------------------------------------------------
(* ShownIsStored *)

LEMMA ShownNext == StoreInv /\ ShownIsStored /\ [MobileNext]_mobileVars => ShownIsStored'
<1> SUFFICES ASSUME StoreInv, ShownIsStored, [MobileNext]_mobileVars, copy' # Unset, ~behind'
             PROVE  copy' = Stored(Mounted)'
  BY DEF ShownIsStored
<1>1. CASE Still \/ Chosen \/ Changed
  BY <1>1 DEF Still, stored, Chosen, Changed, Patch, ShownIsStored, Stored
<1>2. CASE Visited \/ Relaunch
  BY <1>2 DEF Visited, VisitStorage, Relaunch
<1>3. CASE Served
  <2>0. /\ Mounted' = Mounted /\ ops # <<>> /\ Head(ops) = ops[1] /\ OpOK(ops[1], Mounted)
        /\ copy # Unset => Mounted \in ScreenRecords
    BY <1>3, HeadOK DEF Served, ServeStorage, StoreInv, ScreenOK
  <2>1. CASE ServePatch(ops[1]) \/ ServeHydrate(ops[1])
    BY <2>0, <2>1 DEF ServePatch, ServeHydrate, ShownIsStored, Stored
  <2>2. CASE ServeLoad(ops[1])
    <3>1. ops[1].rec = Mounted
      BY <2>0, <2>2 DEF ServeLoad, OpOK
    <3> QED
      BY <2>0, <2>2, <3>1 DEF ServeLoad, Stored
  <2>3. CASE ServePref(ops[1])
    <3>1. ops[1].rec \in Prefs /\ UNCHANGED <<copy, behind>> /\ disk' = [disk EXCEPT ![ops[1].rec] = ops[1].val]
      BY <2>0, <2>3 DEF ServePref, OpOK
    <3>2. Mounted \in ScreenRecords /\ disk'[Mounted] = disk[Mounted]
      BY <2>0, <3>1 DEF StoreInv, DiskOK, ScreenRecords, Prefs, ThemeRecords
    <3> QED
      BY <2>0, <3>1, <3>2 DEF ShownIsStored, Stored
  <2>4. CASE ServeWrite(ops[1])
    <3>1. /\ ops[1].rec \in ScreenRecords /\ RecordOK(ops[1].rec, ops[1].val.record)
          /\ disk' = [disk EXCEPT ![ops[1].rec] = ops[1].val.record]
          /\ copy' = IF ops[1].here THEN ops[1].val.record ELSE copy
          /\ behind' = (~ops[1].here /\ (behind \/ Mounted = ops[1].rec))
          /\ ops[1].here => ops[1].rec = Mounted
      BY <2>0, <2>4 DEF ServeWrite, OpOK
    <3>2. disk'[ops[1].rec] = ops[1].val.record /\ ops[1].val.record # Unset
          /\ \A r \in ScreenRecords : r # ops[1].rec => disk'[r] = disk[r]
      BY <3>1, RecordIsThere DEF StoreInv, DiskOK, Records
    <3>3. CASE ops[1].here
      BY <2>0, <3>1, <3>2, <3>3 DEF Stored
    <3>4. CASE ~ops[1].here
      BY <2>0, <3>1, <3>2, <3>4 DEF ShownIsStored, Stored
    <3> QED
      BY <3>3, <3>4
  <2> QED
    BY <1>3, <2>0, <2>1, <2>2, <2>3, <2>4 DEF Served, ServeStorage
<1>4. CASE UNCHANGED mobileVars
  BY <1>1, <1>4 DEF mobileVars, storageVars, Still, stored, Mounted
<1> QED
  BY <1>1, <1>2, <1>3, <1>4, StepKinds DEF StoreInv

\* The security centre and the identity screen show what is stored, also while changes are
\* under way and overlap, unless one made on an earlier visit landed after this one had read.
THEOREM MobileShownIsStored == MobileSpec => []ShownIsStored
<1>1. MobileInit => ShownIsStored
  BY DEF MobileInit, StorageInit, ShownIsStored
<1>2. StoreInv /\ ShownIsStored /\ [MobileNext]_mobileVars => StoreInv' /\ ShownIsStored'
  BY StoreNext, ShownNext
<1> QED
  BY StoreInit, <1>1, <1>2, PTL DEF MobileSpec

-----------------------------------------------------------------------------
(* FinishedChangeSurvives: what is asked for next is none of what is settled, every write *)
(* on its way agrees with it, and a change that is alone is the only one of its record.   *)

Changes(op, r) == op.rec = r /\ op.kind \in {"patch", "write"}

Respects(op, known) ==
  /\ DOMAIN Asked(op) \cap DOMAIN known = {}
  /\ op.kind = "write" => /\ \A f \in DOMAIN known : op.val.record[f] = known[f]
                          /\ \A f \in DOMAIN op.val.asked : op.val.record[f] = op.val.asked[f]

OnDevice(r) == \A f \in DOMAIN settled[r] : Stored(r)[f] = settled[r][f]

ChangesOK(r) ==
  /\ \A i \in DOMAIN ops : Changes(ops[i], r) => Respects(ops[i], settled[r])
  /\ \A i, j \in DOMAIN ops : Changes(ops[i], r) /\ ops[i].alone /\ Changes(ops[j], r) => i = j

SettledInv == \A r \in ScreenRecords : OnDevice(r) /\ ChangesOK(r)

LEMMA AlikeChanges ==
  ASSUME NEW a, NEW b, Alike(a, b), NEW r, NEW known
  PROVE  /\ Changes(a, r) <=> Changes(b, r)
         /\ Respects(b, known) => Respects(a, known)
         /\ a.alone => b.alone
BY DEF Alike, Changes, Respects, Asked

\* The changes of one record, when the queue moves.
LEMMA ChangesMove ==
  ASSUME NEW r, ChangesOK(r), NEW k, NEW joins, Moves(k, joins),
         \A i \in DOMAIN ops \ {k} : Changes(ops[i], r) => Respects(ops[i], settled'[r]),
         joins = 1 /\ Changes(Newest(k), r) =>
           /\ Respects(Newest(k), settled'[r])
           /\ Newest(k).alone => \A i \in DOMAIN ops \ {k} : ~Changes(ops[i], r)
           /\ \A i \in Stay(k) : Changes(ops'[i], r) => ~ops'[i].alone
  PROVE  ChangesOK(r)'
<1>1. /\ DOMAIN ops' = IF joins = 1 THEN Stay(k) \cup {End(k)} ELSE Stay(k)
      /\ \A i, j \in Stay(k) : (i = j <=> Was(k, i) = Was(k, j))
  BY Places
<1>2. \A i \in DOMAIN ops' : i \in Stay(k) \/ (joins = 1 /\ i = End(k) /\ ops'[i] = Newest(k))
  BY <1>1 DEF Newest, End
<1>3. \A i \in Stay(k) : Alike(ops'[i], ops[Was(k, i)]) /\ Was(k, i) \in DOMAIN ops \ {k}
  BY Places
<1>4. \A i \in Stay(k) : /\ Changes(ops'[i], r) <=> Changes(ops[Was(k, i)], r)
                         /\ Changes(ops'[i], r) => Respects(ops'[i], settled'[r])
                         /\ ops'[i].alone => ops[Was(k, i)].alone
  BY <1>3, AlikeChanges
<1>5. \A i \in DOMAIN ops' : Changes(ops'[i], r) => Respects(ops'[i], settled'[r])
  BY <1>2, <1>4
<1>6. ASSUME NEW i \in DOMAIN ops', NEW j \in DOMAIN ops', Changes(ops'[i], r), ops'[i].alone, Changes(ops'[j], r)
      PROVE  i = j
  <2>1. CASE i \in Stay(k) /\ j \in Stay(k)
    BY <1>1, <1>3, <1>4, <1>6, <2>1 DEF ChangesOK
  <2>2. CASE i \notin Stay(k)
    BY <1>2, <1>3, <1>4, <1>6, <2>2
  <2>3. CASE i \in Stay(k) /\ j \notin Stay(k)
    BY <1>2, <1>6, <2>3
  <2> QED
    BY <2>1, <2>2, <2>3
<1> QED
  BY <1>5, <1>6 DEF ChangesOK, Changes, Respects, Asked

LEMMA SettledStill ==
  ASSUME StoreInv, SettledInv, NEW k, NEW joins, Moves(k, joins), UNCHANGED <<disk, settled>>,
         joins = 1 => Newest(k).kind \notin {"patch", "write"}
  PROVE  SettledInv'
<1>1. ASSUME NEW r \in ScreenRecords PROVE OnDevice(r)' /\ ChangesOK(r)'
  <2>1. joins = 1 => ~Changes(Newest(k), r)
    BY DEF Changes
  <2>2. \A i \in DOMAIN ops \ {k} : Changes(ops[i], r) => Respects(ops[i], settled'[r])
    BY DEF SettledInv, ChangesOK
  <2>3. ChangesOK(r)'
    BY <2>1, <2>2, ChangesMove DEF SettledInv
  <2> QED
    BY <2>3 DEF SettledInv, OnDevice, Stored
<1> QED
  BY <1>1 DEF SettledInv

LEMMA SettledRelaunch ==
  ASSUME SettledInv, Relaunch
  PROVE  SettledInv'
<1>1. ops' = Hydrations /\ UNCHANGED <<disk, settled>>
  BY DEF Relaunch
<1>2. ASSUME NEW r \in ScreenRecords PROVE OnDevice(r)' /\ ChangesOK(r)'
  <2>1. \A i \in DOMAIN ops' : ops'[i].kind = "hydrate"
    BY <1>1, LaunchedOps
  <2>2. ChangesOK(r)'
    BY <2>1 DEF ChangesOK, Changes
  <2> QED
    BY <1>1, <2>2 DEF SettledInv, OnDevice, Stored
<1> QED
  BY <1>2 DEF SettledInv

LEMMA SettledChanged ==
  ASSUME StoreInv, SettledInv, Changed
  PROVE  SettledInv'
<1>1. PICK patch : Mounted \in ScreenRecords /\ Patch(Mounted, patch)
  BY DEF Changed
<1>2. /\ ops' = WithPatch(Mounted, patch) /\ UNCHANGED disk
      /\ settled' = [settled EXCEPT ![Mounted] = Forget(@, patch)]
  BY <1>1 DEF Patch
<1>3. /\ Moves(0, 1)
      /\ \A i \in DOMAIN ops : ops[i].rec = Mounted => ~ops'[i].alone
      /\ Newest(0).kind = "patch" /\ Newest(0).rec = Mounted /\ Newest(0).val = patch
      /\ Newest(0).alone => ~Changing(Mounted)
  BY <1>2, PatchJoins DEF StoreInv
<1>4. /\ settled'[Mounted] = Forget(settled[Mounted], patch)
      /\ \A r \in ScreenRecords : r # Mounted => settled'[r] = settled[r]
  BY <1>1, <1>2 DEF StoreInv, SettledOK
<1>5. ASSUME NEW r \in ScreenRecords PROVE OnDevice(r)' /\ ChangesOK(r)'
  <2>1. DOMAIN settled'[r] \subseteq DOMAIN settled[r] /\ \A f \in DOMAIN settled'[r] : settled'[r][f] = settled[r][f]
    BY <1>4 DEF Forget
  <2>2. \A i \in DOMAIN ops \ {0} : Changes(ops[i], r) => Respects(ops[i], settled'[r])
    BY <2>1 DEF SettledInv, ChangesOK, Respects
  <2>3. Changes(Newest(0), r) => /\ Respects(Newest(0), settled'[r])
                                 /\ Newest(0).alone => \A i \in DOMAIN ops \ {0} : ~Changes(ops[i], r)
                                 /\ \A i \in Stay(0) : Changes(ops'[i], r) => ~ops'[i].alone
    <3> SUFFICES ASSUME Changes(Newest(0), r)
                 PROVE  /\ Respects(Newest(0), settled'[r])
                        /\ Newest(0).alone => \A i \in DOMAIN ops \ {0} : ~Changes(ops[i], r)
                        /\ \A i \in Stay(0) : Changes(ops'[i], r) => ~ops'[i].alone
      OBVIOUS
    <3>1. r = Mounted
      BY <1>3 DEF Changes
    <3>2. Respects(Newest(0), settled'[r])
      BY <1>3, <1>4, <3>1 DEF Respects, Asked, Forget
    <3>3. Newest(0).alone => \A i \in DOMAIN ops \ {0} : ~Changes(ops[i], r)
      BY <1>3, <3>1 DEF Changes, Changing
    <3>4. \A i \in Stay(0) : Changes(ops'[i], r) => ~ops'[i].alone
      <4>1. \A i \in Stay(0) : Was(0, i) = i
        BY DEF Was
      <4>a. \A i \in Stay(0) : Alike(ops'[i], ops[Was(0, i)]) /\ Was(0, i) \in DOMAIN ops
        BY <1>3, Places
      <4>2. \A i \in Stay(0) : Alike(ops'[i], ops[i]) /\ i \in DOMAIN ops
        BY <4>1, <4>a
      <4> QED
        BY <1>3, <3>1, <4>2 DEF Changes, Alike
    <3> QED
      BY <3>2, <3>3, <3>4
  <2>4. ChangesOK(r)'
    BY <1>3, <2>2, <2>3, ChangesMove DEF SettledInv
  <2>5. OnDevice(r)'
    BY <1>2, <2>1 DEF SettledInv, OnDevice, Stored
  <2> QED
    BY <2>4, <2>5
<1> QED
  BY <1>5 DEF SettledInv

LEMMA SettledPatch ==
  ASSUME StoreInv, SettledInv, ops # <<>>, ServePatch(ops[1])
  PROVE  SettledInv'
<1> DEFINE record == Merge(Stored(ops[1].rec), ops[1].val)
<1>1. PICK w : w = WriteBack(ops[1], record)
  OBVIOUS
<1>2. /\ Shape(ops[1]) /\ OpOK(ops[1], Mounted) /\ ops[1].kind = "patch" /\ 1 \in DOMAIN ops
      /\ ops' = Append(Tail(ops), w) /\ UNCHANGED <<disk, settled>>
  BY <1>1, HeadOK DEF ServePatch, StoreInv
<1>3. ops[1].rec \in ScreenRecords /\ PatchOK(ops[1].rec, ops[1].val)
  BY <1>2 DEF OpOK
<1>4. RecordOK(ops[1].rec, Stored(ops[1].rec))
  BY <1>3, StoredOK DEF StoreInv
<1>5. RecordOK(ops[1].rec, record)
  BY <1>3, <1>4, MergeOK
<1>6. /\ \A f \in DOMAIN ops[1].val : record[f] = ops[1].val[f]
      /\ \A f \in FieldsOf(ops[1].rec) \ DOMAIN ops[1].val : record[f] = Stored(ops[1].rec)[f]
  BY <1>4 DEF Merge, RecordOK
<1> HIDE DEF record
<1>7. w.kind = "write" /\ w.rec = ops[1].rec /\ w.val.record = record /\ w.val.asked = ops[1].val /\ (w.alone => ops[1].alone)
  BY <1>1, <1>2, <1>5, WriteBackOK
<1>8. Moves(1, 1) /\ Newest(1) = w
  BY <1>2, HeadLeavesOneJoins DEF StoreInv
<1>9. ASSUME NEW r \in ScreenRecords PROVE OnDevice(r)' /\ ChangesOK(r)'
  <2>1. \A i \in DOMAIN ops \ {1} : Changes(ops[i], r) => Respects(ops[i], settled'[r])
    BY <1>2 DEF SettledInv, ChangesOK
  <2>2. ASSUME Changes(w, r)
        PROVE  /\ Respects(w, settled'[r])
               /\ \A i \in DOMAIN ops \ {1} : Changes(ops[i], r) => ~ops[1].alone /\ ~ops[i].alone
    <3>1. ops[1].rec = r /\ Changes(ops[1], r)
      BY <1>2, <1>7, <2>2 DEF Changes
    <3>2. DOMAIN ops[1].val \cap DOMAIN settled[r] = {}
      BY <1>2, <3>1 DEF SettledInv, ChangesOK, Respects, Asked
    <3>3. \A f \in DOMAIN settled[r] : record[f] = settled[r][f]
      BY <1>6, <3>1, <3>2 DEF SettledInv, OnDevice, StoreInv, SettledOK
    <3>4. Respects(w, settled'[r])
      BY <1>2, <1>6, <1>7, <3>2, <3>3 DEF Respects, Asked
    <3>5. \A i \in DOMAIN ops \ {1} : Changes(ops[i], r) => ~ops[1].alone /\ ~ops[i].alone
      BY <1>2, <3>1 DEF SettledInv, ChangesOK
    <3> QED
      BY <3>4, <3>5
  <2>3. \A i \in Stay(1) : Changes(ops'[i], r) => \E j \in DOMAIN ops \ {1} : Changes(ops[j], r) /\ (ops'[i].alone => ops[j].alone)
    <3>1. \A i \in Stay(1) : Alike(ops'[i], ops[Was(1, i)]) /\ Was(1, i) \in DOMAIN ops \ {1}
      BY <1>8, Places
    <3> QED
      BY <3>1, AlikeChanges
  <2>4. ChangesOK(r)'
    BY <1>7, <1>8, <2>1, <2>2, <2>3, ChangesMove DEF SettledInv
  <2>5. OnDevice(r)'
    BY <1>2 DEF SettledInv, OnDevice, Stored
  <2> QED
    BY <2>4, <2>5
<1> QED
  BY <1>9 DEF SettledInv

LEMMA SettledWrite ==
  ASSUME StoreInv, SettledInv, ops # <<>>, ServeWrite(ops[1])
  PROVE  SettledInv'
<1>1. /\ OpOK(ops[1], Mounted) /\ ops[1].kind = "write" /\ 1 \in DOMAIN ops
      /\ ops' = Tail(ops)
      /\ disk' = [disk EXCEPT ![ops[1].rec] = ops[1].val.record]
      /\ settled' = [settled EXCEPT ![ops[1].rec] = IF ops[1].alone THEN Merge(@, ops[1].val.asked) ELSE @]
  BY HeadOK DEF ServeWrite, StoreInv
<1>2. /\ ops[1].rec \in ScreenRecords /\ RecordOK(ops[1].rec, ops[1].val.record)
  BY <1>1 DEF OpOK
<1>3. Moves(1, 0)
  BY <1>1, HeadLeaves DEF StoreInv
<1>4. /\ disk'[ops[1].rec] = ops[1].val.record /\ ops[1].val.record # Unset
      /\ \A r \in ScreenRecords : r # ops[1].rec => disk'[r] = disk[r] /\ settled'[r] = settled[r]
      /\ settled'[ops[1].rec] = IF ops[1].alone THEN Merge(settled[ops[1].rec], ops[1].val.asked) ELSE settled[ops[1].rec]
  BY <1>1, <1>2, RecordIsThere DEF StoreInv, DiskOK, SettledOK, Records
<1>5. ASSUME NEW r \in ScreenRecords PROVE OnDevice(r)' /\ ChangesOK(r)'
  <2>1. CASE r # ops[1].rec
    <3>1. \A i \in DOMAIN ops \ {1} : Changes(ops[i], r) => Respects(ops[i], settled'[r])
      BY <1>4, <2>1 DEF SettledInv, ChangesOK
    <3>2. ChangesOK(r)'
      BY <1>3, <3>1, ChangesMove DEF SettledInv
    <3> QED
      BY <1>4, <2>1, <3>2 DEF SettledInv, OnDevice, Stored
  <2>2. CASE r = ops[1].rec
    <3>1. Changes(ops[1], r) /\ Respects(ops[1], settled[r])
      BY <1>1, <2>2 DEF Changes, SettledInv, ChangesOK
    <3>2. \A i \in DOMAIN ops \ {1} : Changes(ops[i], r) => ~ops[1].alone /\ Respects(ops[i], settled[r])
      BY <1>1, <3>1 DEF SettledInv, ChangesOK
    <3>3. \A i \in DOMAIN ops \ {1} : Changes(ops[i], r) => Respects(ops[i], settled'[r])
      BY <1>4, <2>2, <3>2
    <3>4. ChangesOK(r)'
      BY <1>3, <3>3, ChangesMove DEF SettledInv
    <3>5. \A f \in DOMAIN settled'[r] : ops[1].val.record[f] = settled'[r][f]
      BY <1>1, <1>4, <2>2, <3>1 DEF Respects, Merge
    <3>6. OnDevice(r)'
      BY <1>4, <2>2, <3>5 DEF OnDevice, Stored
    <3> QED
      BY <3>4, <3>6
  <2> QED
    BY <2>1, <2>2
<1> QED
  BY <1>5 DEF SettledInv

\* A preference is none of the screens' records.
LEMMA SettledPref ==
  ASSUME StoreInv, SettledInv, ops # <<>>, ServePref(ops[1])
  PROVE  SettledInv'
<1>1. /\ OpOK(ops[1], Mounted) /\ ops[1].kind = "pref" /\ 1 \in DOMAIN ops
      /\ disk' = [disk EXCEPT ![ops[1].rec] = ops[1].val] /\ UNCHANGED settled
      /\ ops' = IF ops[1].rec = "rgb" THEN Append(Tail(ops), Op("pref", "mood", "custom")) ELSE Tail(ops)
  BY HeadOK DEF ServePref, StoreInv
<1>2. \A r \in ScreenRecords : disk'[r] = disk[r]
  BY <1>1 DEF OpOK, StoreInv, DiskOK, ScreenRecords, Prefs, ThemeRecords
<1>3. PICK op : op = Op("pref", "mood", "custom")
  OBVIOUS
<1>4. op.kind = "pref"
  BY <1>3 DEF Op
<1>5. PICK joins : Moves(1, joins) /\ (joins = 1 => Newest(1) = op)
  <2>1. CASE ops[1].rec = "rgb"
    BY <1>1, <1>3, <2>1, HeadLeavesOneJoins DEF StoreInv
  <2>2. CASE ops[1].rec # "rgb"
    <3>1. Moves(1, 0)
      BY <1>1, <2>2, HeadLeaves DEF StoreInv
    <3> QED
      BY <3>1
  <2> QED
    BY <2>1, <2>2
<1>6. ASSUME NEW r \in ScreenRecords PROVE OnDevice(r)' /\ ChangesOK(r)'
  <2>1. joins = 1 => ~Changes(Newest(1), r)
    BY <1>4, <1>5 DEF Changes
  <2>2. \A i \in DOMAIN ops \ {1} : Changes(ops[i], r) => Respects(ops[i], settled'[r])
    BY <1>1 DEF SettledInv, ChangesOK
  <2>3. ChangesOK(r)'
    BY <1>5, <2>1, <2>2, ChangesMove DEF SettledInv
  <2> QED
    BY <1>1, <1>2, <2>3 DEF SettledInv, OnDevice, Stored
<1> QED
  BY <1>6 DEF SettledInv

LEMMA SettledNext == StoreInv /\ SettledInv /\ [MobileNext]_mobileVars => SettledInv'
<1> SUFFICES ASSUME StoreInv, SettledInv, [MobileNext]_mobileVars PROVE SettledInv'
  OBVIOUS
<1>1. CASE Still
  <2>1. Moves(0, 0) /\ UNCHANGED <<disk, settled>>
    BY <1>1, NoneMoves DEF Still, stored, StoreInv
  <2> QED
    BY <2>1, SettledStill
<1>2. CASE Chosen
  <2>1. PICK p \in Prefs : \E value \in PrefValues[p] :
          ops' = Append(ops, Op("pref", p, value)) /\ UNCHANGED <<disk, settled>>
    BY <1>2 DEF Chosen
  <2>2. PICK value \in PrefValues[p] : ops' = Append(ops, Op("pref", p, value)) /\ UNCHANGED <<disk, settled>>
    BY <2>1
  <2>3. Moves(0, 1) /\ Newest(0) = Op("pref", p, value)
    BY <2>2, OneJoins DEF StoreInv
  <2>4. Newest(0).kind = "pref"
    BY <2>3 DEF Op
  <2> QED
    BY <2>2, <2>3, <2>4, SettledStill
<1>3. CASE Visited
  <2>1. PICK j \in {0, 1} : j = IF Mounted' \in ScreenRecords THEN 1 ELSE 0
    OBVIOUS
  <2>2. PICK k \in Nat : Moves(k, j) /\ (Mounted' \in ScreenRecords => Newest(k) = Op("load", Mounted', Unset))
    BY <1>3, <2>1, VisitMoves DEF Visited, StoreInv
  <2>3. j = 1 => Newest(k).kind = "load"
    BY <2>1, <2>2 DEF Op
  <2>4. UNCHANGED <<disk, settled>>
    BY <1>3 DEF Visited, VisitStorage
  <2> QED
    BY <2>2, <2>3, <2>4, SettledStill
<1>4. CASE Served
  <2>1. /\ ops # <<>> /\ Head(ops) = ops[1]
        /\ ServePatch(ops[1]) \/ ServeWrite(ops[1]) \/ ServeLoad(ops[1]) \/ ServeHydrate(ops[1]) \/ ServePref(ops[1])
    BY <1>4, HeadOK DEF Served, ServeStorage, StoreInv
  <2>2. CASE ServeLoad(ops[1]) \/ ServeHydrate(ops[1])
    <3>1. ops' = Tail(ops) /\ UNCHANGED <<disk, settled>>
      BY <2>2 DEF ServeLoad, ServeHydrate
    <3> QED
      BY <2>1, <3>1, HeadLeaves, SettledStill DEF StoreInv
  <2> QED
    BY <2>1, <2>2, SettledPatch, SettledWrite, SettledPref
<1>5. CASE UNCHANGED mobileVars
  BY <1>1, <1>5 DEF mobileVars, storageVars, Still, stored, Mounted
<1> QED
  BY <1>1, <1>2, <1>3, <1>4, <1>5, StepKinds, SettledChanged, SettledRelaunch DEF StoreInv

\* A security or identity setting whose change overlapped no other is on the device, and
\* stays until the customer changes it again, whatever is patched around it later and
\* however often the app is killed.
THEOREM MobileFinishedChangeSurvives == MobileSpec => []FinishedChangeSurvives
<1>1. MobileInit => SettledInv
  <2> SUFFICES ASSUME MobileInit PROVE SettledInv
    OBVIOUS
  <2>1. \A r \in ScreenRecords : DOMAIN settled[r] = {}
    BY DEF MobileInit, StorageInit
  <2>2. \A i \in DOMAIN ops : ops[i].kind = "hydrate"
    BY LaunchedOps DEF MobileInit, StorageInit
  <2> QED
    BY <2>1, <2>2 DEF SettledInv, OnDevice, ChangesOK, Changes
<1>2. StoreInv /\ SettledInv /\ [MobileNext]_mobileVars => StoreInv' /\ SettledInv'
  BY StoreNext, SettledNext
<1>3. SettledInv => FinishedChangeSurvives
  BY DEF SettledInv, OnDevice, FinishedChangeSurvives
<1> QED
  BY StoreInit, <1>1, <1>2, <1>3, PTL DEF MobileSpec

-----------------------------------------------------------------------------
(* PrefsAreStored: of a preference that is not overtaken, the last write on its way carries *)
(* what memory holds; with none on its way the disk has it, unless it is not read yet.      *)

Setter(op, p) == op.kind = "pref" /\ p \in Sets(op.rec)
Puts(op, p)   == IF op.rec = p THEN op.val ELSE "custom"
Reads(op, p)  == op.kind = "hydrate" /\ p \in op.val

Hydrating(p) == \E i \in DOMAIN ops : Reads(ops[i], p)
Last(i, p)   == Setter(ops[i], p) /\ \A j \in DOMAIN ops : i < j => ~Setter(ops[j], p)

PrefOK(p) ==
  /\ Hydrating(p) => mem[p] = DefaultPrefs[p] /\ \A i \in DOMAIN ops : ~Setter(ops[i], p)
  /\ \A i \in DOMAIN ops : Last(i, p) => Puts(ops[i], p) = mem[p]
  /\ ~Hydrating(p) /\ (\A i \in DOMAIN ops : ~Setter(ops[i], p)) => mem[p] = StoredPref(p)

\* A custom colour's second write is still to come: nothing sets the mood after it.
MoodLast == \A i \in DOMAIN ops : Setter(ops[i], "rgb") => Last(i, "mood")

\* One import or removal at a time, of the sounds memory holds.
JobsLast == /\ \A j \in jobs : j.was = mem["sound"]
            /\ \A j, k \in jobs : j = k
            /\ jobs # {} => ~Hydrating("sound")

PrefInv ==
  /\ \A p \in Prefs \ overtaken : PrefOK(p)
  /\ "mood" \notin overtaken => MoodLast
  /\ "sound" \notin overtaken => JobsLast

LEMMA AlikePrefs ==
  ASSUME NEW a, NEW b, Alike(a, b), NEW p
  PROVE  (Setter(a, p) <=> Setter(b, p)) /\ Puts(a, p) = Puts(b, p) /\ (Reads(a, p) <=> Reads(b, p)) /\ a.val = b.val
BY DEF Alike, Setter, Puts, Reads

\* Setters and reads, when the queue moves.
LEMMA PrefsMove ==
  ASSUME NEW p, NEW k, NEW joins, Moves(k, joins)
  PROVE  /\ \A i \in Stay(k) : /\ i \in DOMAIN ops' /\ Was(k, i) \in DOMAIN ops /\ Was(k, i) # k
                               /\ Setter(ops'[i], p) <=> Setter(ops[Was(k, i)], p)
                               /\ Puts(ops'[i], p) = Puts(ops[Was(k, i)], p)
                               /\ Reads(ops'[i], p) <=> Reads(ops[Was(k, i)], p)
                               /\ ops'[i].val = ops[Was(k, i)].val
         /\ joins = 1 => End(k) \in DOMAIN ops' /\ ops'[End(k)] = Newest(k) /\ \A i \in Stay(k) : i < End(k)
         /\ \A i \in DOMAIN ops' : i \in Stay(k) \/ (joins = 1 /\ i = End(k))
         /\ \A i, j \in Stay(k) : i < j <=> Was(k, i) < Was(k, j)
         /\ \A j \in DOMAIN ops : j = k \/ \E i \in Stay(k) : Was(k, i) = j
<1>1. /\ DOMAIN ops' = IF joins = 1 THEN Stay(k) \cup {End(k)} ELSE Stay(k)
      /\ \A i \in Stay(k) : i \in Nat /\ i < End(k)
      /\ \A i \in Stay(k) : Alike(ops'[i], ops[Was(k, i)]) /\ Was(k, i) \in DOMAIN ops \ {k} /\ Was(k, i) \in Nat
      /\ \A i, j \in Stay(k) : i < j <=> Was(k, i) < Was(k, j)
      /\ \A j \in DOMAIN ops \ {k} : \E i \in Stay(k) : Was(k, i) = j
  BY Places
<1>2. \A i \in Stay(k) : /\ Setter(ops'[i], p) <=> Setter(ops[Was(k, i)], p)
                         /\ Puts(ops'[i], p) = Puts(ops[Was(k, i)], p)
                         /\ Reads(ops'[i], p) <=> Reads(ops[Was(k, i)], p)
                         /\ ops'[i].val = ops[Was(k, i)].val
  BY <1>1, AlikePrefs
<1>3. ops'[End(k)] = Newest(k)
  BY DEF Newest, End
<1> QED
  BY <1>1, <1>2, <1>3

\* Nothing that reads or sets p leaves the queue or joins it.
LEMMA Unconcerned ==
  ASSUME NEW p, NEW k, NEW joins, Moves(k, joins),
         \A i \in DOMAIN ops : i = k => ~Setter(ops[i], p) /\ ~Reads(ops[i], p),
         joins = 1 => ~Setter(Newest(k), p) /\ ~Reads(Newest(k), p)
  PROVE  /\ Hydrating(p)' <=> Hydrating(p)
         /\ (\A i \in DOMAIN ops : ~Setter(ops[i], p))' <=> (\A i \in DOMAIN ops : ~Setter(ops[i], p))
         /\ \A i \in DOMAIN ops' : Last(i, p)' => i \in Stay(k) /\ Last(Was(k, i), p)
         /\ \A i \in Stay(k) : Last(Was(k, i), p) => Last(i, p)'
<1>1. /\ \A i \in Stay(k) : /\ i \in DOMAIN ops' /\ Was(k, i) \in DOMAIN ops
                            /\ Setter(ops'[i], p) <=> Setter(ops[Was(k, i)], p)
                            /\ Reads(ops'[i], p) <=> Reads(ops[Was(k, i)], p)
      /\ \A i \in DOMAIN ops' : i \in Stay(k) \/ (~Setter(ops'[i], p) /\ ~Reads(ops'[i], p))
      /\ \A i, j \in Stay(k) : i < j <=> Was(k, i) < Was(k, j)
      /\ \A j \in DOMAIN ops : (~Setter(ops[j], p) /\ ~Reads(ops[j], p)) \/ \E i \in Stay(k) : Was(k, i) = j
  <2>1. \A i \in Stay(k) : /\ i \in DOMAIN ops' /\ Was(k, i) \in DOMAIN ops
                           /\ Setter(ops'[i], p) <=> Setter(ops[Was(k, i)], p)
                           /\ Reads(ops'[i], p) <=> Reads(ops[Was(k, i)], p)
    BY PrefsMove
  <2>2. \A i \in DOMAIN ops' : i \in Stay(k) \/ (~Setter(ops'[i], p) /\ ~Reads(ops'[i], p))
    <3>1. \A i \in DOMAIN ops' : i \in Stay(k) \/ (joins = 1 /\ i = End(k))
      BY PrefsMove
    <3>2. joins = 1 => ops'[End(k)] = Newest(k)
      BY DEF Newest, End
    <3> QED
      BY <3>1, <3>2
  <2>3. \A i, j \in Stay(k) : i < j <=> Was(k, i) < Was(k, j)
    BY PrefsMove
  <2>4. \A j \in DOMAIN ops : (~Setter(ops[j], p) /\ ~Reads(ops[j], p)) \/ \E i \in Stay(k) : Was(k, i) = j
    <3>1. \A j \in DOMAIN ops : j = k \/ \E i \in Stay(k) : Was(k, i) = j
      BY PrefsMove
    <3> QED
      BY <3>1
  <2> QED
    BY <2>1, <2>2, <2>3, <2>4
<1>2. Hydrating(p)' <=> \E i \in DOMAIN ops' : Reads(ops'[i], p)
  BY DEF Hydrating, Reads
<1>3. (\A i \in DOMAIN ops : ~Setter(ops[i], p))' <=> \A i \in DOMAIN ops' : ~Setter(ops'[i], p)
  BY DEF Setter, Sets
<1>4. \A i : Last(i, p)' <=> Setter(ops'[i], p) /\ \A j \in DOMAIN ops' : i < j => ~Setter(ops'[j], p)
  BY DEF Last, Setter, Sets
<1>5. Hydrating(p)' <=> Hydrating(p)
  BY <1>1, <1>2 DEF Hydrating
<1>6. (\A i \in DOMAIN ops : ~Setter(ops[i], p))' <=> (\A i \in DOMAIN ops : ~Setter(ops[i], p))
  BY <1>1, <1>3
<1>7. ASSUME NEW i \in DOMAIN ops', Last(i, p)' PROVE i \in Stay(k) /\ Last(Was(k, i), p)
  <2>1. i \in Stay(k) /\ Setter(ops[Was(k, i)], p)
    BY <1>1, <1>4, <1>7
  <2>2. ASSUME NEW j \in DOMAIN ops, Was(k, i) < j PROVE ~Setter(ops[j], p)
    BY <1>1, <1>4, <1>7, <2>1, <2>2
  <2> QED
    BY <2>1, <2>2 DEF Last
<1>8. ASSUME NEW i \in Stay(k), Last(Was(k, i), p) PROVE Last(i, p)'
  <2>1. ASSUME NEW j \in DOMAIN ops', i < j PROVE ~Setter(ops'[j], p)
    BY <1>1, <1>8, <2>1 DEF Last
  <2> QED
    BY <1>1, <1>4, <1>8, <2>1 DEF Last
<1> QED
  BY <1>5, <1>6, <1>7, <1>8

LEMMA PrefFrame ==
  ASSUME NEW p, PrefOK(p), NEW k, NEW joins, Moves(k, joins), mem'[p] = mem[p], disk'[p] = disk[p],
         \A i \in DOMAIN ops : i = k => ~Setter(ops[i], p) /\ ~Reads(ops[i], p),
         joins = 1 => ~Setter(Newest(k), p) /\ ~Reads(Newest(k), p)
  PROVE  PrefOK(p)'
<1>1. /\ Hydrating(p)' <=> Hydrating(p)
      /\ (\A i \in DOMAIN ops : ~Setter(ops[i], p))' <=> (\A i \in DOMAIN ops : ~Setter(ops[i], p))
      /\ \A i \in DOMAIN ops' : Last(i, p)' => i \in Stay(k) /\ Last(Was(k, i), p)
  BY Unconcerned
<1>2. \A i \in Stay(k) : Was(k, i) \in DOMAIN ops /\ Puts(ops'[i], p) = Puts(ops[Was(k, i)], p)
  <2>1. \A i \in Stay(k) : Alike(ops'[i], ops[Was(k, i)]) /\ Was(k, i) \in DOMAIN ops \ {k}
    BY Places
  <2> QED
    BY <2>1, AlikePrefs
<1>3. \A i \in DOMAIN ops' : Last(i, p)' => Puts(ops'[i], p) = mem'[p]
  BY <1>1, <1>2 DEF PrefOK
<1>4. \A i : Puts(ops[i], p)' = Puts(ops'[i], p)
  BY DEF Puts
<1>5. StoredPref(p)' = StoredPref(p)
  BY DEF StoredPref
<1> QED
  BY <1>1, <1>3, <1>4, <1>5 DEF PrefOK

\* The newest operation of the queue sets p: it is p's last.
LEMMA LastJoins ==
  ASSUME NEW p, NEW k, Moves(k, 1), Setter(Newest(k), p), ~Reads(Newest(k), p)
  PROVE  /\ \A i \in DOMAIN ops' : Last(i, p)' <=> i = End(k)
         /\ End(k) \in DOMAIN ops' /\ ops'[End(k)] = Newest(k)
         /\ Hydrating(p)' => \E j \in DOMAIN ops : j # k /\ Reads(ops[j], p)
<1>1. /\ \A i \in Stay(k) : /\ i \in DOMAIN ops' /\ Was(k, i) \in DOMAIN ops /\ Was(k, i) # k
                            /\ Reads(ops'[i], p) <=> Reads(ops[Was(k, i)], p)
  BY PrefsMove
<1>2. End(k) \in DOMAIN ops' /\ ops'[End(k)] = Newest(k) /\ \A i \in Stay(k) : i < End(k)
  BY PrefsMove
<1>3. \A i \in DOMAIN ops' : i \in Stay(k) \/ i = End(k)
  BY PrefsMove
<1>4. End(k) \in Nat
  BY Places
<1>5. Hydrating(p)' <=> \E i \in DOMAIN ops' : Reads(ops'[i], p)
  BY DEF Hydrating, Reads
<1>6. \A i : Last(i, p)' <=> Setter(ops'[i], p) /\ \A j \in DOMAIN ops' : i < j => ~Setter(ops'[j], p)
  BY DEF Last, Setter, Sets
<1>7. ASSUME NEW i \in DOMAIN ops', i = End(k) PROVE Last(i, p)'
  <2>1. \A j \in DOMAIN ops' : ~(End(k) < j)
    <3>1. \A j \in Stay(k) : j \in Nat
      BY Places
    <3> QED
      BY <1>2, <1>3, <1>4, <3>1
  <2> QED
    BY <1>2, <1>6, <1>7, <2>1
<1>8. ASSUME NEW i \in DOMAIN ops', Last(i, p)' PROVE i = End(k)
  <2>1. Setter(ops'[End(k)], p)
    BY <1>2
  <2>2. i < End(k) => ~Setter(ops'[End(k)], p)
    BY <1>2, <1>6, <1>8
  <2> QED
    BY <1>2, <1>3, <2>1, <2>2
<1>9. Hydrating(p)' => \E j \in DOMAIN ops : j # k /\ Reads(ops[j], p)
  <2>1. ASSUME NEW i \in DOMAIN ops', Reads(ops'[i], p) PROVE \E j \in DOMAIN ops : j # k /\ Reads(ops[j], p)
    <3>1. i \in Stay(k)
      BY <1>2, <1>3, <2>1
    <3> QED
      BY <1>1, <2>1, <3>1
  <2> QED
    BY <1>5, <2>1
<1> QED
  BY <1>2, <1>7, <1>8, <1>9

\* What memory takes a setter puts on its way.
LEMMA PrefJoins ==
  ASSUME NEW p, NEW k, Moves(k, 1), Setter(Newest(k), p), ~Reads(Newest(k), p), Puts(Newest(k), p) = mem'[p],
         \A j \in DOMAIN ops : j # k => ~Reads(ops[j], p)
  PROVE  PrefOK(p)'
<1>1. /\ \A i \in DOMAIN ops' : Last(i, p)' <=> i = End(k)
      /\ End(k) \in DOMAIN ops' /\ ops'[End(k)] = Newest(k)
      /\ ~Hydrating(p)'
  BY LastJoins
<1>2. \A i : (Puts(ops[i], p))' = Puts(ops'[i], p)
  BY DEF Puts
<1>3. ~(\A i \in DOMAIN ops : ~Setter(ops[i], p))'
  BY <1>1 DEF Setter, Sets
<1> QED
  BY <1>1, <1>2, <1>3 DEF PrefOK

LEMMA MoodFrame ==
  ASSUME MoodLast, NEW k, NEW joins, Moves(k, joins),
         \A i \in DOMAIN ops : i = k => ~Setter(ops[i], "mood") /\ ~Reads(ops[i], "mood"),
         joins = 1 => ~Setter(Newest(k), "mood") /\ ~Reads(Newest(k), "mood")
  PROVE  MoodLast'
<1>1. \A op : Setter(op, "rgb") => Setter(op, "mood")
  BY DEF Setter, Sets
<1>2. /\ \A i \in Stay(k) : Last(Was(k, i), "mood") => Last(i, "mood")'
  BY Unconcerned
<1>3. /\ \A i \in Stay(k) : Was(k, i) \in DOMAIN ops /\ (Setter(ops'[i], "rgb") <=> Setter(ops[Was(k, i)], "rgb"))
  BY PrefsMove
<1>4. joins = 1 => ops'[End(k)] = Newest(k)
  BY PrefsMove
<1>5. \A i \in DOMAIN ops' : i \in Stay(k) \/ (joins = 1 /\ i = End(k))
  BY PrefsMove
<1>6. \A i : (Setter(ops[i], "rgb"))' <=> Setter(ops'[i], "rgb")
  BY DEF Setter, Sets
<1> QED
  BY <1>1, <1>2, <1>3, <1>4, <1>5, <1>6 DEF MoodLast

\* The imports go on, and none is started.
JobsAlong ==
  /\ \A j \in jobs' : \E i \in jobs : j.was = i.was
  /\ (\A j, k \in jobs : j = k) => \A j, k \in jobs' : j = k

LEMMA JobsFrame ==
  ASSUME JobsLast, JobsAlong, mem'["sound"] = mem["sound"], Hydrating("sound")' => Hydrating("sound")
  PROVE  JobsLast'
BY DEF JobsLast, JobsAlong

\* A step that concerns no preference.
LEMMA PrefsAside ==
  ASSUME PrefInv, NEW k, NEW joins, Moves(k, joins), JobsAlong, UNCHANGED <<mem, overtaken>>,
         \A p \in Prefs : disk'[p] = disk[p],
         \A i \in DOMAIN ops : i = k => ops[i].kind \notin {"pref", "hydrate"},
         joins = 1 => Newest(k).kind \notin {"pref", "hydrate"}
  PROVE  PrefInv'
<1>1. ASSUME NEW p PROVE /\ \A i \in DOMAIN ops : i = k => ~Setter(ops[i], p) /\ ~Reads(ops[i], p)
                         /\ joins = 1 => ~Setter(Newest(k), p) /\ ~Reads(Newest(k), p)
  BY DEF Setter, Reads
<1>2. ASSUME NEW p \in Prefs \ overtaken PROVE PrefOK(p)'
  BY <1>1, PrefFrame DEF PrefInv
<1>3. "mood" \notin overtaken => MoodLast'
  BY <1>1, MoodFrame DEF PrefInv
<1>4. Hydrating("sound")' <=> Hydrating("sound")
  BY <1>1, Unconcerned
<1>5. "sound" \notin overtaken => JobsLast'
  BY <1>4, JobsFrame DEF PrefInv
<1> QED
  BY <1>2, <1>3, <1>5 DEF PrefInv

LEMMA NoRace ==
  ASSUME NEW p, ~Racing(p)
  PROVE  /\ ~Hydrating(p) /\ \A i \in DOMAIN ops : ~Reads(ops[i], p)
         /\ p = "mood" => \A i \in DOMAIN ops : ~Setter(ops[i], "rgb")
BY DEF Racing, Hydrating, Reads, Setter, Sets

\* A setter of the theme or the language.
LEMMA PrefsTheme ==
  ASSUME StoreInv, PrefInv, NEW p \in Prefs \ {"sound"}, NEW value \in PrefValues[p], SetPref(p, value), UNCHANGED jobs
  PROVE  PrefInv'
<1>1. PICK op : op = Op("pref", p, value)
  OBVIOUS
<1>2. op.kind = "pref" /\ op.rec = p /\ op.val = value
  BY <1>1, PrefOpOK
<1>3. Moves(0, 1) /\ Newest(0) = op
  BY <1>1, OneJoins DEF SetPref, StoreInv
<1>4. /\ UNCHANGED disk /\ mem' = Merge(mem, ThemeValues(p, value)) /\ DOMAIN mem = Prefs
      /\ overtaken' = IF \E q \in Sets(p) : Racing(q) THEN overtaken \cup Sets(p) ELSE overtaken \ Sets(p)
  BY DEF SetPref, StoreInv, MemOK
<1>5. Sets(p) \subseteq Prefs /\ p \in Sets(p) /\ "sound" \notin Sets(p)
  BY DEF Sets, Prefs, ThemeRecords
<1>6. /\ \A q \in Sets(p) : mem'[q] = IF q = p THEN value ELSE "custom"
      /\ \A q \in Prefs \ Sets(p) : mem'[q] = mem[q]
  BY <1>4, <1>5 DEF Merge, ThemeValues
<1>7. \A q : (Setter(op, q) <=> q \in Sets(p)) /\ ~Reads(op, q)
  BY <1>2 DEF Setter, Reads
<1>8. \A i \in DOMAIN ops : i # 0
  BY <1>3 DEF Moves
<1>9. ASSUME NEW q \in Prefs \ overtaken', q \in Sets(p) PROVE PrefOK(q)'
  <2>1. ~Racing(q)
    BY <1>4, <1>9
  <2>2. Puts(op, q) = mem'[q]
    BY <1>2, <1>6, <1>9 DEF Puts
  <2> QED
    BY <1>3, <1>7, <1>9, <2>1, <2>2, NoRace, PrefJoins
<1>10. ASSUME NEW q \in Prefs \ overtaken', q \notin Sets(p) PROVE PrefOK(q)'
  <2>1. q \notin overtaken
    BY <1>4, <1>10
  <2>2. PrefOK(q) /\ mem'[q] = mem[q] /\ disk'[q] = disk[q]
    BY <1>4, <1>6, <1>10, <2>1 DEF PrefInv
  <2> QED
    BY <1>3, <1>7, <1>8, <1>10, <2>2, PrefFrame
<1>11. ASSUME "mood" \notin overtaken' PROVE MoodLast'
  <2>1. CASE "mood" \in Sets(p)
    <3>1. ~Racing("mood")
      BY <1>4, <1>11, <2>1
    <3>2. \A i \in DOMAIN ops : ~Setter(ops[i], "rgb")
      BY <3>1, NoRace
    <3>3. \A i \in Stay(0) : Was(0, i) \in DOMAIN ops /\ (Setter(ops'[i], "rgb") <=> Setter(ops[Was(0, i)], "rgb"))
      BY <1>3, PrefsMove
    <3>4. \A i \in DOMAIN ops' : i \in Stay(0) \/ i = End(0)
      BY <1>3, PrefsMove
    <3>5. \A i \in DOMAIN ops' : Last(i, "mood")' <=> i = End(0)
      BY <1>3, <1>7, <2>1, LastJoins
    <3>6. \A i : (Setter(ops[i], "rgb"))' <=> Setter(ops'[i], "rgb")
      BY DEF Setter, Sets
    <3> QED
      BY <3>2, <3>3, <3>4, <3>5, <3>6 DEF MoodLast
  <2>2. CASE "mood" \notin Sets(p)
    <3>1. MoodLast
      BY <1>4, <1>11, <2>2 DEF PrefInv
    <3> QED
      BY <1>3, <1>7, <1>8, <2>2, <3>1, MoodFrame
  <2> QED
    BY <2>1, <2>2
<1>12. ASSUME "sound" \notin overtaken' PROVE JobsLast'
  <2>1. JobsLast /\ JobsAlong
    BY <1>4, <1>5, <1>12 DEF PrefInv, JobsAlong
  <2>2. mem'["sound"] = mem["sound"]
    BY <1>5, <1>6 DEF Prefs
  <2>3. Hydrating("sound")' <=> Hydrating("sound")
    BY <1>3, <1>5, <1>7, <1>8, Unconcerned
  <2> QED
    BY <2>1, <2>2, <2>3, JobsFrame
<1> QED
  BY <1>9, <1>10, <1>11, <1>12 DEF PrefInv

LEMMA PrefsHydrate ==
  ASSUME StoreInv, PrefInv, ops # <<>>, ServeHydrate(ops[1]), UNCHANGED jobs
  PROVE  PrefInv'
<1>1. /\ OpOK(ops[1], Mounted) /\ ops[1].kind = "hydrate" /\ 1 \in DOMAIN ops
      /\ ops' = Tail(ops) /\ UNCHANGED <<disk, overtaken>>
      /\ mem' = [p \in Prefs |-> IF p \in ops[1].val /\ disk[p] # Unset THEN disk[p] ELSE mem[p]]
  BY HeadOK DEF ServeHydrate, StoreInv
<1>2. Moves(1, 0)
  BY <1>1, HeadLeaves DEF StoreInv
<1>3. \A p : ~Setter(ops[1], p) /\ (Reads(ops[1], p) <=> p \in ops[1].val)
  BY <1>1 DEF Setter, Reads
<1>4. ASSUME NEW p \in Prefs \ overtaken, p \in ops[1].val PROVE PrefOK(p)'
  <2>1. /\ mem[p] = DefaultPrefs[p] /\ \A i \in DOMAIN ops : ~Setter(ops[i], p)
    BY <1>1, <1>3, <1>4 DEF PrefInv, PrefOK, Hydrating
  <2>2. mem'[p] = StoredPref(p)'
    BY <1>1, <1>4, <2>1 DEF StoredPref
  <2>3. \A i \in DOMAIN ops \ {1} : ~Reads(ops[i], p)
    BY <1>1, <1>4 DEF Reads, StoreInv, Queue
  <2>4. \A i \in DOMAIN ops' : \E j \in DOMAIN ops \ {1} :
          (Setter(ops'[i], p) <=> Setter(ops[j], p)) /\ (Reads(ops'[i], p) <=> Reads(ops[j], p))
    <3>1. \A i \in Stay(1) : /\ Was(1, i) \in DOMAIN ops /\ Was(1, i) # 1
                             /\ Setter(ops'[i], p) <=> Setter(ops[Was(1, i)], p)
                             /\ Reads(ops'[i], p) <=> Reads(ops[Was(1, i)], p)
      BY <1>2, PrefsMove
    <3>2. \A i \in DOMAIN ops' : i \in Stay(1)
      BY <1>2, NoneJoins
    <3> QED
      BY <3>1, <3>2
  <2>5. \A i \in DOMAIN ops' : ~Setter(ops'[i], p) /\ ~Reads(ops'[i], p)
    BY <2>1, <2>3, <2>4
  <2>6. /\ \A i : (Setter(ops[i], p))' <=> Setter(ops'[i], p)
        /\ \A i : (Reads(ops[i], p))' <=> Reads(ops'[i], p)
    BY DEF Setter, Sets, Reads
  <2> QED
    BY <2>2, <2>5, <2>6 DEF PrefOK, Hydrating, Last
<1>5. ASSUME NEW p \in Prefs \ overtaken, p \notin ops[1].val PROVE PrefOK(p)'
  <2>1. PrefOK(p) /\ mem'[p] = mem[p] /\ disk'[p] = disk[p]
    BY <1>1, <1>5 DEF PrefInv
  <2> QED
    BY <1>2, <1>3, <1>5, <2>1, PrefFrame
<1>6. ASSUME "mood" \notin overtaken PROVE MoodLast'
  <2>1. CASE "mood" \notin ops[1].val
    BY <1>2, <1>3, <1>6, <2>1, MoodFrame DEF PrefInv
  <2>2. CASE "mood" \in ops[1].val
    <3>0. "mood" \in Prefs
      BY DEF Prefs, ThemeRecords
    <3>1. \A i \in DOMAIN ops : ~Setter(ops[i], "mood")
      BY <1>1, <1>3, <1>6, <2>2, <3>0 DEF PrefInv, PrefOK, Hydrating
    <3>2. \A i \in DOMAIN ops : ~Setter(ops[i], "rgb")
      BY <3>1 DEF Setter, Sets
    <3>3. \A i \in Stay(1) : Was(1, i) \in DOMAIN ops /\ (Setter(ops'[i], "rgb") <=> Setter(ops[Was(1, i)], "rgb"))
      BY <1>2, PrefsMove
    <3>4. \A i \in DOMAIN ops' : i \in Stay(1)
      BY <1>2, NoneJoins
    <3>5. \A i : (Setter(ops[i], "rgb"))' <=> Setter(ops'[i], "rgb")
      BY DEF Setter, Sets
    <3> QED
      BY <3>2, <3>3, <3>4, <3>5 DEF MoodLast
  <2> QED
    BY <2>1, <2>2
<1>7. ASSUME "sound" \notin overtaken PROVE JobsLast'
  <2>1. JobsLast /\ JobsAlong
    BY <1>7 DEF PrefInv, JobsAlong
  <2>2. Hydrating("sound")' => Hydrating("sound")
    <3>1. \A i \in Stay(1) : Was(1, i) \in DOMAIN ops /\ (Reads(ops'[i], "sound") <=> Reads(ops[Was(1, i)], "sound"))
      BY <1>2, PrefsMove
    <3>2. \A i \in DOMAIN ops' : i \in Stay(1)
      BY <1>2, NoneJoins
    <3>3. \A i : (Reads(ops[i], "sound"))' <=> Reads(ops'[i], "sound")
      BY DEF Reads
    <3> QED
      BY <3>1, <3>2, <3>3 DEF Hydrating
  <2>3. CASE jobs = {}
    BY <2>3 DEF JobsLast
  <2>4. CASE jobs # {}
    <3>1. "sound" \notin ops[1].val
      BY <1>1, <1>3, <2>1, <2>4 DEF JobsLast, Hydrating
    <3>2. mem'["sound"] = mem["sound"]
      BY <1>1, <3>1 DEF Prefs
    <3> QED
      BY <2>1, <2>2, <3>2, JobsFrame
  <2> QED
    BY <2>3, <2>4
<1> QED
  BY <1>1, <1>4, <1>5, <1>6, <1>7 DEF PrefInv

\* The oldest operation leaves; what joins does not set p.
LEMMA HeadGone ==
  ASSUME NEW p, NEW joins, Moves(1, joins), joins = 1 => ~Setter(Newest(1), p)
  PROVE  /\ \A i \in DOMAIN ops' : Last(i, p)' => i \in Stay(1) /\ Last(Was(1, i), p)
         /\ \A i \in Stay(1) : Last(Was(1, i), p) => Last(i, p)'
         /\ (\A i \in DOMAIN ops : ~Setter(ops[i], p))' => \A j \in DOMAIN ops : j # 1 => ~Setter(ops[j], p)
<1>1. \A i \in Stay(1) : /\ i \in DOMAIN ops' /\ Was(1, i) \in DOMAIN ops
                         /\ Setter(ops'[i], p) <=> Setter(ops[Was(1, i)], p)
  BY PrefsMove
<1>2. joins = 1 => ops'[End(1)] = Newest(1)
  BY PrefsMove
<1>a. \A i \in DOMAIN ops' : i \in Stay(1) \/ (joins = 1 /\ i = End(1))
  BY PrefsMove
<1>3. \A i, j \in Stay(1) : i < j <=> Was(1, i) < Was(1, j)
  BY PrefsMove
<1>4. \A j \in DOMAIN ops : j = 1 \/ \E i \in Stay(1) : Was(1, i) = j
  BY PrefsMove
<1>5. \A i, j \in DOMAIN ops : i < j => j # 1
  BY DEF Moves
<1>6. \A i : Last(i, p)' <=> Setter(ops'[i], p) /\ \A j \in DOMAIN ops' : i < j => ~Setter(ops'[j], p)
  BY DEF Last, Setter, Sets
<1>7. ASSUME NEW i \in DOMAIN ops', Last(i, p)' PROVE i \in Stay(1) /\ Last(Was(1, i), p)
  <2>1. i \in Stay(1) /\ Setter(ops[Was(1, i)], p) /\ Was(1, i) \in DOMAIN ops
    BY <1>1, <1>2, <1>a, <1>6, <1>7
  <2>2. ASSUME NEW j \in DOMAIN ops, Was(1, i) < j PROVE ~Setter(ops[j], p)
    <3>1. PICK x \in Stay(1) : Was(1, x) = j
      BY <1>4, <1>5, <2>1, <2>2
    <3> QED
      BY <1>1, <1>3, <1>6, <1>7, <2>1, <2>2, <3>1
  <2> QED
    BY <2>1, <2>2 DEF Last
<1>8. ASSUME NEW i \in Stay(1), Last(Was(1, i), p) PROVE Last(i, p)'
  <2>1. ASSUME NEW j \in DOMAIN ops', i < j PROVE ~Setter(ops'[j], p)
    BY <1>1, <1>2, <1>a, <1>3, <1>8, <2>1 DEF Last
  <2> QED
    BY <1>1, <1>6, <1>8, <2>1 DEF Last
<1>9. (\A i \in DOMAIN ops : ~Setter(ops[i], p))' => \A j \in DOMAIN ops : j # 1 => ~Setter(ops[j], p)
  <2>1. (\A i \in DOMAIN ops : ~Setter(ops[i], p))' => \A i \in DOMAIN ops' : ~Setter(ops'[i], p)
    BY DEF Setter, Sets
  <2> QED
    BY <1>1, <1>4, <2>1
<1> QED
  BY <1>7, <1>8, <1>9

LEMMA PrefsServe ==
  ASSUME StoreInv, PrefInv, ops # <<>>, ServePref(ops[1]), UNCHANGED jobs
  PROVE  PrefInv'
<1>1. /\ OpOK(ops[1], Mounted) /\ ops[1].kind = "pref" /\ 1 \in DOMAIN ops
      /\ disk' = [disk EXCEPT ![ops[1].rec] = ops[1].val] /\ UNCHANGED <<mem, overtaken>>
      /\ ops' = IF ops[1].rec = "rgb" THEN Append(Tail(ops), Op("pref", "mood", "custom")) ELSE Tail(ops)
  BY HeadOK DEF ServePref, StoreInv
<1>2. PICK q \in Prefs : q = ops[1].rec /\ ops[1].val \in PrefValues[q] /\ ops[1].val # Unset
  BY <1>1, UnsetAssumption DEF OpOK
<1>3. /\ disk'[q] = ops[1].val /\ \A p \in Prefs : p # q => disk'[p] = disk[p]
  BY <1>1, <1>2 DEF StoreInv, DiskOK, Records
<1>4. PICK op : op = Op("pref", "mood", "custom")
  OBVIOUS
<1>5. op.kind = "pref" /\ op.rec = "mood" /\ op.val = "custom"
  BY <1>4, MoodIsCustom, PrefOpOK
<1>6. PICK joins \in {0, 1} : (joins = 1 <=> q = "rgb") /\ Moves(1, joins) /\ (joins = 1 => Newest(1) = op)
  <2>1. CASE q = "rgb"
    <3>1. Moves(1, 1) /\ Newest(1) = op
      BY <1>1, <1>2, <1>4, <2>1, HeadLeavesOneJoins DEF StoreInv
    <3> QED
      BY <2>1, <3>1
  <2>2. CASE q # "rgb"
    <3>1. Moves(1, 0)
      BY <1>1, <1>2, <2>2, HeadLeaves DEF StoreInv
    <3> QED
      BY <2>2, <3>1
  <2> QED
    BY <2>1, <2>2
<1>7. \A p : \A i \in DOMAIN ops : ~Reads(ops[i], p)
  <2>1. \A i \in DOMAIN ops : i \in Nat /\ 1 <= i
    BY <1>6 DEF Moves
  <2>2. \A i \in DOMAIN ops : ops[i].kind # "hydrate"
    BY <1>1, <2>1 DEF StoreInv, Queue
  <2> QED
    BY <2>2 DEF Reads
<1>8. \A p : /\ Setter(ops[1], p) <=> p \in Sets(q)
             /\ Setter(op, p) <=> p = "mood"
             /\ ~Reads(op, p)
  BY <1>1, <1>2, <1>5 DEF Setter, Reads, Sets
<1>9. "mood" \in Sets("rgb") /\ Sets(q) \subseteq {q, "mood"} /\ q \in Sets(q) /\ (q # "rgb" => Sets(q) = {q})
  BY DEF Sets
<1>10. ASSUME NEW p \in Prefs \ overtaken, p \notin Sets(q) PROVE PrefOK(p)'
  <2>1. PrefOK(p) /\ mem'[p] = mem[p] /\ disk'[p] = disk[p]
    BY <1>1, <1>3, <1>9, <1>10 DEF PrefInv
  <2> QED
    BY <1>6, <1>7, <1>8, <1>9, <1>10, <2>1, PrefFrame
<1>11. ASSUME NEW p \in Prefs \ overtaken, p = q PROVE PrefOK(p)'
  <2>1. joins = 1 => ~Setter(Newest(1), p)
    BY <1>6, <1>8, <1>11
  <2>2. \A i \in DOMAIN ops' : Last(i, p)' => i \in Stay(1) /\ Last(Was(1, i), p)
    BY <1>6, <2>1, HeadGone
  <2>3. (\A i \in DOMAIN ops : ~Setter(ops[i], p))' => \A j \in DOMAIN ops : j # 1 => ~Setter(ops[j], p)
    BY <1>6, <2>1, HeadGone
  <2>4. \A i \in Stay(1) : Was(1, i) \in DOMAIN ops /\ Puts(ops'[i], p) = Puts(ops[Was(1, i)], p)
    <3>1. \A i \in Stay(1) : Alike(ops'[i], ops[Was(1, i)]) /\ Was(1, i) \in DOMAIN ops \ {1}
      BY <1>6, Places
    <3> QED
      BY <3>1, AlikePrefs
  <2>5. \A i \in DOMAIN ops' : Last(i, p)' => Puts(ops'[i], p) = mem'[p]
    BY <1>1, <1>11, <2>2, <2>4 DEF PrefInv, PrefOK
  <2>6. ~Hydrating(p)'
    <3>1. \A i \in DOMAIN ops' : ~Reads(ops'[i], p)
      <4>1. \A i \in Stay(1) : Was(1, i) \in DOMAIN ops /\ (Reads(ops'[i], p) <=> Reads(ops[Was(1, i)], p))
        BY <1>6, PrefsMove
      <4>2. \A i \in DOMAIN ops' : i \in Stay(1) \/ (joins = 1 /\ i = End(1))
        BY <1>6, PrefsMove
      <4>3. joins = 1 => ops'[End(1)] = Newest(1)
        BY <1>6, PrefsMove
      <4> QED
        BY <1>6, <1>7, <1>8, <4>1, <4>2, <4>3
    <3>2. \A i : (Reads(ops[i], p))' <=> Reads(ops'[i], p)
      BY DEF Reads
    <3> QED
      BY <3>1, <3>2 DEF Hydrating
  <2>7. ASSUME (\A i \in DOMAIN ops : ~Setter(ops[i], p))' PROVE mem'[p] = StoredPref(p)'
    <3>1. \A j \in DOMAIN ops : 1 < j => ~Setter(ops[j], p)
      BY <2>3, <2>7
    <3>2. Last(1, p)
      BY <1>8, <1>9, <1>11, <3>1 DEF Last
    <3>3. ops[1].val = mem[p]
      BY <1>1, <1>2, <1>11, <3>2 DEF PrefInv, PrefOK, Puts
    <3> QED
      BY <1>1, <1>2, <1>3, <1>11, <3>3 DEF StoredPref
  <2>8. \A i : (Puts(ops[i], p))' = Puts(ops'[i], p)
    BY DEF Puts
  <2> QED
    BY <2>5, <2>6, <2>7, <2>8 DEF PrefOK
<1>12. ASSUME "mood" \notin overtaken, q = "rgb"
       PROVE  Last(1, "mood") /\ mem["mood"] = "custom"
  <2>1. Last(1, "mood")
    BY <1>1, <1>8, <1>9, <1>12 DEF PrefInv, MoodLast
  <2>2. "mood" \in Prefs
    BY DEF Prefs, ThemeRecords
  <2> QED
    BY <1>1, <1>2, <1>12, <2>1, <2>2 DEF PrefInv, PrefOK, Puts
<1>13. ASSUME NEW p \in Prefs \ overtaken, p \in Sets(q), p # q PROVE PrefOK(p)'
  <2>1. p = "mood" /\ q = "rgb"
    BY <1>9, <1>13
  <2>2. Moves(1, 1) /\ Newest(1) = op
    BY <1>6, <2>1
  <2>3. Puts(Newest(1), p) = mem'[p] /\ Setter(Newest(1), p) /\ ~Reads(Newest(1), p)
    BY <1>1, <1>5, <1>8, <1>12, <1>13, <2>1, <2>2 DEF Puts
  <2> QED
    BY <1>7, <2>2, <2>3, PrefJoins
<1>14. ASSUME "mood" \notin overtaken PROVE MoodLast'
  <2>1. CASE "mood" \notin Sets(q)
    <3>1. q # "rgb" /\ joins # 1
      BY <1>6, <1>9, <2>1
    <3>2. \A i \in DOMAIN ops : i = 1 => ~Setter(ops[i], "mood") /\ ~Reads(ops[i], "mood")
      BY <1>7, <1>8, <2>1
    <3>3. MoodLast
      BY <1>14 DEF PrefInv
    <3> QED
      BY <1>6, <3>1, <3>2, <3>3, MoodFrame
  <2>2. CASE "mood" \in Sets(q)
    <3>1. \A i \in Stay(1) : /\ Was(1, i) \in DOMAIN ops /\ Was(1, i) # 1
                             /\ Setter(ops'[i], "rgb") <=> Setter(ops[Was(1, i)], "rgb")
      BY <1>6, PrefsMove
    <3>2. \A i \in DOMAIN ops' : i \in Stay(1) \/ (joins = 1 /\ i = End(1))
      BY <1>6, PrefsMove
    <3>3. joins = 1 => ops'[End(1)] = op
      BY <1>6, PrefsMove
    <3>4. \A i : (Setter(ops[i], "rgb"))' <=> Setter(ops'[i], "rgb")
      BY DEF Setter, Sets
    <3>5. \A i \in DOMAIN ops' : Setter(ops'[i], "rgb") => i \in Stay(1) /\ Setter(ops[Was(1, i)], "rgb") /\ Was(1, i) # 1
      BY <1>8, <3>1, <3>2, <3>3
    <3>6. \A i \in Stay(1) : Setter(ops[Was(1, i)], "rgb") => Last(Was(1, i), "mood")
      BY <1>14, <3>1 DEF PrefInv, MoodLast
    <3>7. CASE q = "rgb"
      <4>1. \A j \in DOMAIN ops : j # 1 => ~Setter(ops[j], "mood")
        <5>1. \A j \in DOMAIN ops : j # 1 => 1 < j
          BY <1>6 DEF Moves
        <5> QED
          BY <1>12, <1>14, <3>7, <5>1 DEF Last
      <4>2. \A i \in Stay(1) : Last(Was(1, i), "mood") => Setter(ops[Was(1, i)], "mood")
        BY DEF Last
      <4> QED
        BY <3>1, <3>4, <3>5, <3>6, <4>1, <4>2 DEF MoodLast
    <3>8. CASE q # "rgb"
      <4>1. joins = 1 => ~Setter(Newest(1), "mood")
        BY <1>6, <3>8
      <4>2. \A i \in Stay(1) : Last(Was(1, i), "mood") => Last(i, "mood")'
        BY <1>6, <4>1, HeadGone
      <4> QED
        BY <3>4, <3>5, <3>6, <4>2 DEF MoodLast
    <3> QED
      BY <3>7, <3>8
  <2> QED
    BY <2>1, <2>2
<1>15. ASSUME "sound" \notin overtaken PROVE JobsLast'
  <2>1. JobsLast /\ JobsAlong /\ mem'["sound"] = mem["sound"]
    BY <1>1, <1>15 DEF PrefInv, JobsAlong
  <2>2. ~Hydrating("sound")'
    <3>1. \A i \in Stay(1) : Was(1, i) \in DOMAIN ops /\ (Reads(ops'[i], "sound") <=> Reads(ops[Was(1, i)], "sound"))
      BY <1>6, PrefsMove
    <3>2. \A i \in DOMAIN ops' : i \in Stay(1) \/ (joins = 1 /\ i = End(1))
      BY <1>6, PrefsMove
    <3>3. joins = 1 => ops'[End(1)] = Newest(1)
      BY <1>6, PrefsMove
    <3>4. \A i : (Reads(ops[i], "sound"))' <=> Reads(ops'[i], "sound")
      BY DEF Reads
    <3> QED
      BY <1>6, <1>7, <1>8, <3>1, <3>2, <3>3, <3>4 DEF Hydrating
  <2> QED
    BY <2>1, <2>2, JobsFrame
<1> QED
  BY <1>1, <1>10, <1>11, <1>13, <1>14, <1>15 DEF PrefInv

\* A setter of the sounds, or an import or removal that is recorded.
LEMMA PrefsSound ==
  ASSUME StoreInv, PrefInv, NEW shown, NEW written, SoundChosen(shown, written),
         overtaken' \cup {"sound"} = overtaken \cup {"sound"},
         "sound" \notin overtaken' => shown = written /\ ~Hydrating("sound") /\ jobs' = {}
  PROVE  PrefInv'
<1>0. "sound" \in Prefs /\ written \in PrefValues["sound"]
  BY DEF SoundChosen, PrefValues, Prefs
<1>1. PICK op : op = Op("pref", "sound", written)
  OBVIOUS
<1>2. op.kind = "pref" /\ op.rec = "sound" /\ op.val = written
  BY <1>0, <1>1, PrefOpOK
<1>3. /\ Moves(0, 1) /\ Newest(0) = op
      /\ UNCHANGED disk /\ mem' = [mem EXCEPT !["sound"] = shown]
  BY <1>1, OneJoins DEF SoundChosen, PutSound, StoreInv
<1>4. mem'["sound"] = shown /\ \A p \in Prefs \ {"sound"} : mem'[p] = mem[p]
  BY <1>0, <1>3 DEF StoreInv, MemOK
<1>5. \A p : (Setter(op, p) <=> p = "sound") /\ ~Reads(op, p)
  BY <1>2 DEF Setter, Reads, Sets
<1>6. \A i \in DOMAIN ops : i # 0
  BY <1>3 DEF Moves
<1>7. ASSUME NEW p \in Prefs \ overtaken', p # "sound" PROVE PrefOK(p)'
  <2>1. PrefOK(p) /\ mem'[p] = mem[p] /\ disk'[p] = disk[p]
    BY <1>3, <1>4, <1>7 DEF PrefInv
  <2> QED
    BY <1>3, <1>5, <1>6, <1>7, <2>1, PrefFrame
<1>8. ASSUME "sound" \notin overtaken' PROVE PrefOK("sound")'
  <2>1. Puts(Newest(0), "sound") = mem'["sound"] /\ Setter(Newest(0), "sound") /\ ~Reads(Newest(0), "sound")
    BY <1>2, <1>3, <1>4, <1>5, <1>8 DEF Puts
  <2>2. \A j \in DOMAIN ops : j # 0 => ~Reads(ops[j], "sound")
    BY <1>8 DEF Hydrating
  <2> QED
    BY <1>3, <2>1, <2>2, PrefJoins
<1>9. ASSUME "mood" \notin overtaken' PROVE MoodLast'
  <2>1. MoodLast
    BY <1>9 DEF PrefInv
  <2> QED
    BY <1>3, <1>5, <1>6, <2>1, MoodFrame
<1>10. ASSUME "sound" \notin overtaken' PROVE JobsLast'
  BY <1>10 DEF JobsLast
<1> QED
  BY <1>7, <1>8, <1>9, <1>10 DEF PrefInv

\* Memory's sounds are left as they are, or are overtaken.
LEMMA PrefsPreview ==
  ASSUME StoreInv, PrefInv, UNCHANGED <<disk, ops, jobs>>, mem' = [mem EXCEPT !["sound"] = mem'["sound"]],
         overtaken' \cup {"sound"} = overtaken \cup {"sound"},
         "sound" \notin overtaken' => "sound" \notin overtaken /\ mem'["sound"] = mem["sound"]
  PROVE  PrefInv'
<1>1. Moves(0, 0)
  BY NoneMoves DEF StoreInv
<1>2. \A i \in DOMAIN ops : i # 0
  BY <1>1 DEF Moves
<1>3. \A p \in Prefs \ {"sound"} : mem'[p] = mem[p]
  BY DEF StoreInv, MemOK
<1>4. ASSUME NEW p \in Prefs \ overtaken' PROVE PrefOK(p)'
  <2>1. PrefOK(p) /\ mem'[p] = mem[p] /\ disk'[p] = disk[p]
    BY <1>3, <1>4 DEF PrefInv
  <2> QED
    BY <1>1, <1>2, <2>1, PrefFrame
<1>5. ASSUME "mood" \notin overtaken' PROVE MoodLast'
  <2>1. MoodLast
    BY <1>5 DEF PrefInv
  <2> QED
    BY <1>1, <1>2, <2>1, MoodFrame
<1>6. ASSUME "sound" \notin overtaken' PROVE JobsLast'
  <2>1. JobsLast /\ JobsAlong /\ mem'["sound"] = mem["sound"]
    BY <1>6 DEF PrefInv, JobsAlong
  <2>2. Hydrating("sound")' <=> Hydrating("sound")
    BY DEF Hydrating, Reads
  <2> QED
    BY <2>1, <2>2, JobsFrame
<1> QED
  BY <1>4, <1>5, <1>6 DEF PrefInv

\* An import or a removal is started.
LEMMA PrefsStart ==
  ASSUME StoreInv, PrefInv, NEW kind, NEW stage, NEW new, StartJob(kind, stage, new)
  PROVE  PrefInv'
<1>1. /\ UNCHANGED <<disk, ops, mem>>
      /\ jobs' = jobs \cup {[kind |-> kind, stage |-> stage, was |-> Sound, new |-> new]}
      /\ overtaken' = IF jobs # {} \/ Racing("sound") THEN overtaken \cup {"sound"} ELSE overtaken
  BY DEF StartJob
<1>2. Moves(0, 0) /\ \A i \in DOMAIN ops : i # 0
  BY <1>1, NoneMoves DEF StoreInv, Moves
<1>3. ASSUME NEW p \in Prefs \ overtaken' PROVE PrefOK(p)'
  <2>1. PrefOK(p) /\ mem'[p] = mem[p] /\ disk'[p] = disk[p]
    BY <1>1, <1>3 DEF PrefInv
  <2> QED
    BY <1>2, <2>1, PrefFrame
<1>4. ASSUME "mood" \notin overtaken' PROVE MoodLast'
  <2>1. MoodLast
    BY <1>1, <1>4 DEF PrefInv
  <2> QED
    BY <1>2, <2>1, MoodFrame
<1>5. ASSUME "sound" \notin overtaken' PROVE JobsLast'
  <2>1. jobs = {} /\ ~Racing("sound")
    BY <1>1, <1>5
  <2>2. ~Hydrating("sound")
    BY <2>1, NoRace
  <2>3. Hydrating("sound")' <=> Hydrating("sound")
    BY <1>1 DEF Hydrating, Reads
  <2>a. PICK j : j = [kind |-> kind, stage |-> stage, was |-> Sound, new |-> new]
    OBVIOUS
  <2>4. jobs' = {j} /\ j.was = Sound
    BY <1>1, <2>1, <2>a
  <2> QED
    BY <1>1, <2>2, <2>3, <2>4 DEF JobsLast, Sound
<1> QED
  BY <1>3, <1>4, <1>5 DEF PrefInv

LEMMA PrefsSettings ==
  ASSUME StoreInv, PrefInv, SoundSettings
  PROVE  PrefInv'
<1>1. Sound \in SoundRecords /\ mem = [p \in Prefs |-> mem[p]] /\ "sound" \in Prefs
  BY DEF StoreInv, MemOK, Sound, PrefValues, Prefs
<1>2. ASSUME NEW shown \in SoundRecords, NEW written \in SoundRecords, NEW share, SetSound(shown, written, share)
      PROVE  PrefInv'
  <2>1. /\ SoundChosen(shown, written) /\ UNCHANGED jobs
        /\ IF shown # written THEN overtaken' = overtaken \cup {"sound"}
           ELSE overtaken' = IF jobs # {} \/ Racing("sound") THEN overtaken \cup {"sound"} ELSE overtaken \ {"sound"}
    BY <1>2 DEF SetSound, NoteSound, SoundChosen
  <2>2. "sound" \notin overtaken' => shown = written /\ jobs = {} /\ ~Racing("sound")
    BY <2>1
  <2>3. overtaken' \cup {"sound"} = overtaken \cup {"sound"}
    BY <2>1
  <2> QED
    BY <2>1, <2>2, <2>3, NoRace, PrefsSound
<1>3. CASE ToggleClicks
  BY <1>1, <1>2, <1>3, NextSounds DEF ToggleClicks
<1>4. CASE ToggleSonic
  BY <1>1, <1>2, <1>4, NextSounds DEF ToggleSonic
<1>5. CASE ChoosePack
  <2>1. PICK p \in {"military", "cyber", "custom"} :
          SetSound(Unmuted([Sound EXCEPT !.pack = p]), [Sound EXCEPT !.pack = p], FALSE)
    BY <1>5 DEF ChoosePack
  <2>2. [Sound EXCEPT !.pack = p] \in SoundRecords
    BY <1>1, SoundEdits
  <2> QED
    BY <1>2, <2>1, <2>2, NextSounds
<1>6. CASE ChooseServices
  BY <1>1, <1>2, <1>6, NextSounds DEF ChooseServices
<1>7. CASE PreviewClick
  <2>1. /\ UNCHANGED <<disk, ops, jobs>> /\ mem' = [mem EXCEPT !["sound"] = Unmuted(Sound)]
        /\ overtaken' = IF Unmuted(Sound) # Sound THEN overtaken \cup {"sound"} ELSE overtaken
    BY <1>7 DEF PreviewClick
  <2>2. mem'["sound"] = Unmuted(Sound)
    BY <1>1, <2>1
  <2>3. "sound" \notin overtaken' => "sound" \notin overtaken /\ Unmuted(Sound) = Sound
    BY <2>1
  <2>4. overtaken' \cup {"sound"} = overtaken \cup {"sound"}
    BY <2>1
  <2> QED
    BY <2>1, <2>2, <2>3, <2>4, PrefsPreview DEF Sound
<1>8. CASE UploadSound \/ ClearCustom
  BY <1>8, PrefsStart DEF UploadSound, ClearCustom
<1> QED
  BY <1>3, <1>4, <1>5, <1>6, <1>7, <1>8 DEF SoundSettings

LEMMA PrefsRecord ==
  ASSUME StoreInv, PrefInv, NEW j \in jobs, RecordSound(j)
  PROVE  PrefInv'
<1> DEFINE shown   == [Sound EXCEPT !.uri = j.new, !.pack = CustomPack(j)]
           written == [j.was EXCEPT !.uri = j.new, !.pack = CustomPack(j)]
<1>1. SoundChosen(shown, written) /\ UNCHANGED overtaken /\ jobs' = jobs \ {j}
  BY RecordSounds DEF RecordSound, StoreInv
<1>2. "sound" \notin overtaken' => shown = written /\ ~Hydrating("sound") /\ jobs' = {}
  BY <1>1 DEF PrefInv, JobsLast, Sound
<1> HIDE DEF shown, written
<1> QED
  BY <1>1, <1>2, PrefsSound

LEMMA PrefsKill ==
  ASSUME Kill
  PROVE  PrefInv'
<1>1. ops' = Hydrations /\ mem' = DefaultPrefs /\ overtaken' = {} /\ jobs' = {}
  BY DEF Kill, Relaunch
<1>2. \A i \in DOMAIN ops' : \A p : ~Setter(ops'[i], p)
  BY <1>1, LaunchedOps DEF Setter
<1>3. \A p \in Prefs : \E i \in DOMAIN ops' : Reads(ops'[i], p)
  BY <1>1, Launches DEF Reads, Op, Prefs
<1>4. /\ \A p : \A i : (Setter(ops[i], p))' <=> Setter(ops'[i], p)
      /\ \A p : \A i : (Reads(ops[i], p))' <=> Reads(ops'[i], p)
  BY DEF Setter, Sets, Reads
<1>5. ASSUME NEW p \in Prefs PROVE PrefOK(p)'
  BY <1>1, <1>2, <1>3, <1>4 DEF PrefOK, Hydrating, Last
<1>6. MoodLast' /\ JobsLast'
  BY <1>1, <1>2, <1>4 DEF MoodLast, JobsLast
<1> QED
  BY <1>5, <1>6 DEF PrefInv

LEMMA PrefsNext == StoreInv /\ PrefInv /\ [MobileNext]_mobileVars => PrefInv'
<1> SUFFICES ASSUME StoreInv, PrefInv, [MobileNext]_mobileVars PROVE PrefInv'
  OBVIOUS
<1>1. ASSUME UNCHANGED storageVars, JobsAlong PROVE PrefInv'
  <2>1. Moves(0, 0) /\ \A i \in DOMAIN ops : i # 0
    BY <1>1, NoneMoves DEF StoreInv, Moves, storageVars
  <2> QED
    BY <1>1, <2>1, PrefsAside DEF storageVars
<1>2. UNCHANGED jobs => JobsAlong
  BY DEF JobsAlong
<1>3. CASE Navigate
  <2>1. UNCHANGED jobs
    BY <1>3 DEF Navigate, soundVars, Visit
  <2>2. PICK n : UNCHANGED storageVars \/ VisitStorage(Shown(n))
    BY <1>3 DEF Navigate, Visit
  <2>3. CASE VisitStorage(Shown(n))
    <3>1. PICK j \in {0, 1} : j = IF Shown(n) \in ScreenRecords THEN 1 ELSE 0
      OBVIOUS
    <3>2. PICK k \in Nat : /\ Moves(k, j) /\ (IF Loads = {} THEN k = 0 ELSE k \in Loads)
                           /\ Shown(n) \in ScreenRecords => Newest(k) = Op("load", Shown(n), Unset)
      BY <2>3, <3>1, VisitMoves DEF StoreInv
    <3>3. j = 1 => Newest(k).kind \notin {"pref", "hydrate"}
      BY <3>1, <3>2 DEF Op
    <3>4. \A i \in DOMAIN ops : i = k => ops[i].kind \notin {"pref", "hydrate"}
      <4>1. \A i \in DOMAIN ops : i # 0
        BY <3>2 DEF Moves
      <4> QED
        BY <3>2, <4>1 DEF Loads
    <3>5. UNCHANGED <<mem, overtaken, disk>>
      BY <2>3 DEF VisitStorage
    <3> QED
      BY <1>2, <2>1, <3>2, <3>3, <3>4, <3>5, PrefsAside
  <2> QED
    BY <1>1, <1>2, <2>1, <2>2, <2>3
<1>4. CASE ServeStorage /\ UNCHANGED <<nav, walletVars, soundVars>>
  <2>1. /\ ops # <<>> /\ Head(ops) = ops[1] /\ UNCHANGED jobs /\ OpOK(ops[1], Mounted) /\ 1 \in DOMAIN ops
        /\ \/ (ServePatch(ops[1]) \/ ServeWrite(ops[1]) \/ ServeLoad(ops[1])) /\ UNCHANGED <<mem, overtaken>>
           \/ ServeHydrate(ops[1]) \/ ServePref(ops[1])
    BY <1>4, HeadOK DEF ServeStorage, StoreInv, soundVars
  <2>2. CASE (ServeWrite(ops[1]) \/ ServeLoad(ops[1])) /\ UNCHANGED <<mem, overtaken>>
    <3>1. ops' = Tail(ops) /\ ops[1].kind \in {"write", "load"}
      BY <2>2 DEF ServeWrite, ServeLoad
    <3>2. \A p \in Prefs : disk'[p] = disk[p]
      <4>1. disk' = [disk EXCEPT ![ops[1].rec] = ops[1].val.record] \/ UNCHANGED disk
        BY <2>2 DEF ServeWrite, ServeLoad
      <4>2. ops[1].rec \in ScreenRecords
        BY <2>1, <3>1 DEF OpOK
      <4>3. disk = [r \in Records |-> disk[r]]
        BY DEF StoreInv, DiskOK
      <4> QED
        BY <4>1, <4>2, <4>3 DEF Records, ScreenRecords, Prefs, ThemeRecords
    <3>3. Moves(1, 0)
      BY <2>1, <3>1, HeadLeaves DEF StoreInv
    <3> QED
      BY <1>2, <2>1, <2>2, <3>1, <3>2, <3>3, PrefsAside
  <2>3. CASE ServePatch(ops[1]) /\ UNCHANGED <<mem, overtaken>>
    <3>1. PICK w : w = WriteBack(ops[1], Merge(Stored(ops[1].rec), ops[1].val))
      OBVIOUS
    <3>2. ops' = Append(Tail(ops), w) /\ ops[1].kind = "patch" /\ UNCHANGED disk
      BY <2>3, <3>1 DEF ServePatch
    <3>3. Moves(1, 1) /\ Newest(1) = w
      BY <2>1, <3>2, HeadLeavesOneJoins DEF StoreInv
    <3>4. w.kind = "write"
      <4>1. Shape(ops[1])
        BY <2>1, HeadOK DEF StoreInv
      <4>2. "kind" \in DOMAIN ops[1]
        BY <4>1 DEF Shape
      <4> QED
        BY <3>1, <4>2 DEF WriteBack
    <3> QED
      BY <1>2, <2>1, <2>3, <3>2, <3>3, <3>4, PrefsAside
  <2> QED
    BY <2>1, <2>2, <2>3, PrefsHydrate, PrefsServe
<1>5. CASE Mounted = "settings" /\ ThemeSettings /\ UNCHANGED <<nav, walletVars, soundVars>>
  <2>1. PICK p \in Prefs \ {"sound"} : \E value \in PrefValues[p] : SetPref(p, value)
    BY <1>5, ThemeSetters
  <2>2. PICK value \in PrefValues[p] : SetPref(p, value)
    BY <2>1
  <2> QED
    BY <1>5, <2>2, PrefsTheme DEF soundVars
<1>6. CASE ChangeRecord
  <2>1. UNCHANGED jobs
    BY <1>6 DEF ChangeRecord, soundVars
  <2>2. PICK r, patch : Patch(r, patch)
    BY <1>6 DEF ChangeRecord
  <2>3. ops' = WithPatch(r, patch) /\ UNCHANGED <<disk, mem, overtaken>>
    BY <2>2 DEF Patch
  <2>4. Moves(0, 1) /\ Newest(0).kind = "patch"
    BY <2>3, PatchJoins DEF StoreInv
  <2>5. \A i \in DOMAIN ops : i # 0
    BY <2>4 DEF Moves
  <2> QED
    BY <1>2, <2>1, <2>3, <2>4, <2>5, PrefsAside
<1>7. CASE Wallet
  <2>1. UNCHANGED <<storageVars, jobs>> \/ (UNCHANGED <<disk, ops, copy, behind, settled, mem, overtaken, jobs>>)
    BY <1>7 DEF Wallet, ServeRead, TakeRead, RefreshHome, PressFreeze, ServeFreeze, FreezeAnswered, FreezeFails,
                ServeLate, ChangedElsewhere, Others, storageVars, soundVars
  <2>2. UNCHANGED <<disk, ops, mem, overtaken, jobs>>
    BY <2>1 DEF storageVars
  <2>3. Moves(0, 0) /\ \A i \in DOMAIN ops : i # 0
    BY <2>2, NoneMoves DEF StoreInv, Moves
  <2> QED
    BY <1>2, <2>2, <2>3, PrefsAside
<1>8. CASE SoundSettings
  BY <1>8, PrefsSettings
<1>9. CASE SoundJobs
  <2>1. PICK j \in jobs : Pick(j) \/ RemoveFile(j) \/ RecordSound(j)
    BY <1>9 DEF SoundJobs
  <2>2. CASE Pick(j) \/ RemoveFile(j)
    <3>1. UNCHANGED storageVars
      BY <2>2 DEF Pick, RemoveFile
    <3>2. \/ jobs' = jobs \ {j}
          \/ \E stage : jobs' = (jobs \ {j}) \cup {[j EXCEPT !.stage = stage]}
      BY <2>2 DEF Pick, RemoveFile
    <3>3. \A stage : [j EXCEPT !.stage = stage].was = j.was
      BY DEF StoreInv, JobsOK
    <3>4. JobsAlong
      BY <3>2, <3>3 DEF JobsAlong
    <3> QED
      BY <1>1, <3>1, <3>4
  <2>3. CASE RecordSound(j)
    BY <2>3, PrefsRecord
  <2> QED
    BY <2>1, <2>2, <2>3
<1>10. CASE Kill
  BY <1>10, PrefsKill
<1>11. CASE UNCHANGED mobileVars
  BY <1>1, <1>2, <1>11 DEF mobileVars, soundVars
<1> QED
  BY <1>3, <1>4, <1>5, <1>6, <1>7, <1>8, <1>9, <1>10, <1>11 DEF MobileNext

LEMMA PrefsInit == MobileInit => PrefInv
<1> SUFFICES ASSUME MobileInit PROVE PrefInv
  OBVIOUS
<1>1. ops = Hydrations /\ mem = DefaultPrefs /\ jobs = {}
  BY DEF MobileInit, StorageInit
<1>2. \A i \in DOMAIN ops : \A p : ~Setter(ops[i], p)
  BY <1>1, LaunchedOps DEF Setter
<1>3. \A p \in Prefs : \E i \in DOMAIN ops : Reads(ops[i], p)
  BY <1>1, Launches DEF Reads, Op, Prefs
<1> QED
  BY <1>1, <1>2, <1>3 DEF PrefInv, PrefOK, Hydrating, Last, MoodLast, JobsLast

\* When nothing is under way, a preference in memory is the one a restart would restore,
\* unless its last change overlapped something else that sets it.
THEOREM MobilePrefsAreStored == MobileSpec => []PrefsAreStored
<1>1. StoreInv /\ PrefInv => PrefsAreStored
  <2> SUFFICES ASSUME PrefInv, \A i \in DOMAIN ops : ops[i].kind \notin {"pref", "hydrate"}, NEW p \in Prefs \ overtaken
               PROVE  mem[p] = StoredPref(p)
    BY DEF PrefsAreStored
  <2> QED
    BY DEF PrefInv, PrefOK, Hydrating, Reads, Setter
<1>2. StoreInv /\ PrefInv /\ [MobileNext]_mobileVars => StoreInv' /\ PrefInv'
  BY StoreNext, PrefsNext
<1> QED
  BY StoreInit, PrefsInit, <1>1, <1>2, PTL DEF MobileSpec

-----------------------------------------------------------------------------
(* CustomSoundExists: nothing refers to the file of an import that is not recorded, and a *)
(* file that is gone was replaced by one that is there, or is about to be.                *)

Gone(u)   == u # Unset /\ ~files[u]
Recording == \E j \in jobs : j.stage = "record"
DiskUri   == IF disk["sound"] = Unset THEN Unset ELSE disk["sound"].uri

SoundOps == {i \in DOMAIN ops : Setter(ops[i], "sound")}

\* The files that memory, the disk, what is on its way to it and what is under way name.
InUse == {mem["sound"].uri, DiskUri} \cup {ops[i].val.uri : i \in SoundOps} \cup {j.was.uri : j \in jobs}

NewFile(j) ==
  /\ j.new \in DOMAIN files \ InUse
  /\ j.stage # "pick" => files[j.new]
  /\ \A k \in jobs : k.new = j.new => k = j

FilesOK ==
  /\ InUse \subseteq DOMAIN files \cup {Unset}
  /\ \A j \in jobs : IF j.kind = "import" THEN NewFile(j) ELSE j.new = Unset

Replaced ==
  /\ Gone(mem["sound"].uri) => Recording
  /\ \A i \in SoundOps : Gone(ops[i].val.uri) => Recording \/ \E j \in SoundOps : i < j /\ ~Gone(ops[j].val.uri)
  /\ SoundOps = {} /\ Gone(DiskUri) => Recording
  /\ Hydrating("sound") /\ DiskUri # Unset =>
       /\ ~Gone(DiskUri) /\ mem["sound"].uri # DiskUri
       /\ \A j \in jobs : j.was.uri # DiskUri

FilesInv == FilesOK /\ (~torn => Replaced)

\* The sounds' writes, when the queue moves.
LEMMA SoundOpsMove ==
  ASSUME NEW k, NEW joins, Moves(k, joins)
  PROVE  /\ \A i \in Stay(k) : /\ i \in SoundOps' <=> Was(k, i) \in SoundOps
                               /\ Was(k, i) \in DOMAIN ops /\ ops'[i].val = ops[Was(k, i)].val
         /\ \A i \in SoundOps' : i \in Stay(k) \/ (joins = 1 /\ i = End(k))
         /\ joins = 1 => /\ End(k) \in SoundOps' <=> Setter(Newest(k), "sound")
                         /\ ops'[End(k)] = Newest(k) /\ \A i \in Stay(k) : i < End(k)
<1>1. \A i : (Setter(ops[i], "sound"))' <=> Setter(ops'[i], "sound")
  BY DEF Setter, Sets
<1>2. \A i : i \in SoundOps' <=> i \in DOMAIN ops' /\ Setter(ops'[i], "sound")
  BY <1>1 DEF SoundOps
<1>3. \A i \in Stay(k) : i \in DOMAIN ops' /\ Was(k, i) \in DOMAIN ops
  BY PrefsMove
<1>4. \A i \in Stay(k) : Setter(ops'[i], "sound") <=> Setter(ops[Was(k, i)], "sound")
  BY PrefsMove
<1>5. \A i \in Stay(k) : ops'[i].val = ops[Was(k, i)].val
  <2>1. \A i \in Stay(k) : Alike(ops'[i], ops[Was(k, i)])
    BY Places
  <2> QED
    BY <2>1 DEF Alike
<1>6. \A i \in DOMAIN ops' : i \in Stay(k) \/ (joins = 1 /\ i = End(k))
  BY PrefsMove
<1>7. joins = 1 => End(k) \in DOMAIN ops' /\ ops'[End(k)] = Newest(k) /\ \A i \in Stay(k) : i < End(k)
  BY PrefsMove
<1>8. \A i \in Stay(k) : /\ i \in SoundOps' <=> Was(k, i) \in SoundOps
                         /\ Was(k, i) \in DOMAIN ops /\ ops'[i].val = ops[Was(k, i)].val
  BY <1>2, <1>3, <1>4, <1>5 DEF SoundOps
<1>9. joins = 1 => (End(k) \in SoundOps' <=> Setter(Newest(k), "sound"))
  BY <1>2, <1>7
<1> QED
  BY <1>2, <1>6, <1>7, <1>8, <1>9

\* What a step makes of the files in use.
LEMMA InUseMoves ==
  ASSUME NEW k, NEW joins, Moves(k, joins), NEW more,
         joins = 1 /\ Setter(Newest(k), "sound") => Newest(k).val.uri \in InUse \cup more,
         mem'["sound"].uri \in InUse \cup more, DiskUri' \in InUse \cup more,
         \A j \in jobs' : j.was.uri \in InUse \cup more
  PROVE  InUse' \subseteq InUse \cup more
<1>1. /\ \A i \in Stay(k) : /\ i \in SoundOps' <=> Was(k, i) \in SoundOps
                            /\ Was(k, i) \in DOMAIN ops /\ ops'[i].val = ops[Was(k, i)].val
      /\ \A i \in SoundOps' : i \in Stay(k) \/ (joins = 1 /\ i = End(k))
      /\ joins = 1 => /\ End(k) \in SoundOps' <=> Setter(Newest(k), "sound")
                      /\ ops'[End(k)] = Newest(k)
  BY SoundOpsMove
<1>2. \A i \in SoundOps' : ops'[i].val.uri \in InUse \cup more
  BY <1>1 DEF InUse
<1> QED
  BY <1>2 DEF InUse

LEMMA FilesFrame ==
  ASSUME FilesOK, InUse' \subseteq InUse, jobs' \subseteq jobs, UNCHANGED files
  PROVE  FilesOK'
BY DEF FilesOK, NewFile

\* Writes on their way to the disk that name a file that is gone.
LEMMA GoneOps ==
  ASSUME Replaced, NEW k, NEW joins, Moves(k, joins),
         \A u \in InUse : Gone(u)' => Gone(u), Recording => Recording',
         k = 1 \/ \A i \in DOMAIN ops : i = k => ~Setter(ops[i], "sound"),
         joins = 1 /\ Setter(Newest(k), "sound") /\ Newest(k).val.uri # Unset /\ ~files'[Newest(k).val.uri]
           => Recording'
  PROVE  \A i \in SoundOps' : ops'[i].val.uri # Unset /\ ~files'[ops'[i].val.uri] =>
           Recording' \/ \E j \in SoundOps' : i < j /\ ~(ops'[j].val.uri # Unset /\ ~files'[ops'[j].val.uri])
<1>1. /\ \A i \in Stay(k) : /\ i \in SoundOps' <=> Was(k, i) \in SoundOps
                            /\ Was(k, i) \in DOMAIN ops /\ ops'[i].val = ops[Was(k, i)].val
      /\ \A i \in SoundOps' : i \in Stay(k) \/ (joins = 1 /\ i = End(k))
      /\ joins = 1 => /\ End(k) \in SoundOps' <=> Setter(Newest(k), "sound")
                      /\ ops'[End(k)] = Newest(k)
  BY SoundOpsMove
<1>2. \A i, j \in Stay(k) : i < j <=> Was(k, i) < Was(k, j)
  BY PrefsMove
<1>3. \A j \in DOMAIN ops : j = k \/ \E i \in Stay(k) : Was(k, i) = j
  BY PrefsMove
<1>4. \A u : (Gone(u))' <=> u # Unset /\ ~files'[u]
  BY DEF Gone
<1>5. \A i \in SoundOps : ops[i].val.uri \in InUse
  BY DEF InUse
<1>6. \A i, j \in DOMAIN ops : i < j => j # 1
  BY DEF Moves
<1>7. ASSUME NEW i \in SoundOps', ops'[i].val.uri # Unset, ~files'[ops'[i].val.uri]
      PROVE  Recording' \/ \E j \in SoundOps' : i < j /\ ~(ops'[j].val.uri # Unset /\ ~files'[ops'[j].val.uri])
  <2>1. CASE i \in Stay(k)
    <3>1. Was(k, i) \in SoundOps /\ Was(k, i) \in DOMAIN ops /\ ops'[i].val = ops[Was(k, i)].val
      BY <1>1, <2>1
    <3>2. Gone(ops[Was(k, i)].val.uri)
      BY <1>4, <1>5, <1>7, <3>1 DEF Gone
    <3>3. CASE Recording
      BY <3>3
    <3>4. CASE \E j \in SoundOps : Was(k, i) < j /\ ~Gone(ops[j].val.uri)
      <4>1. PICK j \in SoundOps : Was(k, i) < j /\ ~Gone(ops[j].val.uri)
        BY <3>4
      <4>2. j \in DOMAIN ops /\ j # k
        BY <1>6, <3>1, <4>1 DEF SoundOps
      <4>3. PICK x \in Stay(k) : Was(k, x) = j
        BY <1>3, <4>2
      <4>4. x \in SoundOps' /\ i < x /\ ops'[x].val = ops[j].val
        BY <1>1, <1>2, <2>1, <4>1, <4>3
      <4>5. ~(ops[j].val.uri # Unset /\ ~files'[ops[j].val.uri])
        BY <1>4, <1>5, <4>1
      <4> QED
        BY <4>4, <4>5
    <3> QED
      BY <3>1, <3>2, <3>3, <3>4 DEF Replaced
  <2>2. CASE joins = 1 /\ i = End(k)
    BY <1>1, <1>7, <2>2
  <2> QED
    BY <1>1, <2>1, <2>2
<1> QED
  BY <1>7

LEMMA ReadsMove ==
  ASSUME NEW k, NEW joins, Moves(k, joins),
         \A i \in DOMAIN ops : i = k => ~Reads(ops[i], "sound"), joins = 1 => ~Reads(Newest(k), "sound")
  PROVE  Hydrating("sound")' <=> Hydrating("sound")
<1>1. \A i \in Stay(k) : Was(k, i) \in DOMAIN ops /\ (Reads(ops'[i], "sound") <=> Reads(ops[Was(k, i)], "sound"))
  BY PrefsMove
<1>2. \A i \in DOMAIN ops' : i \in Stay(k) \/ (joins = 1 /\ i = End(k))
  BY PrefsMove
<1>3. \A i \in Stay(k) : i \in DOMAIN ops'
  BY PrefsMove
<1>4. joins = 1 => ops'[End(k)] = Newest(k)
  BY PrefsMove
<1>5. \A j \in DOMAIN ops : j = k \/ \E i \in Stay(k) : Was(k, i) = j
  BY PrefsMove
<1>6. \A i : (Reads(ops[i], "sound"))' <=> Reads(ops'[i], "sound")
  BY DEF Reads
<1> QED
  BY <1>1, <1>2, <1>3, <1>4, <1>5, <1>6 DEF Hydrating

LEMMA ReplacedFrame ==
  ASSUME Replaced, NEW k, NEW joins, Moves(k, joins),
         \A u \in InUse : Gone(u)' => Gone(u), Recording => Recording',
         mem'["sound"].uri = mem["sound"].uri, DiskUri' = DiskUri,
         \A i \in DOMAIN ops : i = k => ~Setter(ops[i], "sound") /\ ~Reads(ops[i], "sound"),
         joins = 1 => /\ ~Reads(Newest(k), "sound")
                      /\ Setter(Newest(k), "sound") => Newest(k).val.uri = mem["sound"].uri,
         \A j \in jobs' : j.was.uri = mem["sound"].uri \/ \E i \in jobs : j.was.uri = i.was.uri
  PROVE  Replaced'
<1>1. mem["sound"].uri \in InUse /\ DiskUri \in InUse
  BY DEF InUse
<1>2. \A u : (Gone(u))' <=> u # Unset /\ ~files'[u]
  BY DEF Gone
<1>3. mem["sound"].uri # Unset /\ ~files'[mem["sound"].uri] => Recording'
  BY <1>1, <1>2 DEF Replaced, Gone
<1>4. \A i \in SoundOps' : ops'[i].val.uri # Unset /\ ~files'[ops'[i].val.uri] =>
           Recording' \/ \E j \in SoundOps' : i < j /\ ~(ops'[j].val.uri # Unset /\ ~files'[ops'[j].val.uri])
  BY <1>3, GoneOps
<1>5. Hydrating("sound")' <=> Hydrating("sound")
  BY ReadsMove
<1>6. SoundOps' = {} => SoundOps = {}
  <2>1. \A j \in DOMAIN ops : j = k \/ \E i \in Stay(k) : Was(k, i) = j
    BY PrefsMove
  <2>2. \A i \in Stay(k) : i \in SoundOps' <=> Was(k, i) \in SoundOps
    BY SoundOpsMove
  <2> QED
    BY <2>1, <2>2 DEF SoundOps
<1>7. (SoundOps = {} /\ Gone(DiskUri))' => Recording'
  BY <1>1, <1>2, <1>6 DEF Replaced, Gone
<1>8. ASSUME Hydrating("sound")', DiskUri' # Unset
      PROVE  /\ ~Gone(DiskUri)' /\ mem'["sound"].uri # DiskUri'
             /\ \A j \in jobs' : j.was.uri # DiskUri'
  BY <1>1, <1>2, <1>5, <1>8 DEF Replaced, Gone
<1> QED
  BY <1>2, <1>3, <1>4, <1>7, <1>8 DEF Replaced, Gone

\* A step that concerns neither the sounds nor their files.
LEMMA FilesAside ==
  ASSUME FilesInv, NEW k, NEW joins, Moves(k, joins), UNCHANGED <<jobs, files, torn>>,
         mem'["sound"].uri = mem["sound"].uri, DiskUri' = DiskUri,
         \A i \in DOMAIN ops : i = k => ~Setter(ops[i], "sound") /\ ~Reads(ops[i], "sound"),
         joins = 1 => /\ ~Reads(Newest(k), "sound")
                      /\ Setter(Newest(k), "sound") => Newest(k).val.uri = mem["sound"].uri
  PROVE  FilesInv'
<1>1. PICK more : more = {}
  OBVIOUS
<1>2. /\ joins = 1 /\ Setter(Newest(k), "sound") => Newest(k).val.uri \in InUse \cup more
      /\ mem'["sound"].uri \in InUse \cup more /\ DiskUri' \in InUse \cup more
      /\ \A j \in jobs' : j.was.uri \in InUse \cup more
  BY DEF InUse
<1>3. InUse' \subseteq InUse \cup more
  BY <1>2, InUseMoves
<1>4. FilesOK'
  BY <1>1, <1>3, FilesFrame DEF FilesInv
<1>5. (\A u \in InUse : Gone(u)' => Gone(u)) /\ (Recording => Recording')
  BY DEF Gone, Recording
<1>6. ~torn' => Replaced'
  BY <1>5, ReplacedFrame DEF FilesInv
<1> QED
  BY <1>4, <1>6 DEF FilesInv


LEMMA UriKept ==
  ASSUME NEW s \in SoundRecords
  PROVE  /\ \A v : [s EXCEPT !.clicks = v].uri = s.uri /\ [s EXCEPT !.sonic = v].uri = s.uri
                   /\ [s EXCEPT !.services = v].uri = s.uri /\ [s EXCEPT !.pack = v].uri = s.uri
         /\ Unmuted(s).uri = s.uri
<1>1. s = [clicks |-> s.clicks, sonic |-> s.sonic, pack |-> s.pack, services |-> s.services, uri |-> s.uri]
  BY DEF SoundRecords
<1>2. \A v : /\ [s EXCEPT !.clicks = v].uri = s.uri /\ [s EXCEPT !.sonic = v].uri = s.uri
             /\ [s EXCEPT !.services = v].uri = s.uri /\ [s EXCEPT !.pack = v].uri = s.uri
  BY <1>1
<1> QED
  BY <1>2, Zenon DEF Unmuted

\* A setter keeps the file; the sounds of a preview are those of before.
LEMMA FilesChosen ==
  ASSUME StoreInv, FilesInv, NEW shown, NEW written, SoundChosen(shown, written),
         UNCHANGED <<jobs, files, torn>>, shown.uri = Sound.uri, written.uri = Sound.uri
  PROVE  FilesInv'
<1>1. PICK op : op = Op("pref", "sound", written)
  OBVIOUS
<1>2. op.kind = "pref" /\ op.rec = "sound" /\ op.val = written
  BY <1>1, PrefOpOK DEF SoundChosen, PrefValues, Prefs
<1>3. /\ Moves(0, 1) /\ Newest(0) = op
      /\ UNCHANGED disk /\ mem' = [mem EXCEPT !["sound"] = shown]
  BY <1>1, OneJoins DEF SoundChosen, PutSound, StoreInv
<1>4. mem'["sound"].uri = mem["sound"].uri
  <2>1. "sound" \in DOMAIN mem
    BY DEF StoreInv, MemOK, Prefs
  <2> QED
    BY <1>3, <2>1 DEF Sound
<1>5. DiskUri' = DiskUri
  BY <1>3 DEF DiskUri
<1>6. ~Reads(Newest(0), "sound") /\ Newest(0).val.uri = mem["sound"].uri
  BY <1>2, <1>3 DEF Reads, Sound
<1>7. \A i \in DOMAIN ops : i # 0
  BY <1>3 DEF Moves
<1> QED
  BY <1>3, <1>4, <1>5, <1>6, <1>7, FilesAside

\* Steps that leave what is stored and on its way alone.
LEMMA FilesStill ==
  ASSUME StoreInv, FilesInv, UNCHANGED <<ops, jobs, files, torn>>, DiskUri' = DiskUri,
         mem'["sound"].uri = mem["sound"].uri
  PROVE  FilesInv'
<1>1. Moves(0, 0)
  BY NoneMoves DEF StoreInv
<1>2. \A i \in DOMAIN ops : i # 0
  BY <1>1 DEF Moves
<1> QED
  BY <1>1, <1>2, FilesAside

\* The import that starts is of a file nothing names yet.
LEMMA FilesUpload ==
  ASSUME StoreInv, FilesInv, UploadSound
  PROVE  FilesInv'
<1>1. PICK n \in Nat : n = Len(files) /\ DOMAIN files = 1..n
  BY DEF StoreInv, JobsOK
<1>2. PICK j : j = [kind |-> "import", stage |-> "pick", was |-> Sound, new |-> n + 1]
  OBVIOUS
<1>3. /\ files' = Append(files, FALSE) /\ jobs' = jobs \cup {j} /\ UNCHANGED <<disk, ops, mem, torn>>
      /\ j.kind = "import" /\ j.stage = "pick" /\ j.was = Sound /\ j.new = n + 1
  BY <1>1, <1>2 DEF UploadSound, StartJob
<1>4. /\ DOMAIN files' = DOMAIN files \cup {n + 1} /\ n + 1 \notin DOMAIN files
      /\ \A u \in DOMAIN files : files'[u] = files[u]
  <2>1. files \in Seq(BOOLEAN)
    BY DEF StoreInv, JobsOK
  <2>2. DOMAIN files' = 1..(n + 1) /\ \A u \in 1..n : files'[u] = files[u]
    BY <1>1, <1>3, <2>1
  <2> QED
    BY <1>1, <2>2
<1>5. Moves(0, 0)
  BY <1>3, NoneMoves DEF StoreInv
<1>6. PICK more : more = {}
  OBVIOUS
<1>7. DiskUri' = DiskUri
  BY <1>3 DEF DiskUri
<1>8. /\ mem'["sound"].uri \in InUse \cup more /\ DiskUri' \in InUse \cup more
      /\ \A i \in jobs' : i.was.uri \in InUse \cup more
  BY <1>3, <1>7 DEF InUse, Sound
<1>9. InUse' \subseteq InUse
  <2>1. InUse' \subseteq InUse \cup more
    BY <1>5, <1>8, InUseMoves
  <2> QED
    BY <1>6, <2>1
<1>10. InUse \subseteq DOMAIN files \cup {Unset} /\ n + 1 # Unset
  BY UnsetAssumption DEF FilesInv, FilesOK
<1>11. \A i \in jobs : i.new \in DOMAIN files \cup {Unset}
  BY DEF FilesInv, FilesOK, NewFile
<1>12. ASSUME NEW i \in jobs', i.kind = "import" PROVE NewFile(i)'
  <2>1. CASE i = j
    BY <1>3, <1>4, <1>9, <1>10, <1>11, <2>1 DEF NewFile
  <2>2. CASE i \in jobs
    <3>1. NewFile(i)
      BY <1>12, <2>2 DEF FilesInv, FilesOK
    <3> QED
      BY <1>3, <1>4, <1>9, <3>1 DEF NewFile
  <2> QED
    BY <1>3, <2>1, <2>2
<1>13. FilesOK'
  BY <1>3, <1>4, <1>9, <1>10, <1>12 DEF FilesInv, FilesOK
<1>14. (\A u \in InUse : Gone(u)' => Gone(u)) /\ (Recording => Recording')
  BY <1>3, <1>4, <1>10 DEF Gone, Recording
<1>15. \A i \in jobs' : i.was.uri = mem["sound"].uri \/ \E k \in jobs : i.was.uri = k.was.uri
  BY <1>3 DEF Sound
<1>16. \A i \in DOMAIN ops : i # 0
  BY <1>5 DEF Moves
<1>17. ~torn' => Replaced'
  BY <1>3, <1>5, <1>7, <1>14, <1>15, <1>16, ReplacedFrame DEF FilesInv
<1> QED
  BY <1>13, <1>17 DEF FilesInv

LEMMA FilesClear ==
  ASSUME StoreInv, FilesInv, ClearCustom
  PROVE  FilesInv'
<1>2. PICK j : j = [kind |-> "clear", stage |-> "remove", was |-> Sound, new |-> Unset]
  OBVIOUS
<1>3. /\ UNCHANGED <<files, disk, ops, mem, torn>> /\ jobs' = jobs \cup {j}
      /\ j.kind = "clear" /\ j.stage = "remove" /\ j.was = Sound /\ j.new = Unset
  BY <1>2 DEF ClearCustom, StartJob
<1>5. Moves(0, 0)
  BY <1>3, NoneMoves DEF StoreInv
<1>6. PICK more : more = {}
  OBVIOUS
<1>7. DiskUri' = DiskUri
  BY <1>3 DEF DiskUri
<1>8. /\ mem'["sound"].uri \in InUse \cup more /\ DiskUri' \in InUse \cup more
      /\ \A i \in jobs' : i.was.uri \in InUse \cup more
  BY <1>3, <1>7 DEF InUse, Sound
<1>9. InUse' \subseteq InUse
  <2>1. InUse' \subseteq InUse \cup more
    BY <1>5, <1>8, InUseMoves
  <2> QED
    BY <1>6, <2>1
<1>10. Unset \notin DOMAIN files
  BY UnsetAssumption DEF StoreInv, JobsOK
<1>12. ASSUME NEW i \in jobs, i.kind = "import" PROVE NewFile(i)'
  <2>1. NewFile(i)
    BY <1>12 DEF FilesInv, FilesOK
  <2> QED
    BY <1>3, <1>9, <1>10, <2>1 DEF NewFile
<1>13. FilesOK'
  BY <1>3, <1>9, <1>12 DEF FilesInv, FilesOK
<1>14. (\A u \in InUse : Gone(u)' => Gone(u)) /\ (Recording => Recording')
  BY <1>3 DEF Gone, Recording
<1>15. \A i \in jobs' : i.was.uri = mem["sound"].uri \/ \E k \in jobs : i.was.uri = k.was.uri
  BY <1>3 DEF Sound
<1>16. \A i \in DOMAIN ops : i # 0
  BY <1>5 DEF Moves
<1>17. ~torn' => Replaced'
  BY <1>3, <1>5, <1>7, <1>14, <1>15, <1>16, ReplacedFrame DEF FilesInv
<1> QED
  BY <1>13, <1>17 DEF FilesInv

LEMMA FilesSettings ==
  ASSUME StoreInv, FilesInv, SoundSettings
  PROVE  FilesInv'
<1>1. Sound \in SoundRecords /\ "sound" \in DOMAIN mem
  BY DEF StoreInv, MemOK, Sound, PrefValues, Prefs
<1>2. ASSUME NEW shown \in SoundRecords, NEW written \in SoundRecords, NEW share, SetSound(shown, written, share),
             shown.uri = Sound.uri, written.uri = Sound.uri
      PROVE  FilesInv'
  <2>1. SoundChosen(shown, written) /\ UNCHANGED <<jobs, files, torn>>
    BY <1>2 DEF SetSound, SoundChosen
  <2> QED
    BY <1>2, <2>1, FilesChosen
<1>3. /\ \A s \in SoundRecords : Unmuted(s) \in SoundRecords /\ Unmuted(s).uri = s.uri
      /\ \A v \in BOOLEAN : [Sound EXCEPT !.services = v].uri = Sound.uri
      /\ [Sound EXCEPT !.clicks = ~@].uri = Sound.uri /\ [Sound EXCEPT !.sonic = ~@].uri = Sound.uri
  BY <1>1, UriKept, NextSounds
<1>4. CASE ToggleClicks
  <2>1. PICK next : next = [Sound EXCEPT !.clicks = ~@]
    OBVIOUS
  <2>2. next \in SoundRecords /\ next.uri = Sound.uri
    BY <1>1, <1>3, <2>1, NextSounds
  <2>3. SetSound(Unmuted(next), next, FALSE) \/ SetSound(next, next, TRUE)
    BY <1>4, <2>1 DEF ToggleClicks
  <2> QED
    BY <1>2, <1>3, <2>2, <2>3
<1>5. CASE ToggleSonic
  <2>1. PICK next : next = [Sound EXCEPT !.sonic = ~@]
    OBVIOUS
  <2>2. next \in SoundRecords /\ next.uri = Sound.uri
    BY <1>1, <1>3, <2>1, NextSounds
  <2>3. SetSound(next, next, shared)
    BY <1>5, <2>1 DEF ToggleSonic
  <2> QED
    BY <1>2, <1>3, <2>2, <2>3
<1>6. CASE ChoosePack
  <2>1. PICK p \in {"military", "cyber", "custom"} :
          SetSound(Unmuted([Sound EXCEPT !.pack = p]), [Sound EXCEPT !.pack = p], FALSE)
    BY <1>6 DEF ChoosePack
  <2>2. PICK next : next = [Sound EXCEPT !.pack = p]
    OBVIOUS
  <2>3. next \in SoundRecords /\ next.uri = Sound.uri
    BY <1>1, <2>2, SoundEdits, UriKept
  <2>4. SetSound(Unmuted(next), next, FALSE)
    BY <2>1, <2>2
  <2> QED
    BY <1>2, <1>3, <2>3, <2>4
<1>7. CASE ChooseServices
  <2>1. PICK v \in BOOLEAN : \E share : SetSound([Sound EXCEPT !.services = v], [Sound EXCEPT !.services = v], share)
    BY <1>7 DEF ChooseServices
  <2>2. PICK next : next = [Sound EXCEPT !.services = v]
    OBVIOUS
  <2>3. next \in SoundRecords /\ next.uri = Sound.uri
    BY <1>1, <2>2, SoundEdits, UriKept
  <2>4. PICK share : SetSound(next, next, share)
    BY <2>1, <2>2
  <2> QED
    BY <1>2, <2>3, <2>4
<1>8. CASE PreviewClick
  <2>1. UNCHANGED <<ops, jobs, files, torn, disk>> /\ mem' = [mem EXCEPT !["sound"] = Unmuted(Sound)]
    BY <1>8 DEF PreviewClick
  <2>2. mem'["sound"].uri = mem["sound"].uri
    BY <1>1, <1>3, <2>1 DEF Sound
  <2>3. DiskUri' = DiskUri
    BY <2>1 DEF DiskUri
  <2> QED
    BY <2>1, <2>2, <2>3, FilesStill
<1> QED
  BY <1>4, <1>5, <1>6, <1>7, <1>8, FilesUpload, FilesClear DEF SoundSettings

\* The jobs' fields, and what moving one on leaves.
LEMMA JobMovesOn ==
  ASSUME JobsOK, NEW j \in jobs, NEW stage
  PROVE  \E i : /\ i = [j EXCEPT !.stage = stage]
                /\ i.kind = j.kind /\ i.was = j.was /\ i.new = j.new /\ i.stage = stage
<1>1. j = [kind |-> j.kind, stage |-> j.stage, was |-> j.was, new |-> j.new]
  BY DEF JobsOK
<1>2. PICK i : i = [j EXCEPT !.stage = stage]
  OBVIOUS
<1>3. i.kind = j.kind /\ i.was = j.was /\ i.new = j.new /\ i.stage = stage
  BY <1>1, <1>2
<1> QED
  BY <1>2, <1>3

\* A job goes on or is dropped; the files in use are those of before.
LEMMA FilesOfJobs ==
  ASSUME UNCHANGED storageVars, \A i \in jobs' : \E j \in jobs : i.was = j.was
  PROVE  /\ InUse' \subseteq InUse /\ SoundOps' = SoundOps /\ UNCHANGED <<ops, mem>> /\ DiskUri' = DiskUri
         /\ Hydrating("sound")' <=> Hydrating("sound")
<1>1. UNCHANGED <<ops, mem, disk>>
  BY DEF storageVars
<1>2. SoundOps' = SoundOps /\ DiskUri' = DiskUri
  BY <1>1 DEF SoundOps, Setter, Sets, DiskUri
<1>3. InUse' \subseteq InUse
  BY <1>1, <1>2 DEF InUse
<1> QED
  BY <1>1, <1>2, <1>3 DEF Hydrating, Reads

LEMMA FilesPick ==
  ASSUME StoreInv, FilesInv, NEW j \in jobs, Pick(j)
  PROVE  FilesInv'
<1>1. UNCHANGED storageVars /\ UNCHANGED torn /\ j.stage = "pick"
  BY DEF Pick, soundVars
<1>2. CASE jobs' = jobs \ {j} /\ UNCHANGED files
  <2>1. InUse' \subseteq InUse /\ UNCHANGED <<ops, mem>> /\ DiskUri' = DiskUri
    BY <1>1, <1>2, FilesOfJobs
  <2>2. FilesOK'
    BY <1>2, <2>1, FilesFrame DEF FilesInv
  <2>3. Moves(0, 0) /\ \A i \in DOMAIN ops : i # 0
    BY <2>1, NoneMoves DEF StoreInv, Moves
  <2>4. Recording => Recording'
    BY <1>1, <1>2 DEF Recording
  <2>5. \A u \in InUse : Gone(u)' => Gone(u)
    BY <1>2 DEF Gone
  <2>6. Replaced => Replaced'
    BY <1>2, <2>1, <2>3, <2>4, <2>5, ReplacedFrame
  <2> QED
    BY <1>1, <2>2, <2>6 DEF FilesInv
<1>3. CASE /\ files' = [files EXCEPT ![j.new] = TRUE]
           /\ \E stage : jobs' = (jobs \ {j}) \cup {[j EXCEPT !.stage = stage]}
  <2>1. PICK stage : jobs' = (jobs \ {j}) \cup {[j EXCEPT !.stage = stage]}
    BY <1>3
  <2>2. PICK i : /\ i = [j EXCEPT !.stage = stage]
                 /\ i.kind = j.kind /\ i.was = j.was /\ i.new = j.new /\ i.stage = stage
    BY JobMovesOn DEF StoreInv
  <2>3. jobs' = (jobs \ {j}) \cup {i}
    BY <2>1, <2>2
  <2>4. InUse' \subseteq InUse /\ UNCHANGED <<ops, mem>> /\ DiskUri' = DiskUri
    BY <1>1, <2>2, <2>3, FilesOfJobs
  <2>5. DOMAIN files' = DOMAIN files /\ (\A u \in DOMAIN files : files[u] => files'[u])
        /\ (j.new \in DOMAIN files => files'[j.new] = TRUE)
    BY <1>3
  <2>6. ASSUME NEW x \in jobs', x.kind = "import" PROVE NewFile(x)'
    <3>1. CASE x = i
      <4>1. NewFile(j)
        BY <2>2, <2>6, <3>1 DEF FilesInv, FilesOK
      <4>2. i.new \in DOMAIN files' \ InUse' /\ files'[i.new]
        BY <2>2, <2>4, <2>5, <4>1 DEF NewFile
      <4>3. \A y \in jobs' : y.new = i.new => y = i
        BY <2>2, <2>3, <4>1 DEF NewFile
      <4> QED
        BY <3>1, <4>2, <4>3 DEF NewFile
    <3>2. CASE x \in jobs \ {j}
      <4>1. NewFile(x)
        BY <2>6, <3>2 DEF FilesInv, FilesOK
      <4>2. x.new \in DOMAIN files' \ InUse' /\ (x.stage # "pick" => files'[x.new])
        BY <2>4, <2>5, <4>1 DEF NewFile
      <4>3. \A y \in jobs' : y.new = x.new => y = x
        BY <2>2, <2>3, <3>2, <4>1 DEF NewFile
      <4> QED
        BY <4>2, <4>3 DEF NewFile
    <3> QED
      BY <2>3, <3>1, <3>2
  <2>7. FilesOK'
    BY <2>2, <2>3, <2>4, <2>5, <2>6 DEF FilesInv, FilesOK
  <2>8. Moves(0, 0) /\ \A x \in DOMAIN ops : x # 0
    BY <2>4, NoneMoves DEF StoreInv, Moves
  <2>9. Recording => Recording'
    BY <1>1, <2>3 DEF Recording
  <2>10. \A u \in InUse : Gone(u)' => Gone(u)
    BY <2>5 DEF Gone, FilesInv, FilesOK
  <2>11. \A x \in jobs' : \E y \in jobs : x.was.uri = y.was.uri
    BY <2>2, <2>3
  <2>12. Replaced => Replaced'
    BY <2>4, <2>8, <2>9, <2>10, <2>11, ReplacedFrame
  <2> QED
    BY <1>1, <2>7, <2>12 DEF FilesInv
<1> QED
  BY <1>2, <1>3 DEF Pick

\* The file that is removed is one that was in use; its job is about to record another.
LEMMA FilesRemove ==
  ASSUME StoreInv, FilesInv, NEW j \in jobs, RemoveFile(j)
  PROVE  FilesInv'
<1>1. /\ UNCHANGED storageVars /\ UNCHANGED torn /\ j.stage = "remove"
      /\ files' = [files EXCEPT ![j.was.uri] = FALSE]
      /\ jobs' = (jobs \ {j}) \cup {[j EXCEPT !.stage = "record"]}
  BY DEF RemoveFile
<1>2. PICK i : /\ i = [j EXCEPT !.stage = "record"]
               /\ i.kind = j.kind /\ i.was = j.was /\ i.new = j.new /\ i.stage = "record"
  BY JobMovesOn DEF StoreInv
<1>3. jobs' = (jobs \ {j}) \cup {i} /\ Recording'
  BY <1>1, <1>2 DEF Recording
<1>4. InUse' \subseteq InUse /\ UNCHANGED mem /\ DiskUri' = DiskUri /\ (Hydrating("sound")' <=> Hydrating("sound"))
  BY <1>1, <1>2, <1>3, FilesOfJobs
<1>5. /\ DOMAIN files' = DOMAIN files /\ j.was.uri \in InUse
      /\ \A u \in DOMAIN files : u # j.was.uri => files'[u] = files[u]
  BY <1>1 DEF InUse
<1>6. ASSUME NEW x \in jobs', x.kind = "import" PROVE NewFile(x)'
  <2>1. CASE x = i
    <3>1. NewFile(j)
      BY <1>2, <1>6, <2>1 DEF FilesInv, FilesOK
    <3>2. i.new \in DOMAIN files' \ InUse' /\ files'[i.new]
      BY <1>1, <1>2, <1>4, <1>5, <3>1 DEF NewFile
    <3>3. \A y \in jobs' : y.new = i.new => y = i
      BY <1>2, <1>3, <3>1 DEF NewFile
    <3> QED
      BY <2>1, <3>2, <3>3 DEF NewFile
  <2>2. CASE x \in jobs \ {j}
    <3>1. NewFile(x)
      BY <1>6, <2>2 DEF FilesInv, FilesOK
    <3>2. x.new \in DOMAIN files' \ InUse' /\ (x.stage # "pick" => files'[x.new])
      BY <1>4, <1>5, <3>1 DEF NewFile
    <3>3. \A y \in jobs' : y.new = x.new => y = x
      BY <1>2, <1>3, <2>2, <3>1 DEF NewFile
    <3> QED
      BY <3>2, <3>3 DEF NewFile
  <2> QED
    BY <1>3, <2>1, <2>2
<1>7. FilesOK'
  BY <1>2, <1>3, <1>4, <1>5, <1>6 DEF FilesInv, FilesOK
<1>8. ASSUME Replaced, Hydrating("sound")', DiskUri' # Unset
      PROVE  /\ ~Gone(DiskUri)' /\ mem'["sound"].uri # DiskUri'
             /\ \A x \in jobs' : x.was.uri # DiskUri'
  <2>1. /\ ~Gone(DiskUri) /\ mem["sound"].uri # DiskUri /\ \A x \in jobs : x.was.uri # DiskUri
    BY <1>4, <1>8 DEF Replaced
  <2>2. DiskUri \in DOMAIN files
    BY <1>4, <1>8 DEF InUse, FilesInv, FilesOK
  <2> QED
    BY <1>2, <1>3, <1>4, <1>5, <2>1, <2>2 DEF Gone
<1>9. Replaced => Replaced'
  BY <1>3, <1>8 DEF Replaced
<1> QED
  BY <1>1, <1>7, <1>9 DEF FilesInv

\* The new file is there, or there is none: whatever was gone is replaced.
LEMMA FilesRecord ==
  ASSUME StoreInv, FilesInv, NEW j \in jobs, RecordSound(j)
  PROVE  FilesInv'
<1>a. Sound \in SoundRecords /\ j.was \in SoundRecords /\ "sound" \in DOMAIN mem
  <2>1. Sound \in SoundRecords /\ "sound" \in DOMAIN mem
    BY DEF StoreInv, MemOK, Sound, PrefValues, Prefs
  <2> QED
    BY <2>1 DEF StoreInv, JobsOK
<1>0. Unset \notin DOMAIN files
  BY UnsetAssumption DEF StoreInv, JobsOK
<1>1. PICK shown, written : /\ SoundChosen(shown, written) /\ shown.uri = j.new /\ written.uri = j.new
  <2>1. ASSUME NEW s \in SoundRecords PROVE [s EXCEPT !.uri = j.new, !.pack = CustomPack(j)].uri = j.new
    BY DEF SoundRecords
  <2>2. SoundChosen([Sound EXCEPT !.uri = j.new, !.pack = CustomPack(j)],
                    [j.was EXCEPT !.uri = j.new, !.pack = CustomPack(j)])
    BY RecordSounds DEF StoreInv
  <2>3. PICK shown : shown = [Sound EXCEPT !.uri = j.new, !.pack = CustomPack(j)]
    OBVIOUS
  <2>4. PICK written : written = [j.was EXCEPT !.uri = j.new, !.pack = CustomPack(j)]
    OBVIOUS
  <2>5. shown.uri = j.new /\ written.uri = j.new /\ SoundChosen(shown, written)
    BY <1>a, <2>1, <2>2, <2>3, <2>4
  <2> QED
    BY <2>5
<1>2. UNCHANGED <<files, torn, disk>> /\ jobs' = jobs \ {j} /\ mem' = [mem EXCEPT !["sound"] = shown]
      /\ ops' = Append(ops, Op("pref", "sound", written))
  BY <1>1 DEF RecordSound, SoundChosen, PutSound
<1>3. PICK op : op = Op("pref", "sound", written)
  OBVIOUS
<1>4. op.kind = "pref" /\ op.rec = "sound" /\ op.val = written
  BY <1>1, <1>3, PrefOpOK DEF SoundChosen, PrefValues, Prefs
<1>5. Moves(0, 1) /\ Newest(0) = op
  BY <1>2, <1>3, OneJoins DEF StoreInv
<1>6. mem'["sound"].uri = j.new /\ DiskUri' = DiskUri
  BY <1>a, <1>1, <1>2 DEF DiskUri
<1>7. InUse' \subseteq InUse \cup {j.new}
  <2>1. PICK more : more = {j.new}
    OBVIOUS
  <2>2. Newest(0).val.uri \in InUse \cup more /\ mem'["sound"].uri \in InUse \cup more
    BY <1>1, <1>4, <1>5, <1>6, <2>1
  <2>3. DiskUri' \in InUse \cup more /\ \A i \in jobs' : i.was.uri \in InUse \cup more
    BY <1>2, <1>6 DEF InUse
  <2>4. InUse' \subseteq InUse \cup more
    BY <1>5, <2>2, <2>3, InUseMoves
  <2> QED
    BY <2>1, <2>4
<1>8. /\ j.new = Unset \/ (j.new \in DOMAIN files \ InUse /\ files[j.new])
      /\ j.kind = "import" => \A k \in jobs : k.new = j.new => k = j
      /\ j.kind # "import" => j.new = Unset
  BY DEF RecordSound, FilesInv, FilesOK, NewFile
<1>9. ASSUME NEW i \in jobs', i.kind = "import" PROVE NewFile(i)'
  <2>1. NewFile(i) /\ i \in jobs /\ i # j
    BY <1>2, <1>9 DEF FilesInv, FilesOK
  <2>2. i.new # j.new
    BY <1>0, <1>8, <2>1 DEF NewFile
  <2> QED
    BY <1>2, <1>7, <2>1, <2>2 DEF NewFile
<1>10. FilesOK'
  BY <1>2, <1>7, <1>8, <1>9 DEF FilesInv, FilesOK
<1>11. /\ \A i \in SoundOps' : i \in Stay(0) \/ i = End(0)
       /\ End(0) \in SoundOps' /\ ops'[End(0)].val.uri = j.new /\ \A i \in Stay(0) : i < End(0)
  <2>1. Setter(Newest(0), "sound")
    BY <1>4, <1>5 DEF Setter, Sets
  <2>2. /\ \A i \in SoundOps' : i \in Stay(0) \/ (1 = 1 /\ i = End(0))
        /\ 1 = 1 => /\ End(0) \in SoundOps' <=> Setter(Newest(0), "sound")
                    /\ ops'[End(0)] = Newest(0) /\ \A i \in Stay(0) : i < End(0)
    BY <1>5, SoundOpsMove
  <2> QED
    BY <1>1, <1>4, <1>5, <2>1, <2>2
<1>12. ~(j.new # Unset /\ ~files'[j.new])
  BY <1>2, <1>8
<1>13. \A i \in SoundOps' : ops'[i].val.uri # Unset /\ ~files'[ops'[i].val.uri]
         => \E x \in SoundOps' : i < x /\ ~(ops'[x].val.uri # Unset /\ ~files'[ops'[x].val.uri])
  BY <1>11, <1>12
<1>14. Hydrating("sound")' <=> Hydrating("sound")
  <2>1. \A i \in DOMAIN ops : i # 0
    BY <1>5 DEF Moves
  <2>2. ~Reads(Newest(0), "sound")
    BY <1>4, <1>5 DEF Reads
  <2> QED
    BY <1>5, <2>1, <2>2, ReadsMove
<1>15. j.new # DiskUri \/ DiskUri = Unset
  BY <1>8 DEF InUse
<1>16. ASSUME Replaced PROVE Replaced'
  <2>1. \A u : (Gone(u))' <=> u # Unset /\ ~files'[u]
    BY DEF Gone
  <2>2. ~Gone(mem["sound"].uri)'
    BY <1>6, <1>12 DEF Gone
  <2>3. SoundOps' # {}
    BY <1>11
  <2>4. ASSUME Hydrating("sound")', DiskUri' # Unset
        PROVE  /\ ~Gone(DiskUri)' /\ mem'["sound"].uri # DiskUri'
               /\ \A i \in jobs' : i.was.uri # DiskUri'
    BY <1>2, <1>6, <1>14, <1>15, <1>16, <2>4 DEF Replaced, Gone
  <2> QED
    BY <1>13, <2>1, <2>2, <2>3, <2>4 DEF Replaced, Gone
<1> QED
  BY <1>2, <1>10, <1>16 DEF FilesInv

\* Nothing that reads the sounds is left when one that does is done.
LEMMA FilesHydrate ==
  ASSUME StoreInv, FilesInv, ops # <<>>, ServeHydrate(ops[1]), UNCHANGED <<jobs, files, torn>>
  PROVE  FilesInv'
<1>1. /\ ops[1].kind = "hydrate" /\ 1 \in DOMAIN ops /\ ops' = Tail(ops) /\ UNCHANGED disk
      /\ mem' = [p \in Prefs |-> IF p \in ops[1].val /\ disk[p] # Unset THEN disk[p] ELSE mem[p]]
  BY HeadOK DEF ServeHydrate, StoreInv
<1>2. Moves(1, 0) /\ DiskUri' = DiskUri
  BY <1>1, HeadLeaves DEF StoreInv, DiskUri
<1>3. ~Setter(ops[1], "sound") /\ (Reads(ops[1], "sound") <=> "sound" \in ops[1].val) /\ "sound" \in Prefs
  BY <1>1 DEF Setter, Reads, Prefs
<1>4. mem'["sound"] = IF "sound" \in ops[1].val /\ disk["sound"] # Unset THEN disk["sound"] ELSE mem["sound"]
  BY <1>1, <1>3
<1>5. CASE ~Reads(ops[1], "sound")
  <2>1. mem'["sound"].uri = mem["sound"].uri
    BY <1>3, <1>4, <1>5
  <2> QED
    BY <1>2, <1>3, <1>5, <2>1, FilesAside
<1>6. CASE Reads(ops[1], "sound")
  <2>1. mem'["sound"].uri = DiskUri \/ (DiskUri = Unset /\ mem'["sound"].uri = mem["sound"].uri)
    <3>1. CASE disk["sound"] = Unset
      BY <1>4, <3>1 DEF DiskUri
    <3>2. CASE disk["sound"] # Unset
      BY <1>3, <1>4, <1>6, <3>2 DEF DiskUri
    <3> QED
      BY <3>1, <3>2
  <2>2. InUse' \subseteq InUse
    <3>1. PICK more : more = {}
      OBVIOUS
    <3>2. mem'["sound"].uri \in InUse \cup more
      BY <2>1 DEF InUse
    <3>3. DiskUri' \in InUse \cup more /\ \A i \in jobs' : i.was.uri \in InUse \cup more
      BY <1>2 DEF InUse
    <3>4. InUse' \subseteq InUse \cup more
      BY <1>2, <3>2, <3>3, InUseMoves
    <3> QED
      BY <3>1, <3>4
  <2>3. FilesOK'
    BY <2>2, FilesFrame DEF FilesInv
  <2>4. ~Hydrating("sound")'
    <3>1. \A i \in DOMAIN ops \ {1} : ~Reads(ops[i], "sound")
      BY <1>1, <1>6 DEF Reads, StoreInv, Queue
    <3>2. \A i \in Stay(1) : /\ Was(1, i) \in DOMAIN ops /\ Was(1, i) # 1
                             /\ Reads(ops'[i], "sound") <=> Reads(ops[Was(1, i)], "sound")
      BY <1>2, PrefsMove
    <3>3. \A i \in DOMAIN ops' : i \in Stay(1)
      BY <1>2, NoneJoins
    <3>4. \A i \in DOMAIN ops' : ~Reads(ops'[i], "sound")
      BY <3>1, <3>2, <3>3
    <3> QED
      BY <3>4 DEF Hydrating, Reads
  <2>5. ASSUME Replaced PROVE Replaced'
    <3>1. (\A u : Gone(u)' <=> Gone(u)) /\ (Recording' <=> Recording)
      BY DEF Gone, Recording
    <3>2. \A u : (Gone(u))' <=> u # Unset /\ ~files'[u]
      BY DEF Gone
    <3>3. Gone(mem["sound"].uri)' => Recording'
      <4>1. Hydrating("sound")
        BY <1>1, <1>6 DEF Hydrating
      <4> QED
        BY <2>1, <2>5, <3>1, <4>1 DEF Replaced, Gone
    <3>4. \A i \in SoundOps' : ops'[i].val.uri # Unset /\ ~files'[ops'[i].val.uri] =>
             Recording' \/ \E j \in SoundOps' : i < j /\ ~(ops'[j].val.uri # Unset /\ ~files'[ops'[j].val.uri])
      BY <1>2, <2>5, <3>1, GoneOps
    <3>5. SoundOps' = {} => SoundOps = {}
      <4>1. \A j \in DOMAIN ops : j = 1 \/ \E i \in Stay(1) : Was(1, i) = j
        BY <1>2, PrefsMove
      <4>2. \A i \in Stay(1) : i \in SoundOps' <=> Was(1, i) \in SoundOps
        BY <1>2, SoundOpsMove
      <4> QED
        BY <1>3, <4>1, <4>2 DEF SoundOps
    <3>6. (SoundOps = {} /\ Gone(DiskUri))' => Recording'
      BY <1>2, <2>5, <3>1, <3>5 DEF Replaced, Gone
    <3> QED
      BY <2>4, <3>2, <3>3, <3>4, <3>6 DEF Replaced, Gone
  <2> QED
    BY <2>3, <2>5 DEF FilesInv
<1> QED
  BY <1>5, <1>6

\* Of the writes on their way the last decides what the disk names when all are done.
LEMMA FilesServe ==
  ASSUME StoreInv, FilesInv, ops # <<>>, ServePref(ops[1]), UNCHANGED <<jobs, files, torn>>
  PROVE  FilesInv'
<1>1. /\ OpOK(ops[1], Mounted) /\ ops[1].kind = "pref" /\ 1 \in DOMAIN ops
      /\ disk' = [disk EXCEPT ![ops[1].rec] = ops[1].val] /\ UNCHANGED mem
      /\ ops' = IF ops[1].rec = "rgb" THEN Append(Tail(ops), Op("pref", "mood", "custom")) ELSE Tail(ops)
  BY HeadOK DEF ServePref, StoreInv
<1>2. PICK q \in Prefs : q = ops[1].rec /\ ops[1].val \in PrefValues[q] /\ ops[1].val # Unset
  BY <1>1, UnsetAssumption DEF OpOK
<1>3. disk'[q] = ops[1].val /\ \A p \in Prefs : p # q => disk'[p] = disk[p]
  BY <1>1, <1>2 DEF StoreInv, DiskOK, Records
<1>4. /\ Setter(ops[1], "sound") <=> q = "sound"
      /\ ~Reads(ops[1], "sound") /\ "sound" \in Prefs
  BY <1>1, <1>2 DEF Setter, Sets, Reads, Prefs
<1>5. CASE q # "sound"
  <2>1. DiskUri' = DiskUri
    BY <1>3, <1>4, <1>5 DEF DiskUri
  <2>2. CASE q = "rgb"
    <3>1. PICK op : op = Op("pref", "mood", "custom")
      OBVIOUS
    <3>2. op.kind = "pref" /\ op.rec = "mood"
      BY <3>1, MoodIsCustom, PrefOpOK
    <3>3. Moves(1, 1) /\ Newest(1) = op
      BY <1>1, <1>2, <2>2, <3>1, HeadLeavesOneJoins DEF StoreInv
    <3>4. ~Setter(op, "sound") /\ ~Reads(op, "sound")
      BY <3>2 DEF Setter, Sets, Reads
    <3> QED
      BY <1>1, <1>4, <1>5, <2>1, <3>3, <3>4, FilesAside
  <2>3. CASE q # "rgb"
    <3>1. Moves(1, 0)
      BY <1>1, <1>2, <2>3, HeadLeaves DEF StoreInv
    <3> QED
      BY <1>1, <1>4, <1>5, <2>1, <3>1, FilesAside
  <2> QED
    BY <2>2, <2>3
<1>6. CASE q = "sound"
  <2>1. Moves(1, 0)
    BY <1>1, <1>2, <1>6, HeadLeaves DEF StoreInv
  <2>2. DiskUri' = ops[1].val.uri /\ 1 \in SoundOps
    BY <1>1, <1>2, <1>3, <1>4, <1>6 DEF DiskUri, SoundOps
  <2>3. ~Hydrating("sound")
    <3>1. ASSUME NEW i \in DOMAIN ops, ops[i].kind = "hydrate" PROVE FALSE
      <4>1. i < 1
        BY <1>1, <3>1 DEF StoreInv, Queue
      <4> QED
        BY <2>1, <4>1 DEF Moves
    <3> QED
      BY <3>1 DEF Hydrating, Reads
  <2>4. ~Hydrating("sound")'
    BY <1>4, <2>1, <2>3, ReadsMove
  <2>5. InUse' \subseteq InUse
    <3>1. PICK more : more = {}
      OBVIOUS
    <3>2. mem'["sound"].uri \in InUse \cup more /\ DiskUri' \in InUse \cup more
      BY <1>1, <2>2 DEF InUse
    <3>3. \A i \in jobs' : i.was.uri \in InUse \cup more
      BY DEF InUse
    <3>4. InUse' \subseteq InUse \cup more
      BY <2>1, <3>2, <3>3, InUseMoves
    <3> QED
      BY <3>1, <3>4
  <2>6. FilesOK'
    BY <2>5, FilesFrame DEF FilesInv
  <2>7. ASSUME Replaced PROVE Replaced'
    <3>1. (\A u : Gone(u)' <=> Gone(u)) /\ (Recording' <=> Recording)
      BY DEF Gone, Recording
    <3>2. \A u : (Gone(u))' <=> u # Unset /\ ~files'[u]
      BY DEF Gone
    <3>3. Gone(mem["sound"].uri)' => Recording'
      BY <1>1, <2>7, <3>1 DEF Replaced, Gone
    <3>4. \A i \in SoundOps' : ops'[i].val.uri # Unset /\ ~files'[ops'[i].val.uri] =>
             Recording' \/ \E j \in SoundOps' : i < j /\ ~(ops'[j].val.uri # Unset /\ ~files'[ops'[j].val.uri])
      BY <2>1, <2>7, <3>1, GoneOps
    <3>5. \A j \in SoundOps : j # 1 => SoundOps' # {}
      <4>1. \A j \in DOMAIN ops : j = 1 \/ \E i \in Stay(1) : Was(1, i) = j
        BY <2>1, PrefsMove
      <4>2. \A i \in Stay(1) : i \in SoundOps' <=> Was(1, i) \in SoundOps
        BY <2>1, SoundOpsMove
      <4> QED
        BY <4>1, <4>2 DEF SoundOps
    <3>6. (SoundOps = {} /\ Gone(DiskUri))' => Recording'
      BY <2>2, <2>7, <3>1, <3>2, <3>5 DEF Replaced, Gone
    <3> QED
      BY <2>4, <3>2, <3>3, <3>4, <3>6 DEF Replaced, Gone
  <2> QED
    BY <2>6, <2>7 DEF FilesInv
<1> QED
  BY <1>5, <1>6

\* What is stored survives; the app was not killed between a removal and its record.
LEMMA FilesKill ==
  ASSUME StoreInv, FilesInv, Kill
  PROVE  FilesInv'
<1>1. /\ ops' = Hydrations /\ mem' = DefaultPrefs /\ jobs' = {} /\ UNCHANGED <<disk, files>>
      /\ torn' = (torn \/ Unrecorded)
  BY DEF Kill, Relaunch
<1>2. SoundOps' = {}
  <2>1. \A i \in DOMAIN ops' : ~Setter(ops'[i], "sound")
    BY <1>1, LaunchedOps DEF Setter
  <2> QED
    BY <2>1 DEF SoundOps, Setter, Sets
<1>3. mem'["sound"].uri = Unset /\ DiskUri' = DiskUri
  BY <1>1 DEF DefaultPrefs, DefaultSound, DiskUri
<1>4. InUse' = {Unset, DiskUri}
  BY <1>1, <1>2, <1>3 DEF InUse
<1>5. FilesOK'
  BY <1>1, <1>4 DEF FilesInv, FilesOK, InUse
<1>6. ASSUME ~torn' PROVE ~Gone(DiskUri)
  <2>1. Replaced /\ ~Recording
    BY <1>1, <1>6 DEF FilesInv, Unrecorded, Recording
  <2>2. \A i \in SoundOps : ops[i].val.uri = DiskUri
    BY <1>1, <1>6 DEF Unrecorded, SoundOps, Setter, Sets, DiskUri
  <2> QED
    BY <2>1, <2>2 DEF Replaced
<1>7. ~torn' => Replaced'
  BY <1>1, <1>2, <1>3, <1>6 DEF Replaced, Gone
<1> QED
  BY <1>5, <1>7 DEF FilesInv

LEMMA FilesNext == StoreInv /\ FilesInv /\ [MobileNext]_mobileVars => FilesInv'
<1> SUFFICES ASSUME StoreInv, FilesInv, [MobileNext]_mobileVars PROVE FilesInv'
  OBVIOUS
<1>1. ASSUME UNCHANGED <<disk, ops, mem, jobs, files, torn>> PROVE FilesInv'
  BY <1>1, FilesStill DEF DiskUri
<1>2. CASE Navigate
  <2>1. UNCHANGED <<jobs, files, torn>>
    BY <1>2 DEF Navigate, soundVars, Visit
  <2>2. PICK n : UNCHANGED storageVars \/ VisitStorage(Shown(n))
    BY <1>2 DEF Navigate, Visit
  <2>3. CASE VisitStorage(Shown(n))
    <3>1. PICK j \in {0, 1} : j = IF Shown(n) \in ScreenRecords THEN 1 ELSE 0
      OBVIOUS
    <3>2. PICK k \in Nat : /\ Moves(k, j) /\ (IF Loads = {} THEN k = 0 ELSE k \in Loads)
                           /\ Shown(n) \in ScreenRecords => Newest(k) = Op("load", Shown(n), Unset)
      BY <2>3, <3>1, VisitMoves DEF StoreInv
    <3>3. j = 1 => ~Reads(Newest(k), "sound") /\ ~Setter(Newest(k), "sound")
      BY <3>1, <3>2 DEF Op, Reads, Setter
    <3>4. \A i \in DOMAIN ops : i = k => ~Setter(ops[i], "sound") /\ ~Reads(ops[i], "sound")
      <4>1. \A i \in DOMAIN ops : i # 0
        BY <3>2 DEF Moves
      <4> QED
        BY <3>2, <4>1 DEF Loads, Setter, Reads
    <3>5. UNCHANGED mem /\ DiskUri' = DiskUri
      BY <2>3 DEF VisitStorage, DiskUri
    <3> QED
      BY <2>1, <3>2, <3>3, <3>4, <3>5, FilesAside
  <2> QED
    BY <1>1, <2>1, <2>2, <2>3 DEF storageVars
<1>3. CASE ServeStorage /\ UNCHANGED <<nav, walletVars, soundVars>>
  <2>1. /\ ops # <<>> /\ Head(ops) = ops[1] /\ OpOK(ops[1], Mounted) /\ 1 \in DOMAIN ops
        /\ UNCHANGED <<jobs, files, torn>>
        /\ \/ (ServePatch(ops[1]) \/ ServeWrite(ops[1]) \/ ServeLoad(ops[1])) /\ UNCHANGED mem
           \/ ServeHydrate(ops[1]) \/ ServePref(ops[1])
    BY <1>3, HeadOK DEF ServeStorage, StoreInv, soundVars
  <2>2. CASE (ServeWrite(ops[1]) \/ ServeLoad(ops[1])) /\ UNCHANGED mem
    <3>1. ops' = Tail(ops) /\ ops[1].kind \in {"write", "load"}
      BY <2>2 DEF ServeWrite, ServeLoad
    <3>2. DiskUri' = DiskUri
      <4>1. disk' = [disk EXCEPT ![ops[1].rec] = ops[1].val.record] \/ UNCHANGED disk
        BY <2>2 DEF ServeWrite, ServeLoad
      <4>2. ops[1].rec \in ScreenRecords
        BY <2>1, <3>1 DEF OpOK
      <4>3. disk = [r \in Records |-> disk[r]]
        BY DEF StoreInv, DiskOK
      <4>4. disk'["sound"] = disk["sound"]
        BY <4>1, <4>2, <4>3 DEF Records, ScreenRecords, Prefs
      <4> QED
        BY <4>4 DEF DiskUri
    <3>3. Moves(1, 0)
      BY <2>1, <3>1, HeadLeaves DEF StoreInv
    <3>4. ~Setter(ops[1], "sound") /\ ~Reads(ops[1], "sound")
      BY <3>1 DEF Setter, Reads
    <3> QED
      BY <2>1, <2>2, <3>2, <3>3, <3>4, FilesAside
  <2>3. CASE ServePatch(ops[1]) /\ UNCHANGED mem
    <3>1. PICK w : w = WriteBack(ops[1], Merge(Stored(ops[1].rec), ops[1].val))
      OBVIOUS
    <3>2. ops' = Append(Tail(ops), w) /\ ops[1].kind = "patch" /\ UNCHANGED disk
      BY <2>3, <3>1 DEF ServePatch
    <3>3. Moves(1, 1) /\ Newest(1) = w
      BY <2>1, <3>2, HeadLeavesOneJoins DEF StoreInv
    <3>4. w.kind = "write"
      <4>1. Shape(ops[1])
        BY <2>1, HeadOK DEF StoreInv
      <4>2. "kind" \in DOMAIN ops[1]
        BY <4>1 DEF Shape
      <4> QED
        BY <3>1, <4>2 DEF WriteBack
    <3>5. /\ ~Setter(ops[1], "sound") /\ ~Reads(ops[1], "sound") /\ ~Setter(w, "sound") /\ ~Reads(w, "sound")
          /\ DiskUri' = DiskUri
      BY <3>2, <3>4 DEF Setter, Reads, DiskUri
    <3> QED
      BY <2>1, <2>3, <3>3, <3>5, FilesAside
  <2> QED
    BY <2>1, <2>2, <2>3, FilesHydrate, FilesServe
<1>4. CASE Mounted = "settings" /\ ThemeSettings /\ UNCHANGED <<nav, walletVars, soundVars>>
  <2>1. PICK p \in Prefs \ {"sound"} : \E value \in PrefValues[p] : SetPref(p, value)
    BY <1>4, ThemeSetters
  <2>2. PICK value \in PrefValues[p] : SetPref(p, value)
    BY <2>1
  <2>3. PICK op : op = Op("pref", p, value)
    OBVIOUS
  <2>4. op.kind = "pref" /\ op.rec = p
    BY <2>3, PrefOpOK
  <2>5. ops' = Append(ops, op) /\ UNCHANGED <<disk, jobs, files, torn>> /\ mem' = Merge(mem, ThemeValues(p, value))
    BY <1>4, <2>2, <2>3 DEF SetPref, soundVars
  <2>6. Moves(0, 1) /\ Newest(0) = op
    BY <2>5, OneJoins DEF StoreInv
  <2>7. \A i \in DOMAIN ops : i # 0
    BY <2>6 DEF Moves
  <2>8. mem'["sound"] = mem["sound"]
    <3>1. DOMAIN ThemeValues(p, value) = Sets(p) /\ "sound" \notin Sets(p) /\ "sound" \in DOMAIN mem
      BY DEF ThemeValues, Sets, StoreInv, MemOK, Prefs
    <3> HIDE DEF ThemeValues
    <3> QED
      BY <2>5, <3>1 DEF Merge
  <2>9. ~Setter(op, "sound") /\ ~Reads(op, "sound") /\ DiskUri' = DiskUri
    BY <2>4, <2>5 DEF Setter, Sets, Reads, DiskUri
  <2> QED
    BY <2>5, <2>6, <2>7, <2>8, <2>9, FilesAside
<1>5. CASE ChangeRecord
  <2>1. UNCHANGED <<jobs, files, torn>>
    BY <1>5 DEF ChangeRecord, soundVars
  <2>2. PICK r, patch : Patch(r, patch)
    BY <1>5 DEF ChangeRecord
  <2>3. ops' = WithPatch(r, patch) /\ UNCHANGED <<disk, mem>>
    BY <2>2 DEF Patch
  <2>4. Moves(0, 1) /\ Newest(0).kind = "patch"
    BY <2>3, PatchJoins DEF StoreInv
  <2>5. \A i \in DOMAIN ops : i # 0
    BY <2>4 DEF Moves
  <2>6. ~Setter(Newest(0), "sound") /\ ~Reads(Newest(0), "sound") /\ DiskUri' = DiskUri
    BY <2>3, <2>4 DEF Setter, Reads, DiskUri
  <2> QED
    BY <2>1, <2>3, <2>4, <2>5, <2>6, FilesAside
<1>6. CASE Wallet
  <2>1. UNCHANGED <<disk, ops, mem, jobs, files, torn>>
    BY <1>6 DEF Wallet, ServeRead, TakeRead, RefreshHome, PressFreeze, ServeFreeze, FreezeAnswered, FreezeFails,
                ServeLate, ChangedElsewhere, Others, storageVars, soundVars
  <2> QED
    BY <1>1, <2>1
<1>7. CASE SoundSettings
  BY <1>7, FilesSettings
<1>8. CASE SoundJobs
  BY <1>8, FilesPick, FilesRemove, FilesRecord DEF SoundJobs
<1>9. CASE Kill
  BY <1>9, FilesKill
<1>10. CASE UNCHANGED mobileVars
  BY <1>1, <1>10 DEF mobileVars, storageVars, soundVars
<1> QED
  BY <1>2, <1>3, <1>4, <1>5, <1>6, <1>7, <1>8, <1>9, <1>10 DEF MobileNext

LEMMA FilesInit == MobileInit => FilesInv
<1> SUFFICES ASSUME MobileInit PROVE FilesInv
  OBVIOUS
<1>1. ops = Hydrations /\ mem = DefaultPrefs /\ jobs = {} /\ files = <<>> /\ disk["sound"] = Unset
  BY DEF MobileInit, StorageInit, Records, Prefs
<1>2. SoundOps = {}
  BY <1>1, LaunchedOps DEF SoundOps, Setter
<1>3. mem["sound"].uri = Unset /\ DiskUri = Unset
  BY <1>1 DEF DefaultPrefs, DefaultSound, DiskUri
<1> QED
  BY <1>1, <1>2, <1>3 DEF FilesInv, FilesOK, Replaced, InUse, Gone

\* The sound file the stored preferences name is there, unless the app was killed between
\* the removal of a file and the record of its replacement.
THEOREM MobileCustomSoundExists == MobileSpec => []CustomSoundExists
<1>1. StoreInv /\ FilesInv => CustomSoundExists
  <2> SUFFICES ASSUME StoreInv, FilesInv, jobs = {}, ~torn, disk["sound"] # Unset,
                      \A i \in DOMAIN ops : ops[i].rec # "sound", disk["sound"].uri # Unset
               PROVE  files[disk["sound"].uri]
    BY DEF CustomSoundExists
  <2>1. SoundOps = {}
    BY DEF SoundOps, Setter, Sets
  <2>2. ~Recording
    BY DEF Recording
  <2> QED
    BY <2>1, <2>2 DEF FilesInv, Replaced, Gone, DiskUri
<1>2. StoreInv /\ FilesInv /\ [MobileNext]_mobileVars => StoreInv' /\ FilesInv'
  BY StoreNext, FilesNext
<1> QED
  BY StoreInit, FilesInit, <1>1, <1>2, PTL DEF MobileSpec

-----------------------------------------------------------------------------
(* The types *)

EditsInv == edits \in 0..MaxEdits /\ shared \in BOOLEAN /\ torn \in BOOLEAN

\* A step is counted or not, within the bound.
LEMMA Counted ==
  ASSUME EditsInv, UNCHANGED edits \/ Edit
  PROVE  edits' \in 0..MaxEdits
BY StorageAssumption DEF EditsInv, Edit

LEMMA EditsNext == EditsInv /\ [MobileNext]_mobileVars => EditsInv'
<1> SUFFICES ASSUME EditsInv, [MobileNext]_mobileVars PROVE EditsInv'
  OBVIOUS
<1>1. ASSUME UNCHANGED edits \/ Edit, UNCHANGED <<shared, torn>> PROVE EditsInv'
  BY <1>1, Counted DEF EditsInv
<1>2. CASE Navigate
  BY <1>1, <1>2 DEF Navigate, Visit, VisitStorage, storageVars, soundVars
<1>3. CASE ServeStorage /\ UNCHANGED <<nav, walletVars, soundVars>>
  BY <1>1, <1>3 DEF ServeStorage, ServeHydrate, ServePref, soundVars
<1>4. CASE Mounted = "settings" /\ ThemeSettings /\ UNCHANGED <<nav, walletVars, soundVars>>
  <2>1. Edit
    BY <1>4 DEF ThemeSettings, SetMode, SetMood, SetCustomRgb, SetLogo, SetLocale, SetPref
  <2> QED
    BY <1>1, <1>4, <2>1 DEF soundVars
<1>5. CASE ChangeRecord
  BY <1>1, <1>5 DEF ChangeRecord, Patch, soundVars
<1>6. CASE Wallet
  BY <1>1, <1>6 DEF Wallet, ServeRead, TakeRead, RefreshHome, PressFreeze, ServeFreeze, FreezeAnswered, FreezeFails,
                    ServeLate, ChangedElsewhere, Others, storageVars, soundVars
<1>7. CASE SoundSettings
  <2>1. ASSUME NEW shown, NEW written, NEW share \in BOOLEAN, SetSound(shown, written, share) PROVE EditsInv'
    <3>1. Edit /\ shared' = share /\ UNCHANGED torn
      BY <2>1 DEF SetSound
    <3> QED
      BY <2>1, <3>1, Counted DEF EditsInv
  <2>2. shared \in BOOLEAN /\ TRUE \in BOOLEAN /\ FALSE \in BOOLEAN
    BY DEF EditsInv
  <2>3. CASE ToggleClicks \/ ToggleSonic
    BY <2>1, <2>2, <2>3 DEF ToggleClicks, ToggleSonic
  <2>4. CASE ChoosePack
    BY <2>1, <2>2, <2>4 DEF ChoosePack
  <2>5. CASE ChooseServices
    BY <2>1, <2>2, <2>5 DEF ChooseServices
  <2>6. CASE PreviewClick
    <3>1. Edit /\ shared' = FALSE /\ UNCHANGED torn
      BY <2>6 DEF PreviewClick
    <3> QED
      BY <3>1, Counted DEF EditsInv
  <2>7. CASE UploadSound \/ ClearCustom
    BY <1>1, <2>7 DEF UploadSound, ClearCustom, StartJob
  <2> QED
    BY <1>7, <2>3, <2>4, <2>5, <2>6, <2>7 DEF SoundSettings
<1>8. CASE SoundJobs
  <2>1. PICK j \in jobs : Pick(j) \/ RemoveFile(j) \/ RecordSound(j)
    BY <1>8 DEF SoundJobs
  <2>2. CASE Pick(j) \/ RemoveFile(j)
    BY <1>1, <2>2 DEF Pick, RemoveFile, storageVars
  <2>3. CASE RecordSound(j)
    <3>1. UNCHANGED <<edits, torn>> /\ shared' = TRUE
      BY <2>3 DEF RecordSound
    <3> QED
      BY <3>1, Counted DEF EditsInv
  <2> QED
    BY <2>1, <2>2, <2>3
<1>9. CASE Kill
  <2>1. Edit /\ shared' = TRUE /\ torn' = (torn \/ Unrecorded)
    BY <1>9 DEF Kill, Relaunch
  <2>2. torn' \in BOOLEAN
    BY <2>1, Zenon
  <2> QED
    BY <2>1, <2>2, Counted DEF EditsInv
<1>10. CASE UNCHANGED mobileVars
  BY <1>1, <1>10 DEF mobileVars, storageVars, soundVars
<1> QED
  BY <1>2, <1>3, <1>4, <1>5, <1>6, <1>7, <1>8, <1>9, <1>10 DEF MobileNext

\* What the app holds, shows, stores and asks for is of its kind, and the sound file in
\* use is one that was imported.
THEOREM MobileTyped == MobileSpec => []MobileTypeOK
<1>1. MobileInit => EditsInv
  <2> SUFFICES ASSUME MobileInit PROVE EditsInv
    OBVIOUS
  <2>1. edits = 0 /\ shared = TRUE /\ torn = FALSE
    BY DEF MobileInit, StorageInit
  <2>2. 0 \in 0..MaxEdits
    BY StorageAssumption
  <2> QED
    BY <2>1, <2>2, Zenon DEF EditsInv
<1>2. ASSUME WalletInv, NavInv, StoreInv, FilesInv, EditsInv PROVE MobileTypeOK
  <2>1. nav \in Navs /\ Mounted \in Rendered
    BY <1>2, ShownRendered DEF NavInv, Mounted
  <2>2. DOMAIN disk = Records /\ DOMAIN mem = Prefs /\ edits \in 0..MaxEdits
    BY <1>2 DEF StoreInv, DiskOK, MemOK, EditsInv
  <2>3. disk["security"] = Unset \/ DOMAIN disk["security"] = DOMAIN DefaultSecurity
    <3>1. FieldsOf("security") = DOMAIN DefaultSecurity
      BY DEF FieldsOf, DefaultRecord
    <3>2. disk["security"] # Unset => DOMAIN disk["security"] = FieldsOf("security")
      BY <1>2 DEF StoreInv, DiskOK, RecordOK, ScreenRecords
    <3> QED
      BY <3>1, <3>2
  <2>4. copy = Unset \/ DOMAIN copy = DOMAIN DefaultRecord[Mounted]
    BY <1>2 DEF StoreInv, ScreenOK, RecordOK, FieldsOf
  <2>5. \A i \in DOMAIN ops : ops[i].kind \in {"hydrate", "load", "patch", "write", "pref"}
    BY <1>2 DEF StoreInv, Queue, Shape, OpKinds
  <2>6. wallet \in {"active", "frozen"} /\ {frozen, sure, loading, busy, shared, torn} \subseteq BOOLEAN
    <3>1. frozen \in BOOLEAN /\ sure \in BOOLEAN /\ loading \in BOOLEAN /\ busy \in BOOLEAN
      BY <1>2 DEF WalletInv, Kept
    <3>2. shared \in BOOLEAN /\ torn \in BOOLEAN
      BY <1>2 DEF EditsInv
    <3>3. wallet \in {"active", "frozen"}
      BY <1>2 DEF WalletInv, Kept, Answers
    <3>4. {frozen, sure, loading, busy, shared, torn} \subseteq BOOLEAN
      BY <3>1, <3>2, Zenon
    <3> QED
      BY <3>3, <3>4
  <2>7. /\ reads \subseteq [kind: {"mount", "again"}, val: {"sent", "active", "frozen", "failed"}, fresh: BOOLEAN]
        /\ call \in [act: {"freeze", "unfreeze"}, stage: {"sent", "done"}] \cup {NoCall}
        /\ late \subseteq {"freeze", "unfreeze"}
    <3>1. {"sent", "failed"} \cup Answers = {"sent", "active", "frozen", "failed"}
      BY DEF Answers
    <3>2. reads \subseteq [kind: {"mount", "again"}, val: {"sent", "failed"} \cup Answers, fresh : BOOLEAN]
      BY <1>2 DEF WalletInv, Kept
    <3> QED
      BY <1>2, <3>1, <3>2 DEF WalletInv, Kept
  <2>8. files \in Seq(BOOLEAN)
    BY <1>2 DEF StoreInv, JobsOK
  <2>9. mem["sound"].uri \in DOMAIN files \cup {Unset}
    BY <1>2 DEF FilesInv, FilesOK, InUse
  <2> QED
    BY <2>1, <2>2, <2>3, <2>4, <2>5, <2>6, <2>7, <2>8, <2>9 DEF MobileTypeOK
<1>3. WalletInv /\ NavInv /\ StoreInv /\ FilesInv /\ EditsInv /\ [MobileNext]_mobileVars
        => WalletInv' /\ NavInv' /\ StoreInv' /\ FilesInv' /\ EditsInv'
  BY WalletNext, NavNext, StoreNext, FilesNext, EditsNext
<1>4. MobileInit => WalletInv /\ NavInv /\ StoreInv /\ FilesInv /\ EditsInv
  BY <1>1, WalletInit, NavInit, StoreInit, FilesInit
<1>5. WalletInv /\ NavInv /\ StoreInv /\ FilesInv /\ EditsInv => MobileTypeOK
  BY <1>2
<1> QED
  BY <1>3, <1>4, <1>5, PTL DEF MobileSpec
=============================================================================
