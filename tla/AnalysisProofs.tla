----------------------------- MODULE AnalysisProofs -----------------------------
(***************************************************************************)
(* The analysis, for any number of workers and any tags, servers, overrides*)
(* and thresholds: a server is judged by its own thresholds where no block *)
(* is shared by two of its layers, and then never more mildly as it gets   *)
(* worse; a projection stays within the rates seen between two samples, and*)
(* the depth of a blocking chain counts its sessions.                      *)
(***************************************************************************)
EXTENDS Analysis, RuleProofs

-----------------------------------------------------------------------------
(* Resolving the thresholds.                                                 *)

Size(s) == Len(Layers(s))

LEMMA LayerType ==
  ASSUME NEW s \in Server
  PROVE  /\ Layers(s) \in Seq(Source) /\ Size(s) \in Nat /\ Size(s) >= 1
         /\ \A i \in 1..Size(s) : Layers(s)[i] \in Source
BY OverrideAssumption DEF Layers, Source, Size

-----------------------------------------------------------------------------
(* The intended block of a category, layer by layer.                         *)

LEMMA KeysStep ==
  ASSUME NEW s, NEW n \in Nat, NEW c
  PROVE  Keys(s, n+1, c) = Keys(s, n, c) \cup OverlayKeys(s, n+1, c)
<1>1. 1..n+1 = (1..n) \cup {n+1}
  OBVIOUS
<1>2. QED
  BY <1>1 DEF Keys

LEMMA SetsKeyStep ==
  ASSUME NEW s, NEW n \in Nat, NEW c, NEW k
  PROVE  /\ k \in OverlayKeys(s, n+1, c) =>
              n+1 \in SetsKey(s, n+1, c, k) /\ Latest(SetsKey(s, n+1, c, k)) = n+1
         /\ k \notin OverlayKeys(s, n+1, c) => SetsKey(s, n+1, c, k) = SetsKey(s, n, c, k)
<1>1. 1..n+1 = (1..n) \cup {n+1}
  OBVIOUS
<1>2. k \notin OverlayKeys(s, n+1, c) => SetsKey(s, n+1, c, k) = SetsKey(s, n, c, k)
  BY <1>1 DEF SetsKey, OverlayKeys
<1>3. k \in OverlayKeys(s, n+1, c) => n+1 \in SetsKey(s, n+1, c, k)
  BY DEF SetsKey, OverlayKeys
<1>4. ASSUME n+1 \in SetsKey(s, n+1, c, k)
      PROVE  Latest(SetsKey(s, n+1, c, k)) = n+1
  <2>1. \A i \in SetsKey(s, n+1, c, k) : i \in 1..n+1
    BY DEF SetsKey
  <2>2. \A i \in SetsKey(s, n+1, c, k) :
          (\A j \in SetsKey(s, n+1, c, k) : j <= i) <=> i = n+1
    BY <1>4, <2>1
  <2>3. QED
    BY <1>4, <2>2 DEF Latest
<1>5. QED
  BY <1>2, <1>3, <1>4

LEMMA BlockStep ==
  ASSUME NEW s, NEW n \in Nat, NEW c
  PROVE  IntendedBlock(s, n+1, c) =
           IF Sets(s, n+1, c)
           THEN Merged(IntendedBlock(s, n, c), Overrides[Layers(s)[n+1]][c])
           ELSE IntendedBlock(s, n, c)
<1>1. CASE Sets(s, n+1, c)
  <2> DEFINE over == Overrides[Layers(s)[n+1]][c]
             new == IntendedBlock(s, n+1, c)
             old == IntendedBlock(s, n, c)
  <2>1. OverlayKeys(s, n+1, c) = DOMAIN over
    BY <1>1 DEF OverlayKeys
  <2>2. DOMAIN new = DOMAIN old \cup DOMAIN over
    BY <2>1, KeysStep DEF IntendedBlock
  <2>3. \A k \in DOMAIN over : new[k] = over[k]
    BY <2>1, <2>2, SetsKeyStep DEF IntendedBlock
  <2>4. \A k \in DOMAIN old \ DOMAIN over : new[k] = old[k]
    BY <2>1, <2>2, SetsKeyStep DEF IntendedBlock
  <2>5. new = [k \in DOMAIN old \cup DOMAIN over |-> IF k \in DOMAIN over THEN over[k] ELSE old[k]]
    BY <2>2, <2>3, <2>4 DEF IntendedBlock
  <2>6. QED
    BY <1>1, <2>5 DEF Merged
<1>2. CASE ~Sets(s, n+1, c)
  <2>1. OverlayKeys(s, n+1, c) = {}
    BY <1>2 DEF OverlayKeys
  <2>2. Keys(s, n+1, c) = Keys(s, n, c)
    BY <2>1, KeysStep
  <2>3. \A k : SetsKey(s, n+1, c, k) = SetsKey(s, n, c, k)
    BY <2>1, SetsKeyStep
  <2>4. QED
    BY <1>2, <2>2, <2>3 DEF IntendedBlock
<1>3. QED
  BY <1>1, <1>2

LEMMA BlockZero ==
  ASSUME NEW s, NEW c \in DOMAIN Defaults
  PROVE  IntendedBlock(s, 0, c) = Defaults[c]
<1>1. Keys(s, 0, c) = DOMAIN Defaults[c]
  BY DEF Keys, DefaultKeys
<1>2. \A k : SetsKey(s, 0, c, k) = {}
  BY DEF SetsKey
<1>3. Defaults[c] = [k \in DOMAIN Defaults[c] |-> Defaults[c][k]]
  BY OverrideAssumption DEF Thresholds, Dictionary
<1>4. QED
  BY <1>1, <1>2, <1>3 DEF IntendedBlock

(* A category that one layer alone sets, and not the defaults.               *)
LEMMA BlockOnce ==
  ASSUME NEW s \in Server, NEW n \in 0..Size(s), NEW c, c \notin DOMAIN Defaults,
         NEW i \in 1..n, Sets(s, i, c), \A j \in 1..n : Sets(s, j, c) => j = i
  PROVE  IntendedBlock(s, n, c) = Overrides[Layers(s)[i]][c]
<1> DEFINE over == Overrides[Layers(s)[i]][c]
<1>1. Keys(s, n, c) = DOMAIN over
  BY DEF Keys, DefaultKeys, OverlayKeys
<1>2. \A k \in DOMAIN over : SetsKey(s, n, c, k) = {i}
  BY DEF SetsKey
<1>3. Latest({i}) = i
  <2>1. \A m \in {i} : (\A j \in {i} : j <= m)
    OBVIOUS
  <2>2. QED
    BY <2>1 DEF Latest
<1>4. over = [k \in DOMAIN over |-> over[k]]
  BY LayerType, OverrideAssumption DEF Thresholds, Dictionary, Sets
<1>5. QED
  BY <1>1, <1>2, <1>3, <1>4 DEF IntendedBlock

-----------------------------------------------------------------------------
(* Layer by layer, a worker's own blocks are the intended ones, and its other*)
(* blocks are those of the one layer that sets them: no merge writes to the  *)
(* overrides.                                                                *)

Merging(w) == pc[w] # "idle"
Done(w) == layer[w] - 1

Placed(w) ==
  /\ server[w] \in Server
  /\ layer[w] \in 1..Size(server[w]) + 1
  /\ pc[w] = "merging" => layer[w] <= Size(server[w])
  /\ pc[w] = "resolved" => layer[w] = Size(server[w]) + 1

OwnSoFar(w) == own[w] = [c \in DOMAIN Defaults |-> IntendedBlock(server[w], Done(w), c)]

AliasSoFar(w) ==
  /\ DOMAIN alias[w] = Categories(server[w], Done(w)) \ DOMAIN Defaults
  /\ \A c \in DOMAIN alias[w] :
       \E i \in 1..Done(w) : Sets(server[w], i, c) /\ alias[w][c] = Layers(server[w])[i]

MergeType ==
  /\ pc \in [Worker -> {"idle", "merging", "resolved"}]
  /\ server = [w \in Worker |-> server[w]]
  /\ layer = [w \in Worker |-> layer[w]]
  /\ own = [w \in Worker |-> own[w]]
  /\ alias = [w \in Worker |-> alias[w]]

MergeInv ==
  /\ MergeType
  /\ overrides = Overrides
  /\ \A w \in Worker : Merging(w) => Placed(w) /\ OwnSoFar(w) /\ AliasSoFar(w)

LEMMA CategoriesStep ==
  ASSUME NEW s, NEW n \in Nat
  PROVE  Categories(s, n+1) = Categories(s, n) \cup DOMAIN Overrides[Layers(s)[n+1]]
<1>1. 1..n+1 = (1..n) \cup {n+1}
  OBVIOUS
<1>2. QED
  BY <1>1 DEF Categories

LEMMA MergeInitType == MergeInit => MergeInv
BY DEF MergeInit, MergeInv, MergeType, Merging

LEMMA CopyStep ==
  ASSUME MergeInv, NEW w \in Worker, Copy(w)
  PROVE  MergeInv'
<1>1. PICK s \in Server : server' = [server EXCEPT ![w] = s]
  BY DEF Copy
<1>2. /\ server'[w] = s /\ layer'[w] = 1 /\ pc'[w] = "merging"
      /\ own'[w] = Defaults /\ alias'[w] = Empty
  BY <1>1 DEF Copy, Reset, MergeInv, MergeType
<1>3. MergeType' /\ (overrides = Overrides)'
  BY <1>1 DEF Copy, Reset, MergeInv, MergeType
<1>4. Placed(w)'
  BY <1>2, LayerType DEF Placed
<1>5. OwnSoFar(w)'
  <2>1. Defaults = [c \in DOMAIN Defaults |-> Defaults[c]]
    BY OverrideAssumption DEF Thresholds, Dictionary
  <2>2. \A c \in DOMAIN Defaults : IntendedBlock(s, 0, c) = Defaults[c]
    BY BlockZero
  <2>3. Defaults = [c \in DOMAIN Defaults |-> IntendedBlock(s, 0, c)]
    BY <2>1, <2>2
  <2>4. Done(w)' = 0
    BY <1>2 DEF Done
  <2>5. QED
    BY <1>2, <2>3, <2>4 DEF OwnSoFar
<1>6. AliasSoFar(w)'
  <2>1. Done(w)' = 0
    BY <1>2 DEF Done
  <2>2. Categories(s, 0) \ DOMAIN Defaults = {}
    BY DEF Categories
  <2>3. DOMAIN alias'[w] = {}
    BY <1>2 DEF Empty
  <2>4. QED
    BY <1>2, <2>1, <2>2, <2>3 DEF AliasSoFar
<1>7. ASSUME NEW v \in Worker, v # w, Merging(v)'
      PROVE  (Placed(v) /\ OwnSoFar(v) /\ AliasSoFar(v))'
  <2>1. /\ pc'[v] = pc[v] /\ server'[v] = server[v] /\ layer'[v] = layer[v]
        /\ own'[v] = own[v] /\ alias'[v] = alias[v]
    BY <1>1, <1>7 DEF Copy, Reset, MergeInv, MergeType
  <2>2. Placed(v) /\ OwnSoFar(v) /\ AliasSoFar(v)
    BY <1>7, <2>1 DEF MergeInv, Merging
  <2>3. QED
    BY <2>1, <2>2 DEF Placed, OwnSoFar, AliasSoFar, Done
<1>8. QED
  BY <1>3, <1>4, <1>5, <1>6, <1>7 DEF MergeInv

LEMMA DropStep ==
  ASSUME MergeInv, NEW w \in Worker, Drop(w)
  PROVE  MergeInv'
<1>1. MergeType' /\ (overrides = Overrides)' /\ ~Merging(w)'
  BY DEF Drop, Reset, MergeInv, MergeType, Merging
<1>2. ASSUME NEW v \in Worker, v # w, Merging(v)'
      PROVE  (Placed(v) /\ OwnSoFar(v) /\ AliasSoFar(v))'
  <2>1. /\ pc'[v] = pc[v] /\ server'[v] = server[v] /\ layer'[v] = layer[v]
        /\ own'[v] = own[v] /\ alias'[v] = alias[v]
    BY <1>2 DEF Drop, Reset, MergeInv, MergeType
  <2>2. Placed(v) /\ OwnSoFar(v) /\ AliasSoFar(v)
    BY <1>2, <2>1 DEF MergeInv, Merging
  <2>3. QED
    BY <2>1, <2>2 DEF Placed, OwnSoFar, AliasSoFar, Done
<1>3. QED
  BY <1>1, <1>2 DEF MergeInv

LEMMA MergeStep ==
  ASSUME NoneShared, MergeInv, NEW w \in Worker, MergeLayer(w)
  PROVE  MergeInv'
<1> DEFINE s == server[w]
           n == Done(w)
           o == Layers(s)[layer[w]]
           over == overrides[o]
           new == NewBlocks(w, over)
<1>1. /\ pc[w] = "merging" /\ s \in Server /\ layer[w] \in 1..Size(s)
      /\ n \in Nat /\ layer[w] = n + 1 /\ o = Layers(s)[n+1] /\ o \in Source
      /\ over = Overrides[o] /\ DOMAIN over = DOMAIN Overrides[Layers(s)[n+1]]
      /\ OwnSoFar(w) /\ AliasSoFar(w)
  BY LayerType DEF MergeLayer, MergeInv, Merging, Placed, Done
<1>2. MergeType'
  BY DEF MergeLayer, MergeInv, MergeType
<1>3. \A c \in DOMAIN alias[w] : c \notin DOMAIN over
  <2>1. SUFFICES ASSUME NEW c \in DOMAIN alias[w], c \in DOMAIN over
                 PROVE  FALSE
    OBVIOUS
  <2>2. PICK i \in 1..n : Sets(s, i, c)
    BY <1>1 DEF AliasSoFar
  <2>3. i < n+1 /\ i \in 1..Size(s) /\ n+1 \in 1..Size(s)
    BY <1>1, LayerType
  <2>4. c \in DOMAIN Overrides[Layers(s)[i]] \cap DOMAIN Overrides[Layers(s)[n+1]]
    BY <1>1, <2>1, <2>2 DEF Sets
  <2>5. c \in DOMAIN Defaults
    BY <1>1, <2>3, <2>4 DEF NoneShared, Size
  <2>6. QED
    BY <1>1, <2>5 DEF AliasSoFar
<1>4. overrides' = Overrides
  <2>1. overrides' = [q \in Source |-> [c \in DOMAIN overrides[q] |-> overrides[q][c]]]
    BY <1>3 DEF MergeLayer
  <2>2. overrides' = [q \in Source |-> [c \in DOMAIN Overrides[q] |-> Overrides[q][c]]]
    BY <2>1 DEF MergeInv
  <2>3. \A q \in Source : [c \in DOMAIN Overrides[q] |-> Overrides[q][c]] = Overrides[q]
    BY OverrideAssumption DEF Thresholds, Dictionary
  <2>4. Overrides = [q \in Source |-> Overrides[q]]
    BY OverrideAssumption DEF Dictionary
  <2>5. QED
    BY <2>2, <2>3, <2>4
<1>5. /\ server'[w] = s /\ Done(w)' = n + 1 /\ layer'[w] = n + 2
      /\ own'[w] = [c \in DOMAIN own[w] |->
                      IF c \in DOMAIN over THEN Merged(own[w][c], over[c]) ELSE own[w][c]]
      /\ alias'[w] = [c \in DOMAIN alias[w] \cup new |-> IF c \in new THEN o ELSE alias[w][c]]
  BY <1>1 DEF MergeLayer, MergeInv, MergeType, Done
<1>6. Placed(w)'
  <2>1. pc'[w] = IF layer[w] = Size(s) THEN "resolved" ELSE "merging"
    BY DEF MergeLayer, MergeInv, MergeType, Size
  <2>2. QED
    BY <1>1, <1>5, <2>1, LayerType DEF Placed
<1>7. OwnSoFar(w)'
  <2>1. DOMAIN own[w] = DOMAIN Defaults
    BY <1>1 DEF OwnSoFar
  <2>2. ASSUME NEW c \in DOMAIN Defaults
        PROVE  own'[w][c] = IntendedBlock(s, n+1, c)
    <3>1. own[w][c] = IntendedBlock(s, n, c)
      BY <1>1 DEF OwnSoFar
    <3>2. Sets(s, n+1, c) <=> c \in DOMAIN over
      BY <1>1 DEF Sets
    <3>3. over[c] = Overrides[Layers(s)[n+1]][c]
      BY <1>1
    <3>4. QED
      BY <1>1, <1>5, <2>1, <3>1, <3>2, <3>3, BlockStep
  <2>3. own'[w] = [c \in DOMAIN Defaults |-> own'[w][c]]
    BY <1>5, <2>1
  <2>4. own'[w] = [c \in DOMAIN Defaults |-> IntendedBlock(s, n+1, c)]
    BY <2>2, <2>3
  <2>5. QED
    BY <1>5, <2>4 DEF OwnSoFar
<1>8. AliasSoFar(w)'
  <2>1. DOMAIN own[w] = DOMAIN Defaults
    BY <1>1 DEF OwnSoFar
  <2>2. new = DOMAIN over \ (DOMAIN Defaults \cup DOMAIN alias[w])
    BY <2>1 DEF NewBlocks
  <2>3. Categories(s, n+1) = Categories(s, n) \cup DOMAIN over
    BY <1>1, CategoriesStep
  <2>4. DOMAIN alias'[w] = Categories(s, n+1) \ DOMAIN Defaults
    BY <1>1, <1>5, <2>2, <2>3 DEF AliasSoFar
  <2>5. ASSUME NEW c \in DOMAIN alias'[w]
        PROVE  \E i \in 1..n+1 : Sets(s, i, c) /\ alias'[w][c] = Layers(s)[i]
    <3>1. CASE c \in new
      <4>1. Sets(s, n+1, c) /\ alias'[w][c] = Layers(s)[n+1]
        BY <1>1, <1>5, <3>1 DEF Sets, NewBlocks
      <4>2. QED
        BY <1>1, <4>1
    <3>2. CASE c \notin new
      <4>1. PICK i \in 1..n : Sets(s, i, c) /\ alias[w][c] = Layers(s)[i]
        BY <1>1, <1>5, <3>2 DEF AliasSoFar
      <4>2. alias'[w][c] = alias[w][c] /\ i \in 1..n+1
        BY <1>1, <1>5, <3>2
      <4>3. QED
        BY <4>1, <4>2
    <3>3. QED
      BY <3>1, <3>2
  <2>6. DOMAIN alias'[w] = Categories(server'[w], Done(w)') \ DOMAIN Defaults
    BY <1>5, <2>4
  <2>7. \A c \in DOMAIN alias'[w] :
          \E i \in 1..Done(w)' : Sets(server'[w], i, c) /\ alias'[w][c] = Layers(server'[w])[i]
    <3>1. server'[w] = s /\ Done(w)' = n + 1
      BY <1>5
    <3>2. QED
      BY <2>5, <3>1, Zenon
  <2>8. QED
    BY <2>6, <2>7, Zenon DEF AliasSoFar
<1>9. ASSUME NEW v \in Worker, v # w, Merging(v)'
      PROVE  (Placed(v) /\ OwnSoFar(v) /\ AliasSoFar(v))'
  <2>1. /\ pc'[v] = pc[v] /\ server'[v] = server[v] /\ layer'[v] = layer[v]
        /\ own'[v] = own[v] /\ alias'[v] = alias[v]
    BY <1>9 DEF MergeLayer, MergeInv, MergeType
  <2>2. Placed(v) /\ OwnSoFar(v) /\ AliasSoFar(v)
    BY <1>9, <2>1 DEF MergeInv, Merging
  <2>3. QED
    BY <2>1, <2>2 DEF Placed, OwnSoFar, AliasSoFar, Done
<1>10. QED
  BY <1>2, <1>4, <1>6, <1>7, <1>8, <1>9 DEF MergeInv

LEMMA MergeInvStep ==
  ASSUME NoneShared, MergeInv, [MergeNext]_mergeVars
  PROVE  MergeInv'
<1>1. CASE \E w \in Worker : Copy(w)
  BY <1>1, CopyStep
<1>2. CASE \E w \in Worker : MergeLayer(w)
  BY <1>2, MergeStep
<1>3. CASE \E w \in Worker : Drop(w)
  BY <1>3, DropStep
<1>4. CASE UNCHANGED mergeVars
  BY <1>4 DEF mergeVars, MergeInv, MergeType, Merging, Placed, OwnSoFar, AliasSoFar, Done
<1>5. QED
  BY <1>1, <1>2, <1>3, <1>4 DEF MergeNext

-----------------------------------------------------------------------------
(* What the workers have resolved is what is intended.                       *)

LEMMA ResolvedIsIntended == ASSUME NoneShared, MergeInv PROVE OwnThresholds
<1>1. SUFFICES ASSUME NEW w \in Worker, pc[w] = "resolved"
               PROVE  Effective(w) = Intended(server[w], Size(server[w]))
  BY DEF OwnThresholds, Size
<1> DEFINE s == server[w]
           n == Size(s)
<1>2. s \in Server /\ n \in Nat /\ Done(w) = n /\ OwnSoFar(w) /\ AliasSoFar(w) /\ overrides = Overrides
  BY <1>1, LayerType DEF MergeInv, Merging, Placed, Done
<1>3. DOMAIN own[w] = DOMAIN Defaults /\ DOMAIN alias[w] = Categories(s, n) \ DOMAIN Defaults
  BY <1>2 DEF OwnSoFar, AliasSoFar
<1>4. DOMAIN own[w] \cup DOMAIN alias[w] = Categories(s, n)
  BY <1>3 DEF Categories
<1>5. \A c \in DOMAIN own[w] : own[w][c] = IntendedBlock(s, n, c)
  BY <1>2, <1>3 DEF OwnSoFar
<1>6. ASSUME NEW c \in DOMAIN alias[w]
      PROVE  overrides[alias[w][c]][c] = IntendedBlock(s, n, c)
  <2>1. c \notin DOMAIN Defaults
    BY <1>3
  <2>2. PICK i \in 1..n : Sets(s, i, c) /\ alias[w][c] = Layers(s)[i]
    BY <1>2 DEF AliasSoFar
  <2>3. ASSUME NEW j \in 1..n, Sets(s, j, c), j # i
        PROVE  FALSE
    <3>1. \A a, b \in 1..n : a < b => ~(Sets(s, a, c) /\ Sets(s, b, c))
      BY <1>2, <2>1 DEF NoneShared, Sets, Size
    <3>2. j < i \/ i < j
      BY <1>2, <2>3
    <3>3. QED
      BY <2>2, <2>3, <3>1, <3>2
  <2>4. IntendedBlock(s, n, c) = Overrides[Layers(s)[i]][c]
    <3>1. \A j \in 1..n : Sets(s, j, c) => j = i
      BY <2>3
    <3>2. n \in 0..Size(s)
      BY <1>2
    <3>3. QED
      BY <1>2, <2>1, <2>2, <3>1, <3>2, BlockOnce
  <2>5. QED
    BY <1>2, <2>2, <2>4
<1>7. \A c \in Categories(s, n) :
        (IF c \in DOMAIN own[w] THEN own[w][c] ELSE overrides[alias[w][c]][c]) = IntendedBlock(s, n, c)
  BY <1>4, <1>5, <1>6
<1>8. QED
  BY <1>4, <1>7 DEF Effective, Intended

-----------------------------------------------------------------------------
(* The server gets worse.                                                    *)

Swapped(rows, row, field, u) == (rows \ {row}) \cup {[row EXCEPT ![field] = u]}

(* Every row is still there, or is the one whose field has changed.          *)
LEMMA SwappedRows ==
  ASSUME NEW rows, NEW row \in rows, NEW field, NEW u, NEW r \in rows
  PROVE  \E s \in Swapped(rows, row, field, u) : s = r \/ (r = row /\ s = [row EXCEPT ![field] = u])
BY DEF Swapped

LEMMA SwappedFrame ==
  ASSUME NEW rows, NEW names, NEW readings, Frame(rows, names, readings),
         NEW row \in rows, NEW field \in readings, NEW u \in Reading
  PROVE  Frame(Swapped(rows, row, field, u), names, readings)
<1> DEFINE s == [row EXCEPT ![field] = u]
<1>1. DOMAIN s = DOMAIN row /\ \A r \in readings : s[r] = IF r = field THEN u ELSE row[r]
  BY DEF Frame
<1> HIDE DEF s
<1>2. Swapped(rows, row, field, u) = (rows \ {row}) \cup {s}
  BY DEF Swapped, s
<1>3. QED
  BY <1>1, <1>2 DEF Frame

LEMMA SamplesUp ==
  ASSUME NEW samples \in Seq(Reading), NEW metric, Notches[metric] \subseteq Int,
         NEW worse \in SamplesWorse(samples, metric)
  PROVE  worse \in Seq(Reading) /\ SamplesNoLower(samples, worse)
<1>1. PICK n \in DOMAIN samples : \E u \in Up(metric, samples[n]) : worse = [samples EXCEPT ![n] = u]
  BY DEF SamplesWorse
<1> PICK u \in Up(metric, samples[n]) : worse = [samples EXCEPT ![n] = u]
  BY <1>1
<1>2. n \in 1..Len(samples) /\ samples[n] \in Int /\ u \in Int /\ u > samples[n]
  BY <1>1, SeqType DEF Up, Reading
<1>3. worse \in Seq(Reading) /\ Len(worse) = Len(samples)
  BY <1>1, <1>2 DEF Reading
<1>4. ASSUME NEW m \in 1..Len(samples)
      PROVE  NoLower(samples[m], worse[m])
  <2>1. samples[m] \in Reading
    BY SeqType
  <2>2. worse[m] = IF m = n THEN u ELSE samples[m]
    BY <1>1
  <2>3. QED
    BY <1>2, <2>1, <2>2, NoneAssumption DEF NoLower, Reading
<1>5. QED
  BY <1>3, <1>4 DEF SamplesNoLower

LEMMA NotchesType ==
  /\ \A metric \in Measured : Notches[metric] \subseteq Int
  /\ Notches["ple"] \subseteq Nat /\ Notches["deadlocks"] \subseteq Nat
BY AnalysisAssumption

LEMMA WithField ==
  ASSUME NEW i, NEW field \in DOMAIN i, NEW v, NEW j, j = [i EXCEPT ![field] = v]
  PROVE  DOMAIN j = DOMAIN i /\ j[field] = v /\ \A g \in DOMAIN i \ {field} : j[g] = i[g]
OBVIOUS

LEMMA SameReading ==
  ASSUME NEW v \in Reading
  PROVE  NoLower(v, v) /\ NoHigher(v, v)
BY DEF NoLower, NoHigher, Reading

LEMMA SameNoBetter ==
  ASSUME NEW i, InputType(i)
  PROVE  NoBetter(i, i)
<1>1. SamplesNoLower(i.cpuHistory, i.cpuHistory) /\ SamplesNoLower(i.grantsHistory, i.grantsHistory)
  BY SeqType, SameReading DEF InputType, SamplesNoLower
<1>2. /\ \A row \in i.cpu : NoLower(row.signal, row.signal)
      /\ \A row \in i.memory :
           NoHigher(row.ple, row.ple) /\ NoHigher(row.node, row.node) /\ NoLower(row.floor, row.floor)
      /\ \A row \in i.io : NoLower(row.read, row.read) /\ NoLower(row.write, row.write)
      /\ \A row \in i.dbSpace : NoHigher(row.freePct, row.freePct)
      /\ \A row \in i.driveSpace : NoHigher(row.freePct, row.freePct) /\ NoHigher(row.freeGb, row.freeGb)
  BY SameReading DEF InputType, Frame
<1>3. \A row \in i.blocking : row.seconds <= row.seconds
  BY DEF InputType, Frame, Reading
<1>4. \A row \in i.indexFrag : row.fragPct <= row.fragPct /\ row.pages <= row.pages
  BY DEF InputType, Frame, Reading
<1>5. i.deadlocks <= i.deadlocks
  BY DEF InputType
<1>6. QED
  BY <1>1, <1>2, <1>3, <1>4, <1>5 DEF NoBetter

(* Worse measurements of the same sessions, and the same growth.             *)
Worsened(i, j) ==
  /\ InputType(j) /\ SessionsKnown(j) /\ NoBetter(i, j)
  /\ i.dbGrowth = j.dbGrowth /\ i.driveGrowth = j.driveGrowth

LEMMA CpuHistoryWorse ==
  ASSUME NEW i, InputType(i), SessionsKnown(i), NEW h \in SamplesWorse(i.cpuHistory, "cpu")
  PROVE  Worsened(i, [i EXCEPT !.cpuHistory = h])
<1> DEFINE j == [i EXCEPT !.cpuHistory = h]
<1>1. "cpuHistory" \in DOMAIN i /\ i.cpuHistory \in Seq(Reading)
  BY DEF InputType
<1>2. /\ DOMAIN j = DOMAIN i /\ j["cpuHistory"] = h
      /\ \A g \in DOMAIN i \ {"cpuHistory"} : j[g] = i[g]
  BY <1>1, WithField
<1> HIDE DEF j
<1>3. h \in Seq(Reading) /\ SamplesNoLower(i.cpuHistory, h)
  BY <1>1, NotchesType, SamplesUp DEF Measured
<1>4. InputType(j) /\ SessionsKnown(j)
  BY <1>2, <1>3 DEF InputType, SessionsKnown
<1>5. NoBetter(i, j)
  BY <1>2, <1>3, SameNoBetter DEF InputType, NoBetter
<1>6. QED
  BY <1>2, <1>4, <1>5 DEF Worsened, InputType, j

LEMMA SwappedReadings ==
  ASSUME NEW rows, NEW names, NEW readings, Frame(rows, names, readings),
         NEW row \in rows, NEW field \in readings, row[field] # None, NEW u \in Int, NEW r \in rows
  PROVE  \E s \in Swapped(rows, row, field, u) :
           /\ \A g \in readings \ {field} : s[g] = r[g] /\ NoLower(r[g], s[g]) /\ NoHigher(r[g], s[g])
           /\ u > row[field] => NoLower(r[field], s[field])
           /\ u < row[field] => NoHigher(r[field], s[field])
<1>1. PICK s \in Swapped(rows, row, field, u) : s = r \/ (r = row /\ s = [row EXCEPT ![field] = u])
  BY SwappedRows
<1>2. row[field] \in Int /\ field \in DOMAIN row /\ \A g \in readings : r[g] \in Reading
  BY DEF Frame, Reading
<1>3. CASE s = r
  BY <1>2, <1>3, SameReading
<1>4. CASE r = row /\ s = [row EXCEPT ![field] = u]
  <2>1. s[field] = u /\ \A g \in readings \ {field} : s[g] = r[g]
    BY <1>2, <1>4 DEF Frame
  <2>2. (u > row[field] => NoLower(row[field], u)) /\ (u < row[field] => NoHigher(row[field], u))
    BY <1>2, NoneAssumption DEF NoLower, NoHigher
  <2>3. \A g \in readings \ {field} : NoLower(r[g], s[g]) /\ NoHigher(r[g], s[g])
    BY <1>2, <2>1, SameReading
  <2>4. QED
    BY <1>4, <2>1, <2>2, <2>3
<1>5. QED
  BY <1>1, <1>3, <1>4

LEMMA GrantsHistoryWorse ==
  ASSUME NEW i, InputType(i), SessionsKnown(i), NEW h \in SamplesWorse(i.grantsHistory, "grants")
  PROVE  Worsened(i, [i EXCEPT !.grantsHistory = h])
<1> DEFINE j == [i EXCEPT !.grantsHistory = h]
<1>1. "grantsHistory" \in DOMAIN i /\ i.grantsHistory \in Seq(Reading)
  BY DEF InputType
<1>2. /\ DOMAIN j = DOMAIN i /\ j["grantsHistory"] = h
      /\ \A g \in DOMAIN i \ {"grantsHistory"} : j[g] = i[g]
  BY <1>1, WithField
<1> HIDE DEF j
<1>3. h \in Seq(Reading) /\ SamplesNoLower(i.grantsHistory, h)
  BY <1>1, NotchesType, SamplesUp DEF Measured
<1>4. InputType(j) /\ SessionsKnown(j)
  BY <1>2, <1>3 DEF InputType, SessionsKnown
<1>5. NoBetter(i, j)
  BY <1>2, <1>3, SameNoBetter DEF InputType, NoBetter
<1>6. QED
  BY <1>2, <1>4, <1>5 DEF Worsened, InputType, j

LEMMA CpuWorse ==
  ASSUME NEW i, InputType(i), SessionsKnown(i), NEW row \in i.cpu, NEW u \in Int,
         row["signal"] # None, u > row["signal"]
  PROVE  Worsened(i, [i EXCEPT !.cpu = Swapped(i.cpu, row, "signal", u)])
<1> DEFINE rows == Swapped(i.cpu, row, "signal", u)
           j == [i EXCEPT !.cpu = rows]
<1>1. "cpu" \in DOMAIN i /\ Frame(i.cpu, {}, {"signal"})
  BY DEF InputType
<1>2. DOMAIN j = DOMAIN i /\ j["cpu"] = rows /\ \A g \in DOMAIN i \ {"cpu"} : j[g] = i[g]
  BY <1>1, WithField
<1>3. Frame(rows, {}, {"signal"})
  BY <1>1, SwappedFrame DEF Reading
<1>4. \A r \in i.cpu : \E s \in rows : NoLower(r["signal"], s["signal"])
  BY <1>1, SwappedReadings
<1> HIDE DEF j, rows
<1>8. InputType(j) /\ SessionsKnown(j)
  BY <1>2, <1>3 DEF InputType, SessionsKnown
<1>9. NoBetter(i, j)
  BY <1>2, <1>4, SameNoBetter DEF InputType, NoBetter
<1>10. QED
  BY <1>2, <1>8, <1>9 DEF Worsened, InputType, j, rows

LEMMA IoWorse ==
  ASSUME NEW i, InputType(i), SessionsKnown(i), NEW row \in i.io, NEW field \in {"read", "write"}, NEW u \in Int,
         row[field] # None, u > row[field]
  PROVE  Worsened(i, [i EXCEPT !.io = Swapped(i.io, row, field, u)])
<1> DEFINE rows == Swapped(i.io, row, field, u)
           j == [i EXCEPT !.io = rows]
<1>1. "io" \in DOMAIN i /\ Frame(i.io, {"file"}, {"read", "write"})
  BY DEF InputType
<1>2. DOMAIN j = DOMAIN i /\ j["io"] = rows /\ \A g \in DOMAIN i \ {"io"} : j[g] = i[g]
  BY <1>1, WithField
<1>3. Frame(rows, {"file"}, {"read", "write"})
  BY <1>1, SwappedFrame DEF Reading
<1>4. \A r \in i.io : \E s \in rows : NoLower(r["read"], s["read"]) /\ NoLower(r["write"], s["write"])
  BY <1>1, SwappedReadings
<1> HIDE DEF j, rows
<1>8. InputType(j) /\ SessionsKnown(j)
  BY <1>2, <1>3 DEF InputType, SessionsKnown
<1>9. NoBetter(i, j)
  BY <1>2, <1>4, SameNoBetter DEF InputType, NoBetter
<1>10. QED
  BY <1>2, <1>8, <1>9 DEF Worsened, InputType, j, rows

LEMMA DbSpaceWorse ==
  ASSUME NEW i, InputType(i), SessionsKnown(i), NEW row \in i.dbSpace, NEW u \in Int,
         row["freePct"] # None, u < row["freePct"]
  PROVE  Worsened(i, [i EXCEPT !.dbSpace = Swapped(i.dbSpace, row, "freePct", u)])
<1> DEFINE rows == Swapped(i.dbSpace, row, "freePct", u)
           j == [i EXCEPT !.dbSpace = rows]
<1>1. "dbSpace" \in DOMAIN i /\ Frame(i.dbSpace, {"file"}, {"freePct"})
  BY DEF InputType
<1>2. DOMAIN j = DOMAIN i /\ j["dbSpace"] = rows /\ \A g \in DOMAIN i \ {"dbSpace"} : j[g] = i[g]
  BY <1>1, WithField
<1>3. Frame(rows, {"file"}, {"freePct"})
  BY <1>1, SwappedFrame DEF Reading
<1>4. \A r \in i.dbSpace : \E s \in rows : NoHigher(r["freePct"], s["freePct"])
  BY <1>1, SwappedReadings
<1> HIDE DEF j, rows
<1>8. InputType(j) /\ SessionsKnown(j)
  BY <1>2, <1>3 DEF InputType, SessionsKnown
<1>9. NoBetter(i, j)
  BY <1>2, <1>4, SameNoBetter DEF InputType, NoBetter
<1>10. QED
  BY <1>2, <1>8, <1>9 DEF Worsened, InputType, j, rows

LEMMA DriveSpaceWorse ==
  ASSUME NEW i, InputType(i), SessionsKnown(i), NEW row \in i.driveSpace, NEW field \in {"freePct", "freeGb"}, NEW u \in Int,
         row[field] # None, u < row[field]
  PROVE  Worsened(i, [i EXCEPT !.driveSpace = Swapped(i.driveSpace, row, field, u)])
<1> DEFINE rows == Swapped(i.driveSpace, row, field, u)
           j == [i EXCEPT !.driveSpace = rows]
<1>1. "driveSpace" \in DOMAIN i /\ Frame(i.driveSpace, {"mount"}, {"freePct", "freeGb"})
  BY DEF InputType
<1>2. DOMAIN j = DOMAIN i /\ j["driveSpace"] = rows /\ \A g \in DOMAIN i \ {"driveSpace"} : j[g] = i[g]
  BY <1>1, WithField
<1>3. Frame(rows, {"mount"}, {"freePct", "freeGb"})
  BY <1>1, SwappedFrame DEF Reading
<1>4. \A r \in i.driveSpace : \E s \in rows :
        NoHigher(r["freePct"], s["freePct"]) /\ NoHigher(r["freeGb"], s["freeGb"])
  BY <1>1, SwappedReadings
<1> HIDE DEF j, rows
<1>8. InputType(j) /\ SessionsKnown(j)
  BY <1>2, <1>3 DEF InputType, SessionsKnown
<1>9. NoBetter(i, j)
  BY <1>2, <1>4, SameNoBetter DEF InputType, NoBetter
<1>10. QED
  BY <1>2, <1>8, <1>9 DEF Worsened, InputType, j, rows

LEMMA MemoryWorse ==
  ASSUME NEW i, InputType(i), SessionsKnown(i), NEW row \in i.memory, NEW field \in {"ple", "node", "floor"}, NEW u \in Nat,
         row[field] # None, IF field = "floor" THEN u > row[field] ELSE u < row[field]
  PROVE  Worsened(i, [i EXCEPT !.memory = Swapped(i.memory, row, field, u)])
<1> DEFINE rows == Swapped(i.memory, row, field, u)
           j == [i EXCEPT !.memory = rows]
<1>1. "memory" \in DOMAIN i /\ Frame(i.memory, {}, {"ple", "node", "floor"})
  BY DEF InputType
<1>2. DOMAIN j = DOMAIN i /\ j["memory"] = rows /\ \A g \in DOMAIN i \ {"memory"} : j[g] = i[g]
  BY <1>1, WithField
<1>3. Frame(rows, {}, {"ple", "node", "floor"})
  BY <1>1, SwappedFrame DEF Reading
<1>4. \A r \in i.memory : \E s \in rows :
        NoHigher(r["ple"], s["ple"]) /\ NoHigher(r["node"], s["node"]) /\ NoLower(r["floor"], s["floor"])
  BY <1>1, SwappedReadings
<1>5. \A r \in rows : r["floor"] \in Nat \cup {None}
  <2>1. \A r \in i.memory : r["floor"] \in Nat \cup {None} /\ "floor" \in DOMAIN r
    BY <1>1 DEF InputType, Frame
  <2>2. [row EXCEPT ![field] = u]["floor"] \in Nat \cup {None}
    BY <2>1
  <2>3. QED
    BY <2>1, <2>2 DEF Swapped
<1> HIDE DEF j, rows
<1>8. InputType(j) /\ SessionsKnown(j)
  BY <1>2, <1>3, <1>5 DEF InputType, SessionsKnown
<1>9. NoBetter(i, j)
  BY <1>2, <1>4, SameNoBetter DEF InputType, NoBetter
<1>10. QED
  BY <1>2, <1>8, <1>9 DEF Worsened, InputType, j, rows

LEMMA IndexFragWorse ==
  ASSUME NEW i, InputType(i), SessionsKnown(i), NEW row \in i.indexFrag, NEW u \in Int,
         row["fragPct"] # None, u > row["fragPct"]
  PROVE  Worsened(i, [i EXCEPT !.indexFrag = Swapped(i.indexFrag, row, "fragPct", u)])
<1> DEFINE rows == Swapped(i.indexFrag, row, "fragPct", u)
           j == [i EXCEPT !.indexFrag = rows]
<1>1. "indexFrag" \in DOMAIN i /\ Frame(i.indexFrag, {}, {"fragPct", "pages"})
  BY DEF InputType
<1>2. DOMAIN j = DOMAIN i /\ j["indexFrag"] = rows /\ \A g \in DOMAIN i \ {"indexFrag"} : j[g] = i[g]
  BY <1>1, WithField
<1>3. Frame(rows, {}, {"fragPct", "pages"})
  BY <1>1, SwappedFrame DEF Reading
<1>4. \A r \in i.indexFrag : \E s \in rows : NoLower(r["fragPct"], s["fragPct"]) /\ s["pages"] = r["pages"]
  BY <1>1, SwappedReadings
<1>5. \A r \in i.indexFrag : r["fragPct"] \in Int /\ r["pages"] \in Int
  BY <1>1 DEF InputType, Frame, Reading
<1>6. \A r \in rows : r["fragPct"] \in Int /\ r["pages"] \in Int
  <2>1. \A r \in i.indexFrag : DOMAIN r = {} \cup {"fragPct", "pages"}
    BY <1>1 DEF Frame
  <2>2. /\ [row EXCEPT !["fragPct"] = u]["fragPct"] \in Int
        /\ [row EXCEPT !["fragPct"] = u]["pages"] \in Int
    BY <1>5, <2>1
  <2>3. QED
    BY <1>5, <2>2 DEF Swapped
<1>7. \A r \in i.indexFrag : \E s \in rows : r["fragPct"] <= s["fragPct"] /\ r["pages"] <= s["pages"]
  BY <1>4, <1>5, NoneAssumption DEF NoLower
<1> HIDE DEF j, rows
<1>8. InputType(j) /\ SessionsKnown(j)
  BY <1>2, <1>3, <1>6, NoneAssumption DEF InputType, SessionsKnown
<1>9. NoBetter(i, j)
  BY <1>2, <1>7, SameNoBetter DEF InputType, NoBetter
<1>10. QED
  BY <1>2, <1>8, <1>9 DEF Worsened, InputType, j, rows

LEMMA BlockingWorse ==
  ASSUME NEW i, InputType(i), SessionsKnown(i), NEW row \in i.blocking, NEW u \in Int, u > row["seconds"]
  PROVE  Worsened(i, [i EXCEPT !.blocking = Swapped(i.blocking, row, "seconds", u)])
<1> DEFINE rows == Swapped(i.blocking, row, "seconds", u)
           j == [i EXCEPT !.blocking = rows]
           new == [row EXCEPT !["seconds"] = u]
<1>1. /\ "blocking" \in DOMAIN i /\ IsFiniteSet(i.blocking)
      /\ Frame(i.blocking, {"spid", "blocker", "database"}, {"seconds"})
      /\ \A r \in i.blocking : r["seconds"] # None /\ r["seconds"] \in Int
      /\ \A r \in i.blocking : r["spid"] \in Session /\ r["blocker"] \in Session
  BY DEF InputType, SessionsKnown, Frame, Reading
<1>2. DOMAIN j = DOMAIN i /\ j["blocking"] = rows /\ \A g \in DOMAIN i \ {"blocking"} : j[g] = i[g]
  BY <1>1, WithField
<1>3. Frame(rows, {"spid", "blocker", "database"}, {"seconds"})
  BY <1>1, SwappedFrame DEF Reading
<1>4. \A r \in i.blocking : \E s \in rows : r["seconds"] <= s["seconds"]
  <2>1. ASSUME NEW r \in i.blocking
        PROVE  \E s \in rows : NoLower(r["seconds"], s["seconds"])
    BY <1>1, SwappedReadings
  <2>2. \A r \in rows : r["seconds"] \in Int
    BY <1>1, <1>3 DEF Frame, Reading, Swapped
  <2>3. QED
    BY <1>1, <2>1, NoneAssumption DEF NoLower
<1>5. DOMAIN row = {"spid", "blocker", "database"} \cup {"seconds"}
  BY <1>1 DEF Frame
<1>6. new["seconds"] = u /\ new["spid"] = row["spid"] /\ new["blocker"] = row["blocker"]
  BY <1>5
<1>7. rows = (i.blocking \ {row}) \cup {new}
  BY DEF Swapped
<1> HIDE DEF j, rows, new
<1>8. IsFiniteSet(rows)
  <2>1. IsFiniteSet(i.blocking \ {row})
    BY <1>1, FS_Subset
  <2>2. IsFiniteSet((i.blocking \ {row}) \cup {new})
    BY <2>1, FS_AddElement
  <2>3. QED
    BY <1>7, <2>2
<1>9. InputType(j)
  <2>1. \A r \in rows : r["seconds"] # None
    BY <1>1, <1>6, <1>7, NoneAssumption
  <2>2. QED
    BY <1>2, <1>3, <1>8, <2>1 DEF InputType
<1>10. SessionsKnown(j)
  BY <1>1, <1>2, <1>6, <1>7 DEF SessionsKnown
<1>11. NoBetter(i, j)
  BY <1>2, <1>4, SameNoBetter DEF InputType, NoBetter
<1>12. QED
  BY <1>2, <1>9, <1>10, <1>11 DEF Worsened, InputType, j, rows

LEMMA DeadlocksWorse ==
  ASSUME NEW i, InputType(i), SessionsKnown(i), NEW n \in Nat, n > i.deadlocks
  PROVE  Worsened(i, [i EXCEPT !.deadlocks = n])
<1> DEFINE j == [i EXCEPT !.deadlocks = n]
<1>1. "deadlocks" \in DOMAIN i /\ i.deadlocks \in Nat
  BY DEF InputType
<1>2. DOMAIN j = DOMAIN i /\ j["deadlocks"] = n /\ \A g \in DOMAIN i \ {"deadlocks"} : j[g] = i[g]
  BY <1>1, WithField
<1> HIDE DEF j
<1>3. InputType(j) /\ SessionsKnown(j)
  BY <1>2 DEF InputType, SessionsKnown
<1>4. i.deadlocks <= j["deadlocks"]
  BY <1>1, <1>2
<1>5. NoBetter(i, j)
  BY <1>2, <1>4, SameNoBetter DEF InputType, NoBetter
<1>6. QED
  BY <1>2, <1>3, <1>5 DEF Worsened, InputType, j

LEMMA WorsensStep ==
  ASSUME InputType(inp), SessionsKnown(inp), Worsens
  PROVE  Worsened(inp, inp')
<1>1. CASE inp' \in {[inp EXCEPT !.cpuHistory = h] : h \in SamplesWorse(inp.cpuHistory, "cpu")}
  BY <1>1, CpuHistoryWorse
<1>2. CASE inp' \in {[inp EXCEPT !.grantsHistory = h] : h \in SamplesWorse(inp.grantsHistory, "grants")}
  BY <1>2, GrantsHistoryWorse
<1>3. CASE inp' \in {[inp EXCEPT !.cpu = r] : r \in RowsWorse(inp.cpu, "signal", LAMBDA v : Up("signal", v))}
  BY <1>3, CpuWorse, NotchesType DEF Measured, RowsWorse, Up, Swapped
<1>4. CASE inp' \in {[inp EXCEPT !.memory = r] : r \in RowsWorse(inp.memory, "ple", LAMBDA v : Down("ple", v))
                                                   \cup RowsWorse(inp.memory, "node", LAMBDA v : Down("ple", v))
                                                   \cup RowsWorse(inp.memory, "floor", LAMBDA v : Up("ple", v))}
  BY <1>4, MemoryWorse, NotchesType DEF RowsWorse, Up, Down, Swapped
<1>5. CASE inp' \in {[inp EXCEPT !.io = r] : r \in RowsWorse(inp.io, "read", LAMBDA v : Up("latency", v))
                                               \cup RowsWorse(inp.io, "write", LAMBDA v : Up("latency", v))}
  BY <1>5, IoWorse, NotchesType DEF Measured, RowsWorse, Up, Swapped
<1>6. CASE inp' \in {[inp EXCEPT !.dbSpace = r] :
                       r \in RowsWorse(inp.dbSpace, "freePct", LAMBDA v : Down("freePct", v))}
  BY <1>6, DbSpaceWorse, NotchesType DEF Measured, RowsWorse, Down, Swapped
<1>7. CASE inp' \in {[inp EXCEPT !.driveSpace = r] :
                       r \in RowsWorse(inp.driveSpace, "freePct", LAMBDA v : Down("freePct", v))
                             \cup RowsWorse(inp.driveSpace, "freeGb", LAMBDA v : Down("freeGb", v))}
  BY <1>7, DriveSpaceWorse, NotchesType DEF Measured, RowsWorse, Down, Swapped
<1>8. CASE inp' \in {[inp EXCEPT !.blocking = r] :
                       r \in RowsWorse(inp.blocking, "seconds", LAMBDA v : Up("seconds", v))}
  BY <1>8, BlockingWorse, NotchesType DEF Measured, RowsWorse, Up, Swapped
<1>9. CASE inp' \in {[inp EXCEPT !.deadlocks = n] : n \in Up("deadlocks", inp.deadlocks)}
  BY <1>9, DeadlocksWorse, NotchesType DEF Up
<1>10. CASE inp' \in {[inp EXCEPT !.indexFrag = r] :
                        r \in RowsWorse(inp.indexFrag, "fragPct", LAMBDA v : Up("fragPct", v))}
  BY <1>10, IndexFragWorse, NotchesType DEF Measured, RowsWorse, Up, Swapped
<1>11. QED
  BY <1>1, <1>2, <1>3, <1>4, <1>5, <1>6, <1>7, <1>8, <1>9, <1>10 DEF Worsens, Worse

LEMMA BlocksStep ==
  ASSUME InputType(inp), SessionsKnown(inp), Blocks
  PROVE  Worsened(inp, inp')
<1>1. PICK s \in Session, b \in Session, t \in Notches["seconds"] :
        inp' = [inp EXCEPT !.blocking = @ \cup {[spid |-> s, blocker |-> b, seconds |-> t, database |-> s]}]
  BY DEF Blocks
<1> DEFINE new == [spid |-> s, blocker |-> b, seconds |-> t, database |-> s]
           rows == inp.blocking \cup {new}
<1>2. t \in Int
  BY NotchesType DEF Measured
<1>3. /\ DOMAIN new = {"spid", "blocker", "database"} \cup {"seconds"}
      /\ new["seconds"] = t /\ new["spid"] = s /\ new["blocker"] = b
  OBVIOUS
<1>4. /\ "blocking" \in DOMAIN inp /\ IsFiniteSet(inp.blocking)
      /\ Frame(inp.blocking, {"spid", "blocker", "database"}, {"seconds"})
      /\ \A r \in inp.blocking : r["seconds"] # None /\ r["seconds"] \in Int
      /\ \A r \in inp.blocking : r["spid"] \in Session /\ r["blocker"] \in Session
  BY DEF InputType, SessionsKnown, Frame, Reading
<1>5. /\ DOMAIN inp' = DOMAIN inp /\ inp'["blocking"] = rows
      /\ \A g \in DOMAIN inp \ {"blocking"} : inp'[g] = inp[g]
  BY <1>1, <1>4, WithField
<1>6. IsFiniteSet(rows)
  BY <1>4, FS_AddElement
<1> HIDE DEF new
<1>7. Frame(rows, {"spid", "blocker", "database"}, {"seconds"})
  BY <1>2, <1>3, <1>4 DEF Frame, Reading
<1>8. \A r \in rows : r["seconds"] # None
  BY <1>2, <1>3, <1>4, NoneAssumption
<1>9. \A r \in inp.blocking : \E q \in rows : r["seconds"] <= q["seconds"]
  BY <1>4
<1>10. \A r \in rows : r["spid"] \in Session /\ r["blocker"] \in Session
  BY <1>3, <1>4
<1> HIDE DEF rows
<1>11. InputType(inp')
  BY <1>5, <1>6, <1>7, <1>8 DEF InputType
<1>12. SessionsKnown(inp')
  BY <1>5, <1>10 DEF SessionsKnown
<1>13. NoBetter(inp, inp')
  BY <1>5, <1>9, SameNoBetter DEF InputType, NoBetter
<1>14. QED
  BY <1>5, <1>11, <1>12, <1>13 DEF Worsened, InputType

LEMMA SeqOf ==
  ASSUME NEW S, NEW n \in Nat, NEW s \in [1..n -> S]
  PROVE  s \in Seq(S) /\ Len(s) = n
OBVIOUS

(* A growth series stays one.                                                *)
LEMMA SampledType ==
  ASSUME NEW points, PointsType(points), NEW gap \in Nat \ {0}, NEW more \in Int
  PROVE  PointsType(Sampled(points, gap, more))
<1> DEFINE Point == [day : Int, used : Int]
           last == points[Len(points)]
           next == Append(points, [day |-> last.day + gap, used |-> last.used + more])
           kept == IF Len(next) > Window THEN Tail(next) ELSE next
           new == Sampled(points, gap, more)
           Rising(s) == \A n \in 1..Len(s)-1 : s[n].day < s[n+1].day
<1>1. points \in Seq(Point) /\ Len(points) \in Nat /\ Len(points) >= 1 /\ Rising(points)
  BY DEF PointsType
<1>2. last \in Point /\ last.day \in Int /\ last.used \in Int
  <2>1. last \in Point
    BY <1>1, SeqType, Len(points) \in 1..Len(points)
  <2>2. QED
    BY <2>1
<1>3. [day |-> last.day + gap, used |-> last.used + more] \in Point
  BY <1>2
<1>4. next \in Seq(Point) /\ Len(next) = Len(points) + 1
  BY <1>1, <1>3
<1>5. next[Len(next)].day = last.day + gap /\ \A n \in 1..Len(points) : next[n] = points[n]
  BY <1>1, <1>3
<1> HIDE DEF next, last
<1>6. Rising(next)
  <2> 1..Len(next)-1 = 1..Len(points)
    BY <1>1, <1>4
  <2>1. SUFFICES ASSUME NEW n \in 1..Len(points)
                 PROVE  next[n].day < next[n+1].day
    OBVIOUS
  <2>2. CASE n = Len(points)
    <3>1. next[n] = last /\ next[n+1].day = last.day + gap
      BY <1>4, <1>5, <2>2 DEF last
    <3>2. QED
      BY <1>2, <3>1
  <2>3. CASE n # Len(points)
    <3>1. n \in 1..Len(points)-1 /\ n+1 \in 1..Len(points)
      BY <1>1, <2>3
    <3>2. QED
      BY <1>1, <1>5, <3>1
  <2>4. QED
    BY <2>2, <2>3
<1>7. kept \in Seq(Point) /\ Len(kept) \in Nat /\ Len(kept) >= 1 /\ Rising(kept)
  <2>1. CASE Len(next) > Window
    <3>1. kept = Tail(next)
      BY <2>1
    <3>2. /\ Tail(next) \in Seq(Point) /\ Len(Tail(next)) = Len(next) - 1
          /\ \A n \in 1..Len(next)-1 : Tail(next)[n] = next[n+1]
      BY <1>1, <1>4
    <3>3. Rising(Tail(next))
      <4> Len(Tail(next)) - 1 = Len(next) - 2
        BY <1>1, <1>4, <3>2
      <4>1. SUFFICES ASSUME NEW n \in 1..Len(next)-2
                     PROVE  Tail(next)[n].day < Tail(next)[n+1].day
        OBVIOUS
      <4>2. n \in 1..Len(next)-1 /\ n+1 \in 1..Len(next)-1
        BY <1>1, <1>4
      <4>3. QED
        BY <1>6, <3>2, <4>2
    <3>4. Len(Tail(next)) \in Nat /\ Len(Tail(next)) >= 1
      BY <1>1, <1>4, <3>2
    <3>5. QED
      BY <3>1, <3>2, <3>3, <3>4
  <2>2. CASE ~(Len(next) > Window)
    BY <1>1, <1>4, <1>6, <2>2
  <2>3. QED
    BY <2>1, <2>2
<1>8. new = [n \in DOMAIN kept |-> [kept[n] EXCEPT !.day = @ - kept[1].day]]
  BY DEF Sampled, next, last
<1> HIDE DEF kept
<1>9. \A n \in 1..Len(kept) : kept[n] \in Point /\ kept[n].day \in Int
  <2>1. \A n \in 1..Len(kept) : kept[n] \in Point
    BY <1>7, SeqType
  <2>2. QED
    BY <2>1
<1>10. \A n \in 1..Len(kept) : new[n] \in Point /\ new[n].day = kept[n].day - kept[1].day
  <2>1. 1 \in 1..Len(kept) /\ DOMAIN kept = 1..Len(kept)
    BY <1>7, SeqType
  <2>2. ASSUME NEW n \in 1..Len(kept)
        PROVE  new[n] \in Point /\ new[n].day = kept[n].day - kept[1].day
    <3>1. new[n] = [kept[n] EXCEPT !.day = kept[n].day - kept[1].day]
      BY <1>8, <2>1
    <3>2. kept[n] \in Point /\ kept[n].day - kept[1].day \in Int
      BY <1>9, <2>1
    <3>3. QED
      BY <3>1, <3>2
  <2>3. QED
    BY <2>2
<1>11. DOMAIN new = 1..Len(kept) /\ new = [n \in 1..Len(kept) |-> new[n]]
  BY <1>7, <1>8, SeqType
<1> HIDE DEF new
<1>12. new \in Seq(Point) /\ Len(new) = Len(kept)
  <2>1. new \in [1..Len(kept) -> Point]
    BY <1>10, <1>11
  <2>2. QED
    BY <1>7, <2>1, SeqOf
<1>13. Rising(new)
  <2>1. SUFFICES ASSUME NEW n \in 1..Len(kept)-1
                 PROVE  new[n].day < new[n+1].day
    BY <1>12
  <2>2. n \in 1..Len(kept) /\ n+1 \in 1..Len(kept) /\ 1 \in 1..Len(kept)
    BY <1>7
  <2>3. kept[n].day < kept[n+1].day
    BY <1>7
  <2>4. QED
    BY <1>9, <1>10, <2>2, <2>3
<1>14. QED
  BY <1>7, <1>12, <1>13 DEF PointsType, new

(* What a sample leaves alone: everything but the series it is added to.     *)
Filled(i, j) ==
  /\ InputType(j) /\ SessionsKnown(j) /\ NoBetter(i, j)
  /\ DOMAIN i.dbGrowth \cup DOMAIN i.driveGrowth # {}
  /\ DOMAIN j.dbGrowth \cup DOMAIN j.driveGrowth # {}

LEMMA FillsStep ==
  ASSUME InputType(inp), SessionsKnown(inp), Fills
  PROVE  Filled(inp, inp')
<1>1. PICK f \in {"dbGrowth", "driveGrowth"} :
        \E key \in DOMAIN inp[f], gap \in Gaps, more \in Growths :
          /\ inp[f][key].points[Len(inp[f][key].points)].used + more \in 0..MaxUsed
          /\ inp' = [inp EXCEPT ![f][key].points = Sampled(@, gap, more)]
  BY Zenon DEF Fills
<1>2. PICK key \in DOMAIN inp[f], gap \in Gaps, more \in Growths :
        inp' = [inp EXCEPT ![f][key].points = Sampled(@, gap, more)]
  BY <1>1, Zenon
<1> DEFINE points == Sampled(inp[f][key].points, gap, more)
           series == [inp[f][key] EXCEPT !.points = points]
           growth == [inp[f] EXCEPT ![key] = series]
<1>3. f \in DOMAIN inp /\ GrowthType(inp[f])
  BY DEF InputType
<1>4. inp' = [inp EXCEPT ![f] = growth]
  BY <1>2
<1>5. DOMAIN inp' = DOMAIN inp /\ inp'[f] = growth /\ \A g \in DOMAIN inp \ {f} : inp'[g] = inp[g]
  BY <1>3, <1>4, WithField
<1>6. gap \in Nat \ {0} /\ more \in Int
  BY AnalysisAssumption
<1>7. PointsType(points)
  BY <1>3, <1>6, SampledType DEF GrowthType
<1>8. /\ DOMAIN series = {"points", "capacity"} /\ series["points"] = points
      /\ series["capacity"] = inp[f][key]["capacity"]
  BY <1>3 DEF GrowthType
<1>9. DOMAIN growth = DOMAIN inp[f] /\ growth[key] = series /\ \A k \in DOMAIN inp[f] \ {key} : growth[k] = inp[f][k]
  OBVIOUS
<1> HIDE DEF points, series, growth
<1>10. GrowthType(growth)
  BY <1>3, <1>7, <1>8, <1>9 DEF GrowthType
<1>11. InputType(inp')
  BY <1>5, <1>10 DEF InputType
<1>12. SessionsKnown(inp')
  BY <1>5 DEF SessionsKnown, InputType
<1>13. NoBetter(inp, inp')
  BY <1>5, SameNoBetter DEF InputType, NoBetter
<1>14. DOMAIN inp[f] # {} /\ DOMAIN inp'[f] # {}
  BY <1>5, <1>9
<1>15. QED
  BY <1>11, <1>12, <1>13, <1>14 DEF Filled

-----------------------------------------------------------------------------
(* Types.                                                                    *)

LEMMA OrderOf ==
  /\ SeverityOrder[None] = -1 /\ SeverityOrder["info"] = 0
  /\ SeverityOrder["warn"] = 1 /\ SeverityOrder["crit"] = 2
BY NoneAssumption DEF SeverityOrder

SeveritiesOf(findings, c) == {None} \cup {f.severity : f \in {g \in findings : g.category = c}}

(* The worst severity of a category is that of a finding, or none.           *)
LEMMA WorstIs ==
  ASSUME NEW findings, \A f \in findings : f.severity \in {"info", "warn", "crit"}, NEW c
  PROVE  /\ Worst(findings, c) \in SeveritiesOf(findings, c)
         /\ Worst(findings, c) \in {None, "info", "warn", "crit"}
         /\ \A s \in SeveritiesOf(findings, c) : SeverityOrder[s] <= SeverityOrder[Worst(findings, c)]
<1> DEFINE S == SeveritiesOf(findings, c)
<1>1. S \subseteq {None, "info", "warn", "crit"} /\ None \in S
  BY DEF SeveritiesOf
<1>2. \E s \in S : \A t \in S : SeverityOrder[t] <= SeverityOrder[s]
  <2>1. CASE "crit" \in S
    BY <1>1, <2>1, OrderOf
  <2>2. CASE "crit" \notin S /\ "warn" \in S
    BY <1>1, <2>2, OrderOf
  <2>3. CASE "crit" \notin S /\ "warn" \notin S /\ "info" \in S
    BY <1>1, <2>3, OrderOf
  <2>4. CASE "crit" \notin S /\ "warn" \notin S /\ "info" \notin S
    BY <1>1, <2>4, OrderOf
  <2>5. QED
    BY <2>1, <2>2, <2>3, <2>4
<1>3. Worst(findings, c) = CHOOSE s \in S : \A t \in S : SeverityOrder[t] <= SeverityOrder[s]
  BY DEF Worst, SeveritiesOf
<1> HIDE DEF S
<1>4. /\ Worst(findings, c) \in S
      /\ \A t \in S : SeverityOrder[t] <= SeverityOrder[Worst(findings, c)]
  BY <1>2, <1>3
<1>5. QED
  BY <1>1, <1>4 DEF S

(* TypeOK, and what makes it inductive: a worker that still merges has a     *)
(* layer left.                                                               *)
TypeInv ==
  /\ TypeOK
  /\ layer = [w \in Worker |-> layer[w]]
  /\ own = [w \in Worker |-> own[w]]
  /\ alias = [w \in Worker |-> alias[w]]
  /\ \A w \in Worker : pc[w] = "merging" => layer[w] <= Len(Layers(server[w]))

(* What TypeOK says of one worker.                                           *)
WorkerType(w) ==
  /\ server[w] = NoServer <=> pc[w] = "idle"
  /\ layer[w] \in 1..(IF pc[w] = "idle" THEN 1 ELSE Len(Layers(server[w])) + 1)
  /\ DOMAIN own[w] \cap DOMAIN alias[w] = {}
  /\ \A c \in DOMAIN alias[w] : alias[w][c] \in Source /\ c \in DOMAIN overrides[alias[w][c]]
  /\ pc[w] = "merging" => layer[w] <= Len(Layers(server[w]))

MergeTypes ==
  /\ pc \in [Worker -> {"idle", "merging", "resolved"}]
  /\ server \in [Worker -> Server \cup {NoServer}]
  /\ layer = [w \in Worker |-> layer[w]]
  /\ own = [w \in Worker |-> own[w]]
  /\ alias = [w \in Worker |-> alias[w]]
  /\ DOMAIN overrides = Source
  /\ \A w \in Worker : WorkerType(w)

InputTypes ==
  /\ InputType(inp) /\ SessionsKnown(inp)
  /\ graded \in [Category -> {None, "info", "warn", "crit"}]

LEMMA TypeParts == TypeInv <=> MergeTypes /\ InputTypes
BY DEF TypeInv, TypeOK, MergeTypes, InputTypes, WorkerType

LEMMA InitTypes == Init => TypeInv
<1> SUFFICES ASSUME Init
               PROVE  MergeTypes /\ InputTypes
  BY TypeParts
<1>2. MergeTypes
  <2>1. ASSUME NEW w \in Worker
        PROVE  WorkerType(w)
    <3>1. server[w] = NoServer /\ pc[w] = "idle" /\ layer[w] = 1 /\ own[w] = Empty /\ alias[w] = Empty
      BY DEF Init, MergeInit
    <3>2. DOMAIN Empty = {}
      BY DEF Empty
    <3>3. QED
      BY <3>1, <3>2 DEF WorkerType
  <2>2. DOMAIN overrides = Source
    BY OverrideAssumption DEF Init, MergeInit
  <2>3. QED
    BY <2>1, <2>2 DEF Init, MergeInit, MergeTypes
<1>3. InputTypes
  <2>1. \A i \in Inputs : InputType(i) /\ SessionsKnown(i)
    BY AnalysisAssumption
  <2>2. inp \in Inputs /\ graded = [c \in Category |-> None]
    BY DEF Init
  <2>3. QED
    BY <2>1, <2>2 DEF InputTypes
<1>4. QED
  BY <1>2, <1>3

LEMMA CopyTypes ==
  ASSUME MergeTypes, NEW w \in Worker, Copy(w)
  PROVE  MergeTypes'
<1>1. PICK s \in Server : server' = [server EXCEPT ![w] = s]
  BY DEF Copy
<1>2. /\ server'[w] = s /\ pc'[w] = "merging" /\ layer'[w] = 1 /\ alias'[w] = Empty /\ overrides' = overrides
      /\ \A v \in Worker \ {w} : /\ server'[v] = server[v] /\ pc'[v] = pc[v] /\ layer'[v] = layer[v]
                                 /\ own'[v] = own[v] /\ alias'[v] = alias[v]
  BY <1>1 DEF Copy, Reset, MergeTypes
<1>3. WorkerType(w)'
  <2>1. DOMAIN alias'[w] = {}
    BY <1>2 DEF Empty
  <2>2. Len(Layers(s)) \in Nat /\ Len(Layers(s)) >= 1
    BY LayerType DEF Size
  <2>3. QED
    BY <1>2, <2>1, <2>2, OverrideAssumption DEF WorkerType
<1>4. \A v \in Worker \ {w} : WorkerType(v)'
  BY <1>2 DEF MergeTypes, WorkerType
<1>5. QED
  BY <1>1, <1>2, <1>3, <1>4 DEF Copy, Reset, MergeTypes

LEMMA DropTypes ==
  ASSUME MergeTypes, NEW w \in Worker, Drop(w)
  PROVE  MergeTypes'
<1>1. /\ server'[w] = NoServer /\ pc'[w] = "idle" /\ layer'[w] = 1 /\ alias'[w] = Empty /\ overrides' = overrides
      /\ \A v \in Worker \ {w} : /\ server'[v] = server[v] /\ pc'[v] = pc[v] /\ layer'[v] = layer[v]
                                 /\ own'[v] = own[v] /\ alias'[v] = alias[v]
  BY DEF Drop, Reset, MergeTypes
<1>2. WorkerType(w)'
  <2>1. DOMAIN alias'[w] = {}
    BY <1>1 DEF Empty
  <2>2. QED
    BY <1>1, <2>1 DEF WorkerType
<1>3. \A v \in Worker \ {w} : WorkerType(v)'
  BY <1>1 DEF MergeTypes, WorkerType
<1>4. QED
  BY <1>1, <1>2, <1>3 DEF Drop, Reset, MergeTypes

LEMMA MergeLayerTypes ==
  ASSUME MergeTypes, NEW w \in Worker, MergeLayer(w)
  PROVE  MergeTypes'
<1> DEFINE s == server[w]
           o == Layers(s)[layer[w]]
           over == overrides[o]
           new == NewBlocks(w, over)
<1>1. pc[w] = "merging" /\ WorkerType(w)
  BY DEF MergeLayer, MergeTypes
<1>2. s \in Server
  BY <1>1 DEF MergeTypes, WorkerType
<1>3. Len(Layers(s)) \in Nat /\ layer[w] \in 1..Len(Layers(s)) /\ o \in Source
  <2>1. Len(Layers(s)) \in Nat /\ \A i \in 1..Len(Layers(s)) : Layers(s)[i] \in Source
    BY <1>2, LayerType DEF Size
  <2>2. layer[w] \in 1..Len(Layers(s)) + 1 /\ layer[w] <= Len(Layers(s))
    BY <1>1 DEF WorkerType
  <2>3. QED
    BY <2>1, <2>2
<1>4. /\ server' = server /\ layer'[w] = layer[w] + 1
      /\ pc'[w] = IF layer[w] = Len(Layers(s)) THEN "resolved" ELSE "merging"
      /\ DOMAIN own'[w] = DOMAIN own[w]
      /\ alias'[w] = [c \in DOMAIN alias[w] \cup new |-> IF c \in new THEN o ELSE alias[w][c]]
  BY DEF MergeLayer, MergeTypes
<1>5. DOMAIN overrides' = Source /\ \A q \in Source : DOMAIN overrides'[q] = DOMAIN overrides[q]
  BY DEF MergeLayer
<1>6. \A v \in Worker \ {w} : /\ pc'[v] = pc[v] /\ layer'[v] = layer[v]
                              /\ own'[v] = own[v] /\ alias'[v] = alias[v]
  BY DEF MergeLayer, MergeTypes
<1>7. WorkerType(w)'
  <2>1. server'[w] # NoServer /\ pc'[w] # "idle"
    BY <1>2, <1>4, OverrideAssumption
  <2>2. /\ layer'[w] \in 1..Len(Layers(s)) + 1
        /\ pc'[w] = "merging" => layer'[w] <= Len(Layers(s))
    BY <1>3, <1>4
  <2>3. DOMAIN own'[w] \cap DOMAIN alias'[w] = {}
    BY <1>1, <1>4 DEF WorkerType, NewBlocks
  <2>4. \A c \in DOMAIN alias'[w] : alias'[w][c] \in Source /\ c \in DOMAIN overrides'[alias'[w][c]]
    BY <1>1, <1>3, <1>4, <1>5 DEF WorkerType, NewBlocks
  <2>5. QED
    BY <1>4, <2>1, <2>2, <2>3, <2>4 DEF WorkerType
<1>8. \A v \in Worker \ {w} : WorkerType(v)'
  <2>1. SUFFICES ASSUME NEW v \in Worker \ {w}
                 PROVE  WorkerType(v)'
    OBVIOUS
  <2>2. WorkerType(v)
    BY DEF MergeTypes
  <2>3. QED
    BY <1>4, <1>5, <1>6, <2>2 DEF WorkerType
<1>9. /\ pc' \in [Worker -> {"idle", "merging", "resolved"}]
      /\ layer' = [v \in Worker |-> layer'[v]] /\ own' = [v \in Worker |-> own'[v]]
      /\ alias' = [v \in Worker |-> alias'[v]]
  BY DEF MergeLayer, MergeTypes
<1>10. QED
  BY <1>4, <1>5, <1>7, <1>8, <1>9 DEF MergeTypes

LEMMA EvaluateGrades ==
  ASSUME InputTypes, NEW w \in Worker, Evaluate(w)
  PROVE  InputTypes'
<1>1. \A c \in Category : Worst(Findings(inp, Effective(w)), c) \in {None, "info", "warn", "crit"}
  BY FindingsType, WorstIs
<1>2. QED
  BY <1>1 DEF Evaluate, InputTypes

LEMMA NextTypes == TypeInv /\ [Next]_vars => TypeInv'
<1> SUFFICES ASSUME MergeTypes, InputTypes, [Next]_vars
               PROVE  MergeTypes' /\ InputTypes'
  <2>1. TypeInv <=> MergeTypes /\ InputTypes
    BY TypeParts
  <2>2. TypeInv' <=> MergeTypes' /\ InputTypes'
    BY DEF TypeInv, TypeOK, MergeTypes, InputTypes, WorkerType
  <2>3. QED
    BY <2>1, <2>2
<1>2. ASSUME UNCHANGED mergeVars
      PROVE  MergeTypes'
  BY <1>2 DEF mergeVars, MergeTypes, WorkerType
<1>3. ASSUME NEW w \in Worker, Resolve(w)
      PROVE  MergeTypes' /\ InputTypes'
  BY <1>3, CopyTypes, MergeLayerTypes DEF Resolve, InputTypes
<1>4. ASSUME NEW w \in Worker, Evaluate(w)
      PROVE  MergeTypes' /\ InputTypes'
  BY <1>4, DropTypes, EvaluateGrades DEF Evaluate
<1>5. CASE Worsens
  <2>1. Worsened(inp, inp')
    BY <1>5, WorsensStep DEF InputTypes
  <2>2. QED
    BY <1>2, <1>5, <2>1 DEF Worsens, Worsened, InputTypes
<1>6. CASE Blocks
  <2>1. Worsened(inp, inp')
    BY <1>6, BlocksStep DEF InputTypes
  <2>2. QED
    BY <1>2, <1>6, <2>1 DEF Blocks, Worsened, InputTypes
<1>7. CASE Fills
  <2>1. Filled(inp, inp')
    BY <1>7, FillsStep DEF InputTypes
  <2>2. QED
    BY <1>2, <1>7, <2>1 DEF Fills, Filled, InputTypes
<1>8. CASE UNCHANGED vars
  BY <1>2, <1>8 DEF vars, InputTypes
<1>9. QED
  BY <1>3, <1>4, <1>5, <1>6, <1>7, <1>8 DEF Next

(* Whatever is measured and however it gets worse, the input stays one that  *)
(* the rules can be evaluated on, and every block of merged thresholds is the*)
(* worker's own or one that the overrides have.                              *)
THEOREM TypeCorrect == Spec => []TypeOK
<1>1. TypeInv => TypeOK
  BY DEF TypeInv
<1>2. QED
  BY <1>1, InitTypes, NextTypes, PTL DEF Spec

-----------------------------------------------------------------------------
(* A server's own thresholds.                                                *)

LEMMA NextMerges == [Next]_vars => [MergeNext]_mergeVars
BY DEF Next, vars, MergeNext, mergeVars, Resolve, Evaluate, Worsens, Blocks, Fills

(* config.py's override precedence, for any tags, servers, overrides and     *)
(* number of workers: thresholds.effective gives every server its own        *)
(* thresholds if no category is missing from the defaults and set by two     *)
(* layers of one server.                                                     *)
THEOREM OwnThresholdsKept == ASSUME NoneShared PROVE Spec => []OwnThresholds
<1>1. Init => MergeInit
  BY DEF Init
<1>2. MergeInv => OwnThresholds
  BY ResolvedIsIntended
<1>3. MergeInv /\ [Next]_vars => MergeInv'
  BY NextMerges, MergeInvStep
<1>4. QED
  BY <1>1, <1>2, <1>3, MergeInitType, PTL DEF Spec

-----------------------------------------------------------------------------
(* No milder grade for a server that gets worse.                             *)

LEMMA OrderNoMilder ==
  ASSUME NEW s \in {None, "info", "warn", "crit"}, NEW t \in {None, "info", "warn", "crit"}, NoMilder(s, t)
  PROVE  SeverityOrder[s] <= SeverityOrder[t]
BY OrderOf, NoneAssumption DEF NoMilder

LEMMA WorstNoMilder ==
  ASSUME NEW F, \A f \in F : f.severity \in {"info", "warn", "crit"},
         NEW G, \A g \in G : g.severity \in {"info", "warn", "crit"}, NEW c,
         \A f \in F : f.category = c => \E g \in G : g.category = f.category /\ NoMilder(f.severity, g.severity)
  PROVE  SeverityOrder[Worst(F, c)] <= SeverityOrder[Worst(G, c)]
<1> DEFINE s == Worst(F, c)
           t == Worst(G, c)
<1>1. /\ s \in SeveritiesOf(F, c) /\ s \in {None, "info", "warn", "crit"}
      /\ t \in {None, "info", "warn", "crit"}
      /\ \A u \in SeveritiesOf(G, c) : SeverityOrder[u] <= SeverityOrder[t]
  BY WorstIs
<1> SUFFICES SeverityOrder[s] <= SeverityOrder[t]
  OBVIOUS
<1> HIDE DEF s, t
<1>2. CASE s = None
  <2>1. None \in SeveritiesOf(G, c)
    BY DEF SeveritiesOf
  <2>2. QED
    BY <1>1, <1>2, <2>1
<1>3. CASE s # None
  <2>1. PICK f \in F : f.category = c /\ f.severity = s
    BY <1>1, <1>3 DEF SeveritiesOf
  <2>2. PICK g \in G : g.category = c /\ NoMilder(s, g.severity)
    BY <2>1
  <2>3. g.severity \in SeveritiesOf(G, c) /\ g.severity \in {None, "info", "warn", "crit"}
    BY <2>2 DEF SeveritiesOf
  <2>4. /\ SeverityOrder[s] <= SeverityOrder[g.severity]
        /\ SeverityOrder[g.severity] <= SeverityOrder[t]
    BY <1>1, <2>2, <2>3, OrderNoMilder
  <2>5. /\ SeverityOrder[s] \in Int /\ SeverityOrder[t] \in Int
        /\ SeverityOrder[g.severity] \in Int
    BY <1>1, <2>3, OrderOf
  <2>6. QED
    BY <2>4, <2>5
<1>4. QED
  BY <1>2, <1>3

LEMMA LatestIs ==
  ASSUME NEW n \in Nat, NEW S \in SUBSET (1..n), S # {}
  PROVE  Latest(S) \in S
<1> DEFINE T == {n - i : i \in S}
<1> \A i \in S : i \in Nat /\ n - i \in Nat
  OBVIOUS
<1>1. T \in SUBSET Nat /\ T # {}
  OBVIOUS
<1>2. PICK m \in T : \A k \in T : m <= k
  BY <1>1, Least
<1>3. PICK i \in S : m = n - i
  BY <1>2
<1>4. \A j \in S : j <= i
  <2>1. SUFFICES ASSUME NEW j \in S
                 PROVE  j <= i
    OBVIOUS
  <2>2. n - j \in T
    OBVIOUS
  <2>3. n - i <= n - j
    BY <1>2, <1>3, <2>2
  <2>4. QED
    BY <2>3
<1>5. QED
  BY <1>4 DEF Latest

(* The thresholds of a server are thresholds.                                *)
LEMMA IntendedType ==
  ASSUME NEW s \in Server
  PROVE  LimitsType(Intended(s, Size(s)))
<1> DEFINE n == Size(s)
<1>1. n \in Nat /\ \A i \in 1..n : Layers(s)[i] \in Source
  BY LayerType
<1> HIDE DEF n
<1>2. LimitsType(Defaults) /\ \A o \in Source : LimitsType(Overrides[o])
  BY AnalysisAssumption
<1>3. ASSUME NEW c, NEW k \in Keys(s, n, c)
      PROVE  IntendedBlock(s, n, c)[k] \in IF k \in Counts THEN Int ELSE Reading
  <2>1. CASE SetsKey(s, n, c, k) = {}
    <3>1. k \in DefaultKeys(c)
      BY <2>1 DEF Keys, OverlayKeys, SetsKey
    <3>2. c \in DOMAIN Defaults /\ k \in DOMAIN Defaults[c]
      BY <3>1 DEF DefaultKeys
    <3>3. IntendedBlock(s, n, c)[k] = Defaults[c][k]
      BY <2>1 DEF IntendedBlock
    <3>4. QED
      BY <1>2, <3>2, <3>3 DEF LimitsType
  <2>2. CASE SetsKey(s, n, c, k) # {}
    <3> DEFINE i == Latest(SetsKey(s, n, c, k))
    <3>1. i \in SetsKey(s, n, c, k)
      BY <1>1, <2>2, LatestIs, SetsKey(s, n, c, k) \in SUBSET (1..n) DEF SetsKey
    <3> HIDE DEF i
    <3>2. Layers(s)[i] \in Source /\ c \in DOMAIN Overrides[Layers(s)[i]] /\ k \in DOMAIN Overrides[Layers(s)[i]][c]
      BY <1>1, <3>1 DEF SetsKey, Sets
    <3>3. IntendedBlock(s, n, c)[k] = Overrides[Layers(s)[i]][c][k]
      BY <2>2 DEF IntendedBlock, i
    <3>4. LimitsType(Overrides[Layers(s)[i]])
      BY <1>2, <3>2
    <3>5. QED
      BY <3>2, <3>3, <3>4 DEF LimitsType
  <2>3. QED
    BY <2>1, <2>2
<1>4. \A c : DOMAIN IntendedBlock(s, n, c) = Keys(s, n, c)
  BY DEF IntendedBlock
<1>5. QED
  BY <1>3, <1>4 DEF LimitsType, Intended, n

(* How Watched would be graded now.                                          *)
Now(c) == Worst(Findings(inp, Intended(Watched, Size(Watched))), c)
PutOff(c) == c = "space" /\ (DOMAIN inp.dbGrowth \cup DOMAIN inp.driveGrowth) # {}

(* No category has been graded more severely than it would be now.           *)
Standing == \A c \in Category : PutOff(c) \/ SeverityOrder[graded[c]] <= SeverityOrder[Now(c)]

LEMMA NowType ==
  ASSUME NEW c
  PROVE  Now(c) \in {None, "info", "warn", "crit"}
BY FindingsType, WorstIs DEF Now

LEMMA GrowsOnly ==
  ASSUME InputType(inp), InputType(inp)', NoBetter(inp, inp'), NEW c \in Category,
         c = "space" => inp'.dbGrowth = inp.dbGrowth /\ inp'.driveGrowth = inp.driveGrowth
  PROVE  SeverityOrder[Now(c)] <= SeverityOrder[Now(c)']
<1> DEFINE limits == Intended(Watched, Size(Watched))
           F == Findings(inp, limits)
           G == Findings(inp', limits)
<1>1. LimitsType(limits)
  BY AnalysisAssumption, IntendedType
<1> HIDE DEF limits
<1>2. /\ \A f \in F : f.severity \in {"info", "warn", "crit"}
      /\ \A g \in G : g.severity \in {"info", "warn", "crit"}
  BY FindingsType
<1>3. ASSUME NEW f \in F, f.category = c
      PROVE  \E g \in G : g.category = f.category /\ NoMilder(f.severity, g.severity)
  BY <1>1, <1>3, NoBetterNoMilder
<1>4. Now(c) = Worst(F, c) /\ Now(c)' = Worst(G, c)
  BY DEF Now, limits
<1> HIDE DEF F, G
<1>5. QED
  BY <1>2, <1>3, <1>4, WorstNoMilder

(* An evaluation grades with the intended thresholds.                        *)
LEMMA EvaluateNow ==
  ASSUME NoneShared, TypeInv, MergeInv, NEW w \in Worker, Evaluate(w)
  PROVE  graded' = graded \/ graded' = [c \in Category |-> Now(c)]
<1>1. CASE server[w] # Watched
  BY <1>1 DEF Evaluate
<1>2. CASE server[w] = Watched
  <2>1. Effective(w) = Intended(Watched, Size(Watched))
    BY <1>2, ResolvedIsIntended DEF OwnThresholds, Evaluate, Drop, Size
  <2>2. QED
    BY <1>2, <2>1 DEF Evaluate, Now
<1>3. QED
  BY <1>1, <1>2

LEMMA OrderType ==
  ASSUME NEW s \in {None, "info", "warn", "crit"}
  PROVE  SeverityOrder[s] \in Int
BY OrderOf

LEMMA StandingInit == Init => Standing
<1> SUFFICES ASSUME Init, NEW c \in Category
             PROVE  SeverityOrder[graded[c]] <= SeverityOrder[Now(c)]
  BY DEF Standing
<1>1. graded[c] = None
  BY DEF Init
<1>2. Now(c) \in {None, "info", "warn", "crit"}
  BY NowType
<1> HIDE DEF Now
<1>3. QED
  BY <1>1, <1>2, OrderOf

LEMMA StandingStep ==
  ASSUME NoneShared, TypeInv, MergeInv, Standing, [Next]_vars
  PROVE  Standing'
<1>1. InputTypes /\ InputTypes'
  BY TypeParts, NextTypes DEF TypeInv, TypeOK, InputTypes
<1>2. ASSUME UNCHANGED <<inp, graded>>
      PROVE  Standing'
  BY <1>2 DEF Standing, Now, PutOff
<1>3. ASSUME NEW w \in Worker, Evaluate(w)
      PROVE  Standing'
  <2>1. UNCHANGED inp
    BY <1>3 DEF Evaluate
  <2>2. \A c \in Category : Now(c)' = Now(c) /\ (PutOff(c)' <=> PutOff(c))
    BY <2>1 DEF Now, PutOff
  <2>3. CASE graded' = graded
    BY <1>2, <2>1, <2>3
  <2>4. CASE graded' = [c \in Category |-> Now(c)]
    <3>1. \A c \in Category : graded'[c] = Now(c) /\ SeverityOrder[Now(c)] \in Int
      BY <2>4, NowType, OrderType
    <3>2. QED
      BY <2>2, <3>1 DEF Standing
  <2>5. QED
    BY <1>3, <2>3, <2>4, EvaluateNow
<1>4. ASSUME graded' = graded, NoBetter(inp, inp'),
             \A c \in Category : PutOff(c) => PutOff(c)',
             PutOff("space")' \/ (inp'.dbGrowth = inp.dbGrowth /\ inp'.driveGrowth = inp.driveGrowth)
      PROVE  Standing'
  <2>1. SUFFICES ASSUME NEW c \in Category, ~PutOff(c)'
                 PROVE  SeverityOrder[graded[c]] <= SeverityOrder[Now(c)']
    BY <1>4 DEF Standing
  <2>2. SeverityOrder[graded[c]] <= SeverityOrder[Now(c)]
    BY <1>4, <2>1 DEF Standing
  <2>3. SeverityOrder[Now(c)] <= SeverityOrder[Now(c)']
    BY <1>1, <1>4, <2>1, GrowsOnly DEF InputTypes
  <2>4. graded[c] \in {None, "info", "warn", "crit"} /\ Now(c) \in {None, "info", "warn", "crit"}
    BY <1>1, NowType DEF InputTypes
  <2>5. Now(c)' \in {None, "info", "warn", "crit"}
    BY FindingsType, WorstIs DEF Now
  <2>6. /\ SeverityOrder[graded[c]] \in Int /\ SeverityOrder[Now(c)] \in Int
        /\ SeverityOrder[Now(c)'] \in Int
    BY <2>4, <2>5, OrderType
  <2>7. QED
    BY <2>2, <2>3, <2>6
<1>5. CASE Worsens \/ Blocks
  <2>1. Worsened(inp, inp') /\ graded' = graded
    BY <1>1, <1>5, WorsensStep, BlocksStep DEF InputTypes, Worsens, Blocks
  <2>2. QED
    BY <1>4, <2>1 DEF Worsened, PutOff
<1>6. CASE Fills
  <2>1. Filled(inp, inp') /\ graded' = graded
    BY <1>1, <1>6, FillsStep DEF InputTypes, Fills
  <2>2. QED
    BY <1>4, <2>1 DEF Filled, PutOff
<1>7. ASSUME NEW w \in Worker, Resolve(w)
      PROVE  Standing'
  BY <1>2, <1>7 DEF Resolve
<1>8. CASE UNCHANGED vars
  BY <1>2, <1>8 DEF vars
<1>9. QED
  BY <1>3, <1>5, <1>6, <1>7, <1>8 DEF Next

LEMMA NoFall ==
  ASSUME NoneShared, TypeInv, MergeInv, Standing, [Next]_vars
  PROVE  \A c \in Category :
           \/ c = "space" /\ (DOMAIN inp.dbGrowth \cup DOMAIN inp.driveGrowth) # {}
           \/ SeverityOrder[graded'[c]] >= SeverityOrder[graded[c]]
<1> SUFFICES ASSUME NEW c \in Category, ~PutOff(c)
             PROVE  SeverityOrder[graded'[c]] >= SeverityOrder[graded[c]]
  BY DEF PutOff
<1>1. graded[c] \in {None, "info", "warn", "crit"} /\ SeverityOrder[graded[c]] \in Int
  BY OrderType, TypeParts DEF InputTypes
<1>2. CASE graded' = graded
  BY <1>1, <1>2
<1>3. CASE graded' = [d \in Category |-> Now(d)]
  <2>1. graded'[c] = Now(c) /\ SeverityOrder[graded[c]] <= SeverityOrder[Now(c)]
    BY <1>3 DEF Standing
  <2>2. SeverityOrder[Now(c)] \in Int
    BY NowType, OrderType
  <2>3. QED
    BY <1>1, <2>1, <2>2
<1>4. graded' = graded \/ graded' = [d \in Category |-> Now(d)]
  <2>1. CASE \E w \in Worker : Evaluate(w)
    BY <2>1, EvaluateNow
  <2>2. CASE ~\E w \in Worker : Evaluate(w)
    BY <2>2 DEF Next, vars, Resolve, Worsens, Blocks, Fills
  <2>3. QED
    BY <2>1, <2>2
<1>5. QED
  BY <1>2, <1>3, <1>4

(* Whatever the thresholds, a server whose measurements only get worse is    *)
(* never graded milder than before, however many workers analyze it and      *)
(* whatever they resolve next to it.                                         *)
THEOREM NeverGradedMilder == ASSUME NoneShared PROVE Spec => SeverityNeverFalls
<1>1. Init => TypeInv /\ MergeInv /\ Standing
  BY InitTypes, MergeInitType, StandingInit DEF Init
<1>2. TypeInv /\ MergeInv /\ Standing /\ [Next]_vars => (TypeInv /\ MergeInv /\ Standing)'
  BY NextTypes, NextMerges, MergeInvStep, StandingStep
<1>3. TypeInv /\ MergeInv /\ Standing /\ [Next]_vars =>
        [\A c \in Category :
           \/ c = "space" /\ (DOMAIN inp.dbGrowth \cup DOMAIN inp.driveGrowth) # {}
           \/ SeverityOrder[graded'[c]] >= SeverityOrder[graded[c]]]_vars
  BY NoFall
<1>4. QED
  BY <1>1, <1>2, <1>3, PTL DEF Spec, SeverityNeverFalls

-----------------------------------------------------------------------------
(* The blocking chain.                                                       *)

(* chain_depth counts the blocked sessions on the way to the head, each once *)
(* whatever cycles there are, up to the limit of its walk, for any sessions  *)
(* and any limit.                                                            *)
THEOREM ChainDepthsCount == Spec => []ChainDepthCounts
<1>1. ASSUME InputType(inp), SessionsKnown(inp)
      PROVE  ChainDepthCounts
  <2> DEFINE Blocked == {row.spid : row \in inp.blocking}
             BlockerOf == [s \in Blocked |-> (CHOOSE row \in inp.blocking : row.spid = s).blocker]
             OnTheWay(s) ==
               {t \in Blocked : \A S \in SUBSET Session :
                  s \in S /\ (\A u \in S \cap Blocked : BlockerOf[u] \in S) => t \in S}
  <2>1. SUFFICES ASSUME NEW s \in Session
                 PROVE  ChainDepth(s, BlockerOf, MaxWalk)
                          = 1 + IF Cardinality(OnTheWay(s)) < MaxWalk THEN Cardinality(OnTheWay(s)) ELSE MaxWalk
    BY DEF ChainDepthCounts
  <2>2. IsFiniteSet(Blocked)
    <3> DEFINE spid == [row \in inp.blocking |-> row.spid]
    <3>1. spid \in Surjection(inp.blocking, Blocked)
      BY DEF Surjection
    <3>2. IsFiniteSet(inp.blocking)
      BY <1>1 DEF InputType
    <3>3. QED
      BY <3>1, <3>2, FS_Surjection
  <2>3. DOMAIN BlockerOf = Blocked /\ Blocked \subseteq Session
    BY <1>1 DEF SessionsKnown
  <2>4. \A u \in Blocked : BlockerOf[u] \in Session
    BY <1>1 DEF SessionsKnown
  <2>5. MaxWalk \in Nat
    BY AnalysisAssumption
  <2>6. OnTheWay(s) = {t \in DOMAIN BlockerOf :
                         \A S \in SUBSET Session : s \in S /\ Closed(S, BlockerOf) => t \in S}
    BY DEF Closed
  <2> HIDE DEF Blocked, BlockerOf, OnTheWay
  <2>7. QED
    BY <2>2, <2>3, <2>4, <2>5, <2>6, ChainDepthExact
<1>2. TypeOK => ChainDepthCounts
  BY <1>1 DEF TypeOK
<1>3. QED
  BY <1>2, TypeCorrect, PTL

-----------------------------------------------------------------------------
(* The projection.                                                           *)

(* Divided by the slope, what is left to fill is judged between the fastest  *)
(* and the slowest interval.                                                 *)
LEMMA FastEnough ==
  ASSUME NEW points, PointsType(points), Len(points) >= 2, NEW left \in Int, NEW tenths \in Int,
         Slope(points).num > 0, tenths = Rounded(10 * left * Slope(points).den, Slope(points).num)
  PROVE  \E i \in Intervals(points) : (2 * tenths + 1) * More(points, i) >= 20 * left * Gap(points, i)
<1> SUFFICES ASSUME \A i \in Intervals(points) : ~((2 * tenths + 1) * More(points, i) >= 20 * left * Gap(points, i))
             PROVE  FALSE
  OBVIOUS
<1> DEFINE p == -(20 * left)
           q == -(2 * tenths + 1)
           num == Slope(points).num
           den == Slope(points).den
<1>1. p \in Int /\ q \in Int /\ num \in Int /\ den \in Int
  BY SlopeType
<1>2. ASSUME NEW i \in Intervals(points)
      PROVE  p * Gap(points, i) < q * More(points, i)
  <2>1. Gap(points, i) \in Int /\ More(points, i) \in Int
    BY IntervalType
  <2>2. (2 * tenths + 1) * More(points, i) < 20 * left * Gap(points, i)
    BY <2>1
  <2>3. /\ p * Gap(points, i) = -(20 * left * Gap(points, i))
        /\ q * More(points, i) = -((2 * tenths + 1) * More(points, i))
    BY <2>1
  <2>4. QED
    BY <2>1, <2>2, <2>3
<1>3. p * den < q * num
  <2> HIDE DEF p, q
  <2>1. QED
    BY <1>1, <1>2, SlopeOfRates
<1>4. 2 * (10 * left * den) < (2 * tenths + 1) * num
  <2> DEFINE n == 10 * left * den
  <2>1. n \in Int /\ num > 0 /\ tenths = Rounded(n, num)
    BY <1>1
  <2> HIDE DEF n, num
  <2>2. (2 * tenths - 1) * num <= 2 * n /\ 2 * n < (2 * tenths + 1) * num
    BY <1>1, <2>1, RoundedBounds
  <2>3. QED
    BY <2>2 DEF n
<1>5. p * den = -(2 * (10 * left * den)) /\ q * num = -((2 * tenths + 1) * num)
  BY <1>1
<1>6. 2 * (10 * left * den) \in Int /\ (2 * tenths + 1) * num \in Int
  BY <1>1
<1>7. QED
  BY <1>3, <1>4, <1>5, <1>6

LEMMA SlowEnough ==
  ASSUME NEW points, PointsType(points), Len(points) >= 2, NEW left \in Int, NEW tenths \in Int,
         Slope(points).num > 0, tenths = Rounded(10 * left * Slope(points).den, Slope(points).num)
  PROVE  \E i \in Intervals(points) : (2 * tenths - 1) * More(points, i) <= 20 * left * Gap(points, i)
<1> SUFFICES ASSUME \A i \in Intervals(points) : ~((2 * tenths - 1) * More(points, i) <= 20 * left * Gap(points, i))
             PROVE  FALSE
  OBVIOUS
<1> DEFINE p == 20 * left
           q == 2 * tenths - 1
           num == Slope(points).num
           den == Slope(points).den
<1>1. p \in Int /\ q \in Int /\ num \in Int /\ den \in Int
  BY SlopeType
<1>2. ASSUME NEW i \in Intervals(points)
      PROVE  p * Gap(points, i) < q * More(points, i)
  <2>1. Gap(points, i) \in Int /\ More(points, i) \in Int
    BY IntervalType
  <2>2. QED
    BY <2>1
<1>3. p * den < q * num
  <2> HIDE DEF p, q
  <2>1. QED
    BY <1>1, <1>2, SlopeOfRates
<1>4. (2 * tenths - 1) * num <= 2 * (10 * left * den)
  <2> DEFINE n == 10 * left * den
  <2>1. n \in Int /\ num > 0 /\ tenths = Rounded(n, num)
    BY <1>1
  <2> HIDE DEF n, num
  <2>2. (2 * tenths - 1) * num <= 2 * n /\ 2 * n < (2 * tenths + 1) * num
    BY <1>1, <2>1, RoundedBounds
  <2>3. QED
    BY <2>2 DEF n
<1>5. p * den = 2 * (10 * left * den)
  BY <1>1
<1>6. 2 * (10 * left * den) \in Int /\ (2 * tenths - 1) * num \in Int
  BY <1>1
<1>7. QED
  BY <1>3, <1>4, <1>5, <1>6

LEMMA BracketedHolds ==
  ASSUME NEW points, PointsType(points), Len(points) >= 2, NEW capacity \in Int
  PROVE  Bracketed(points, capacity)
<1> DEFINE tenths == DaysToFull(points, capacity)
           left == capacity - points[Len(points)].used
           num == Slope(points).num
           den == Slope(points).den
           Rate(i) == [more |-> points[i+1].used - points[i].used, days |-> points[i+1].day - points[i].day]
           Rates == {Rate(i) : i \in 1..Len(points)-1}
<1>1. num \in Int /\ den \in Int /\ den > 0
  BY SlopeType, DenPositive
<1>2. left \in Int
  <2>1. Len(points) \in 1..Len(points) /\ points[Len(points)].used \in Int
    BY SeriesType
  <2>2. QED
    BY <2>1
<1>3. capacity # None
  BY NoneAssumption
<1>4. tenths = IF capacity <= 0 \/ num <= 0 THEN None
               ELSE IF left <= 0 THEN 0 ELSE Rounded(10 * left * den, num)
  BY <1>1, <1>3 DEF DaysToFull
<1>5. \A i \in Intervals(points) : /\ Rate(i) \in Rates
                                   /\ Rate(i).more = More(points, i) /\ Rate(i).days = Gap(points, i)
  BY DEF Intervals, More, Gap
<1> HIDE DEF tenths, left, num, den
<1>6. ASSUME \A r \in Rates : r.more <= 0
      PROVE  tenths = None
  <2>1. \A i \in Intervals(points) : More(points, i) <= 0
    BY <1>5, <1>6
  <2>2. num <= 0
    BY <2>1, NotGrowing DEF num
  <2>3. QED
    BY <1>4, <2>2
<1>7. Rounded(10 * left * den, num) \in Int \/ num <= 0
  BY <1>1, <1>2, RoundedBounds
<1>8. ASSUME capacity > 0, \A r \in Rates : r.more > 0
      PROVE  tenths # None
  <2>1. \A i \in Intervals(points) : More(points, i) > 0
    BY <1>5, <1>8
  <2>2. num > 0
    BY <2>1, Growing DEF num
  <2>3. QED
    BY <1>1, <1>4, <1>7, <1>8, <2>2, NoneAssumption
<1>9. ASSUME tenths # None, left <= 0
      PROVE  tenths = 0
  BY <1>4, <1>9
<1>10. ASSUME tenths # None, left > 0
       PROVE  /\ \E r \in Rates : (2 * tenths + 1) * r.more >= 20 * left * r.days
              /\ \E r \in Rates : (2 * tenths - 1) * r.more <= 20 * left * r.days
  <2>1. num > 0 /\ tenths = Rounded(10 * left * den, num) /\ tenths \in Int
    BY <1>1, <1>2, <1>4, <1>7, <1>10
  <2>2. PICK i \in Intervals(points) : (2 * tenths + 1) * More(points, i) >= 20 * left * Gap(points, i)
    BY <1>2, <2>1, FastEnough DEF num, den
  <2>3. PICK j \in Intervals(points) : (2 * tenths - 1) * More(points, j) <= 20 * left * Gap(points, j)
    BY <1>2, <2>1, SlowEnough DEF num, den
  <2> HIDE DEF Rate, Rates
  <2>4. /\ (2 * tenths + 1) * Rate(i).more >= 20 * left * Rate(i).days
        /\ (2 * tenths - 1) * Rate(j).more <= 20 * left * Rate(j).days
    BY <1>5, <2>2, <2>3
  <2>5. Rate(i) \in Rates /\ Rate(j) \in Rates
    BY <1>5
  <2>6. QED
    BY <2>4, <2>5
<1>11. QED
  BY <1>6, <1>8, <1>9, <1>10 DEF Bracketed, tenths, left

(* For any growth of any number of samples, the least-squares projection is  *)
(* no nearer than at the fastest and no further than at the slowest rate seen*)
(* between two samples, and there is one exactly when growth speaks for it.  *)
THEOREM ProjectionsBracketed == Spec => []ProjectionBracketed
<1>1. ASSUME InputType(inp), NEW f \in {"dbGrowth", "driveGrowth"}, NEW key \in DOMAIN inp[f],
             inp[f][key].capacity # None, Len(inp[f][key].points) >= 2
      PROVE  Bracketed(inp[f][key].points, inp[f][key].capacity)
  <2>1. GrowthType(inp[f])
    BY <1>1 DEF InputType
  <2>2. PointsType(inp[f][key].points) /\ inp[f][key].capacity \in Int
    BY <1>1, <2>1 DEF GrowthType, Reading
  <2>3. QED
    BY <1>1, <2>2, BracketedHolds
<1>2. TypeOK => ProjectionBracketed
  BY <1>1 DEF TypeOK, ProjectionBracketed
<1>3. QED
  BY <1>2, TypeCorrect, PTL
===============================================================================
