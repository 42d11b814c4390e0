-------------------------- MODULE ThresholdOverrides --------------------------
(***************************************************************************)
(* How a worker resolves the thresholds of its server: the deep copy of the*)
(* fleet defaults and the merges of config.Thresholds.effective and        *)
(* _deep_merge, on the one Thresholds object that all workers share.       *)
(*                                                                         *)
(* Thresholds are dictionaries of dictionaries: a category is a block of   *)
(* keys.  Merging an overlay whose category the base already has copies the*)
(* keys into the base's block; a category it does not have is put in as it *)
(* is, so that the merged thresholds and the overlay then share one block. *)
(* Every block is therefore either the worker's own or a reference into    *)
(* the overrides, and a later merge writes to whichever it is.             *)
(***************************************************************************)
EXTENDS Integers, Sequences

CONSTANTS
  Worker,     \* the threads of the pool
  Server, Tag,
  NoServer,   \* what an idle worker is busy with
  TagsOf,     \* server.tags, a sequence for each server
  Defaults,   \* thresholds.defaults: a block of keys for some categories
  Overrides   \* by_tag and by_server as loaded: blocks for each tag and server

Source == Tag \cup Server
Layers(s) == Append(TagsOf[s], s)

(* A dictionary, and one of dictionaries.                                    *)
Dictionary(d) == d = [k \in DOMAIN d |-> d[k]]
Thresholds(t) == Dictionary(t) /\ \A c \in DOMAIN t : Dictionary(t[c])

ASSUME OverrideAssumption ==
  /\ Tag \cap Server = {} /\ NoServer \notin Server
  /\ TagsOf \in [Server -> Seq(Tag)]
  /\ Thresholds(Defaults)
  /\ DOMAIN Overrides = Source /\ Dictionary(Overrides)
  /\ \A o \in Source : Thresholds(Overrides[o])

VARIABLES
  overrides,  \* by_tag and by_server as they are by now
  pc,         \* pc[w]: "idle", "merging" or "resolved"
  server,     \* server[w]: the server w is busy with
  layer,      \* layer[w]: the position in Layers of the overlay to merge next
  own,        \* own[w]: the blocks of the merged thresholds that are w's own
  alias       \* alias[w]: for the others, the source whose block it is

mergeVars == <<overrides, pc, server, layer, own, alias>>

Empty == [c \in {} |-> {}]

MergeInit ==
  /\ overrides = Overrides
  /\ pc = [w \in Worker |-> "idle"]
  /\ server = [w \in Worker |-> NoServer]
  /\ layer = [w \in Worker |-> 1]
  /\ own = [w \in Worker |-> Empty]
  /\ alias = [w \in Worker |-> Empty]

Reset(w) ==
  /\ layer' = [layer EXCEPT ![w] = 1]
  /\ alias' = [alias EXCEPT ![w] = Empty]

(* copy.deepcopy(self.defaults).                                             *)
Copy(w) ==
  /\ pc[w] = "idle"
  /\ \E s \in Server : server' = [server EXCEPT ![w] = s]
  /\ own' = [own EXCEPT ![w] = Defaults]
  /\ pc' = [pc EXCEPT ![w] = "merging"]
  /\ Reset(w) /\ UNCHANGED overrides

MergedKeepingBase(base, overlay) ==  \* mutant: the earlier layer wins
  [k \in DOMAIN base \cup DOMAIN overlay |-> IF k \in DOMAIN base THEN base[k] ELSE overlay[k]]

(* _deep_merge of two blocks: the keys of the overlay win.                   *)
Merged(base, overlay) ==
  [k \in DOMAIN base \cup DOMAIN overlay |-> IF k \in DOMAIN overlay THEN overlay[k] ELSE base[k]]

NewBlocksAll(w, over) == DOMAIN over \ DOMAIN alias[w]  \* mutant: no isinstance check of the base

(* The overlay's categories that have no block to merge into yet.            *)
NewBlocks(w, over) == DOMAIN over \ (DOMAIN own[w] \cup DOMAIN alias[w])

(* _deep_merge of one overlay into the thresholds merged so far.  Where the  *)
(* block is only referred to, it is the overrides that change.               *)
MergeLayer(w) ==
  LET o == Layers(server[w])[layer[w]]
      over == overrides[o]
      Shared(q, c) == c \in DOMAIN alias[w] \cap DOMAIN over /\ alias[w][c] = q
      New == NewBlocks(w, over)
  IN  /\ pc[w] = "merging"
      /\ own' = [own EXCEPT ![w] = [c \in DOMAIN own[w] |->
                   IF c \in DOMAIN over THEN Merged(own[w][c], over[c]) ELSE own[w][c]]]
      /\ alias' = [alias EXCEPT ![w] = [c \in DOMAIN alias[w] \cup New |->
                     IF c \in New THEN o ELSE alias[w][c]]]
      /\ overrides' = [q \in Source |-> [c \in DOMAIN overrides[q] |->
                         IF Shared(q, c) THEN Merged(overrides[q][c], over[c]) ELSE overrides[q][c]]]
      /\ layer' = [layer EXCEPT ![w] = @ + 1]
      /\ pc' = [pc EXCEPT ![w] = IF layer[w] = Len(Layers(server[w])) THEN "resolved" ELSE "merging"]
      /\ UNCHANGED server

(* The evaluation is over.                                                   *)
Drop(w) ==
  /\ pc[w] = "resolved"
  /\ pc' = [pc EXCEPT ![w] = "idle"]
  /\ own' = [own EXCEPT ![w] = Empty]
  /\ server' = [server EXCEPT ![w] = NoServer]
  /\ Reset(w) /\ UNCHANGED overrides

MergeNext == \E w \in Worker : Copy(w) \/ MergeLayer(w) \/ Drop(w)

MergeSpec == MergeInit /\ [][MergeNext]_mergeVars

(* The thresholds the rules see.                                             *)
Effective(w) ==
  [c \in DOMAIN own[w] \cup DOMAIN alias[w] |->
     IF c \in DOMAIN own[w] THEN own[w][c] ELSE overrides[alias[w][c]][c]]

-----------------------------------------------------------------------------
(* Correctness.                                                              *)

(* What a server's thresholds are meant to be after n of its layers: for     *)
(* each key the last layer, of those the files give it, that sets it, or the *)
(* fleet default.                                                            *)
Sets(s, i, c) == c \in DOMAIN Overrides[Layers(s)[i]]
SetsKey(s, n, c, k) ==
  {i \in 1..n : Sets(s, i, c) /\ k \in DOMAIN Overrides[Layers(s)[i]][c]}
Latest(S) == CHOOSE i \in S : \A j \in S : j <= i
DefaultKeys(c) == IF c \in DOMAIN Defaults THEN DOMAIN Defaults[c] ELSE {}
OverlayKeys(s, i, c) == IF Sets(s, i, c) THEN DOMAIN Overrides[Layers(s)[i]][c] ELSE {}
Categories(s, n) == DOMAIN Defaults \cup UNION {DOMAIN Overrides[Layers(s)[i]] : i \in 1..n}
Keys(s, n, c) == DefaultKeys(c) \cup UNION {OverlayKeys(s, i, c) : i \in 1..n}

IntendedBlock(s, n, c) ==
  [k \in Keys(s, n, c) |->
     IF SetsKey(s, n, c, k) = {} THEN Defaults[c][k]
     ELSE Overrides[Layers(s)[Latest(SetsKey(s, n, c, k))]][c][k]]

Intended(s, n) == [c \in Categories(s, n) |-> IntendedBlock(s, n, c)]

(* Each category that the defaults lack is set by one layer of a server at   *)
(* most.                                                                     *)
NoneShared ==
  \A s \in Server : \A i, j \in 1..Len(Layers(s)) :
    i < j => DOMAIN Overrides[Layers(s)[i]] \cap DOMAIN Overrides[Layers(s)[j]] \subseteq DOMAIN Defaults

(* config.py: "override precedence: fleet defaults -> tag -> server": a      *)
(* server is judged by its own thresholds, whichever servers were resolved   *)
(* before it or are being resolved next to it.                               *)
OwnThresholds ==
  \A w \in Worker :
    pc[w] = "resolved" => Effective(w) = Intended(server[w], Len(Layers(server[w])))
===============================================================================
