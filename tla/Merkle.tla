------------------------------- MODULE Merkle -------------------------------
(***************************************************************************)
(* lib/merkle.ts: the root that an anchoring transaction commits to, and   *)
(* the path by which an auditor finds one cycle under it.  One step is one *)
(* turn of the loop of buildMerkleProof, a level of the tree.              *)
(*                                                                         *)
(* SHA-256 is abstracted to a function without collisions.  A leaf is JSON *)
(* and begins with a brace, a node hashes 128 hex digits, so that no leaf  *)
(* is ever read as a node.                                                 *)
(***************************************************************************)
EXTENDS Naturals, Sequences, FiniteSets, SequencesExt

CONSTANTS
  Leaf  \* the canonical forms of cycles, finitely many

VARIABLES
  leaves,  \* the arguments of buildMerkleProof
  target,
  level,   \* its locals; idx counts from 0
  idx,
  proof

vars == <<leaves, target, level, idx, proof>>
-----------------------------------------------------------------------------
\* sha256hex of a leaf.
HashLeaf(x) == [leaf |-> x]

\* sha256hex(left + right).
HashPair(left, right) == [left |-> left, right |-> right]

\* The children of the k-th node of the next level; an odd node is paired with
\* itself.
LeftOf(lv, k) == lv[2 * k - 1]
RightOf(lv, k) == IF 2 * k <= Len(lv) THEN lv[2 * k] ELSE lv[2 * k - 1]

NextLevel(lv) ==
  [k \in 1..((Len(lv) + 1) \div 2) |-> HashPair(LeftOf(lv, k), RightOf(lv, k))]

Hashes(s) == [i \in 1..Len(s) |-> HashLeaf(s[i])]

\* Level h of the tree over s.
LevelOf(s, h) ==
  LET at[n \in 0..h] == IF n = 0 THEN Hashes(s) ELSE NextLevel(at[n - 1])
  IN  at[h]

\* buildMerkleRoot: the first level with one node, where its loop ends.
Root(s) ==
  LET height == CHOOSE h \in 0..Len(s) :
                  Len(LevelOf(s, h)) = 1 /\ \A g \in 0..(h - 1) : Len(LevelOf(s, g)) > 1
  IN  LevelOf(s, height)[1]

\* A sibling recorded with the side of the target's own node.
Sibling_OwnSide(lv, i) ==
  LET k == i \div 2 + 1
  IN  IF i % 2 = 0 THEN [hash |-> RightOf(lv, k), position |-> "left"]
                   ELSE [hash |-> LeftOf(lv, k), position |-> "right"]

\* What the proof records about the pair that holds position i.
Sibling(lv, i) ==
  LET k == i \div 2 + 1
  IN  IF i % 2 = 0 THEN [hash |-> RightOf(lv, k), position |-> "right"]
                   ELSE [hash |-> LeftOf(lv, k), position |-> "left"]

\* getDailySummary has a leaf for each of one or more cycles, with its id in it.
LeafSequences ==
  {s \in UNION {[1..n -> Leaf] : n \in 1..Cardinality(Leaf)} :
     \A i, j \in DOMAIN s : s[i] = s[j] => i = j}

Init ==
  /\ leaves \in LeafSequences
  /\ target \in 0..(Len(leaves) - 1)
  /\ level = Hashes(leaves)
  /\ idx = target
  /\ proof = <<>>

Climb ==
  /\ Len(level) > 1
  /\ proof' = Append(proof, Sibling(level, idx))
  /\ level' = NextLevel(level)
  /\ idx' = idx \div 2
  /\ UNCHANGED <<leaves, target>>

Next == Climb

Spec == Init /\ [][Next]_vars
-----------------------------------------------------------------------------
(* Properties.                                                             *)

\* What a verifier computes from a leaf and a path: the library has no verifier,
\* its tests hold this loop.
Recompute(x, path) ==
  FoldLeft(LAMBDA hash, step : IF step.position = "right" THEN HashPair(hash, step.hash)
                                                          ELSE HashPair(step.hash, hash),
           HashLeaf(x), path)

\* At every level the path recorded so far leads from the target's leaf to the
\* node above it, and at the end to the root that buildMerkleRoot gives, also
\* where odd nodes were paired with themselves.
PathLeadsToRoot ==
  /\ Recompute(leaves[target + 1], proof) = level[idx + 1]
  /\ Len(level) = 1 => level[1] = Root(leaves)

\* A root commits to its cycles: no other list of different cycles has it, so it
\* may stand for the set of its leaves (as in module Anchoring).  Lists with
\* repetitions can collide, because an odd node is duplicated.
RootCommits ==
  Len(level) = 1 => \A s \in LeafSequences : Root(s) = level[1] => s = leaves
-----------------------------------------------------------------------------
(* The inductive invariant of these properties.                            *)

TypeOK ==
  /\ leaves \in LeafSequences /\ target \in 0..(Len(leaves) - 1)
  /\ idx \in 0..(Len(level) - 1)
  /\ proof \in Seq(ToSet(proof))

\* The loop of the proof goes up the levels of the root, and gets there.
LevelsAreOfTheRoot ==
  /\ level = LevelOf(leaves, Len(proof))
  /\ \A g \in 0..(Len(proof) - 1) : Len(LevelOf(leaves, g)) > 1
  /\ Len(level) + Len(proof) <= Len(leaves)

IInv ==
  /\ TypeOK /\ LevelsAreOfTheRoot
  /\ Recompute(leaves[target + 1], proof) = level[idx + 1]
=============================================================================
